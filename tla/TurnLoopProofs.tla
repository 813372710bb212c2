----------------------------- MODULE TurnLoopProofs -----------------------------
(***************************************************************************)
(* TurnLoop for any files, modes, turn limits, batch sizes and numbers of  *)
(* workers: the calls of a batch keep the policy of its turn, the circuit  *)
(* breaker opens exactly after three failed tool turns in a row, a plan    *)
(* made over and over is warned about, the searches and reads of every     *)
(* mode keep their budgets, withdrawn tools are never offered again, and   *)
(* every exploration ends within a number of steps.                        *)
(***************************************************************************)
EXTENDS TurnLoop, SequenceTheorems, FiniteSetTheorems, TLAPS

\* Steps that touch neither the batch nor its policy.
batch == <<policy, calls, queued, active, selected, results>>
-----------------------------------------------------------------------------
(* The batch.  Workers take the calls in order, so the queue is always the  *)
(* rest of the reply; a call that was opened is remembered by its file.     *)

QueueInv ==
  \E k \in Nat \ {0}, n \in Nat :
    DOMAIN calls = 1 .. n /\ queued = k .. n

BatchInv ==
  /\ QueueInv
  /\ active \subseteq DOMAIN calls \ queued
  /\ DOMAIN results = DOMAIN calls
  /\ \A i \in queued \cup active : results[i] = Pending
  /\ \A i \in DOMAIN calls \ (queued \cup active) : Done(i)
  /\ phase # "batch" => active = {} /\ calls = <<>>
  /\ policy.bounded =>
       \A i \in DOMAIN calls :
         Opened(i) => /\ Target(calls[i]) \in policy.allowedReadPaths \cap selected
                      /\ \A j \in DOMAIN calls :
                           Opened(j) /\ i # j => Target(calls[i]) # Target(calls[j])
  /\ \A i \in DOMAIN calls :
       calls[i].tool = "read" /\ results[i].paths # {} => results[i].paths = {Target(calls[i])}

LEMMA BatchKept == BatchInv => BatchKeepsThePolicy
BY DEF BatchInv, BatchKeepsThePolicy

\* A worker takes the first of the queue.
LEMMA NextIsFirst ==
  ASSUME BatchInv, queued # {}
  PROVE  /\ NextCall \in queued /\ queued \subseteq DOMAIN calls
         /\ \E k \in Nat \ {0}, n \in Nat : DOMAIN calls = 1 .. n /\ queued \ {NextCall} = k .. n
<1>1. PICK k \in Nat \ {0}, n \in Nat : DOMAIN calls = 1 .. n /\ queued = k .. n
  BY DEF BatchInv, QueueInv
<1>2. k \in queued /\ \A j \in queued : k <= j
  BY <1>1
<1>3. NextCall \in queued /\ \A j \in queued : NextCall <= j
  BY <1>2 DEF NextCall
<1>4. NextCall = k
  BY <1>1, <1>2, <1>3
<1>5. queued \ {NextCall} = k + 1 .. n /\ k + 1 \in Nat \ {0}
  BY <1>1, <1>4
<1> QED BY <1>1, <1>3, <1>5

LEMMA InitBatch == Init => BatchInv
<1> SUFFICES ASSUME Init PROVE BatchInv
  OBVIOUS
<1>1. calls = <<>> /\ queued = {} /\ active = {} /\ results = <<>> /\ phase = "head"
  BY DEF Init
<1>2. DOMAIN calls = 1 .. 0 /\ queued = 1 .. 0
  BY <1>1
<1>3. QueueInv
  BY <1>2 DEF QueueInv
<1> QED BY <1>1, <1>2, <1>3 DEF BatchInv

\* An empty batch is in order under any policy.
LEMMA EmptyBatch ==
  ASSUME calls = <<>>, queued = {}, active = {}, results = <<>>
  PROVE  BatchInv
<1>1. DOMAIN calls = 1 .. 0 /\ queued = 1 .. 0
  OBVIOUS
<1>2. QueueInv
  BY <1>1 DEF QueueInv
<1> QED BY <1>1, <1>2 DEF BatchInv

LEMMA BeginTurnBatch == BatchInv /\ BeginTurn => BatchInv'
<1> SUFFICES ASSUME BatchInv, BeginTurn PROVE BatchInv'
  OBVIOUS
<1>1. calls = <<>> /\ active = {} /\ DOMAIN results = {} /\ queued = {}
  <2>1. calls = <<>> /\ active = {} /\ DOMAIN results = {}
    BY DEF BeginTurn, BatchInv
  <2>2. queued = {}
    <3>1. PICK k \in Nat \ {0}, n \in Nat : DOMAIN calls = 1 .. n /\ queued = k .. n
      BY DEF BatchInv, QueueInv
    <3>2. n = 0
      BY <2>1, <3>1
    <3> QED BY <3>1, <3>2
  <2> QED BY <2>1, <2>2
<1>2. UNCHANGED <<calls, queued, active, selected, results>> /\ phase' # "batch" /\ phase' # "head"
  BY DEF BeginTurn, Leave, batchVars
<1>3. DOMAIN calls = {} /\ DOMAIN calls' = {}
  BY <1>1, <1>2
<1>4. QueueInv'
  BY <1>2 DEF BatchInv, QueueInv
<1> QED BY <1>1, <1>2, <1>3, <1>4 DEF BatchInv

LEMMA ToolReplyBatch ==
  ASSUME BatchInv, NEW reply \in Replies, ToolReply(reply)
  PROVE  BatchInv'
<1>1. PICK n \in Nat : DOMAIN reply = 1 .. n
  BY TurnLoopAssumption DEF Replies
<1>2. /\ calls' = reply /\ queued' = DOMAIN reply /\ active' = {} /\ selected' = {}
      /\ results' = [i \in DOMAIN reply |-> Pending] /\ phase' = "batch"
  BY DEF ToolReply
<1>3. QueueInv'
  <2>1. DOMAIN calls' = 1 .. n /\ queued' = 1 .. n
    BY <1>1, <1>2
  <2> QED BY <2>1 DEF QueueInv
<1>4. \A i \in DOMAIN calls' : results'[i].pending /\ results'[i].paths = {} /\ ~Opened(i)'
  BY <1>2 DEF Pending, Opened, Done
<1> QED BY <1>2, <1>3, <1>4 DEF BatchInv

\* A call that is taken is either refused or opened, and the files opened before
\* stay open.
LEMMA StartCallBatch == BatchInv /\ StartCall => BatchInv'
<1> SUFFICES ASSUME BatchInv, StartCall PROVE BatchInv'
  OBVIOUS
<1>0. PICK i : i = NextCall
  OBVIOUS
<1>1. /\ i \in queued /\ queued \subseteq DOMAIN calls /\ queued' = queued \ {i}
      /\ UNCHANGED <<calls, policy>> /\ phase = "batch" /\ phase' = "batch"
  BY <1>0, NextIsFirst DEF StartCall, MayStart, loopVars
<1>2. QueueInv'
  BY <1>0, <1>1, NextIsFirst DEF QueueInv
<1>3. \A j \in DOMAIN calls : Target(calls[j])' = Target(calls[j])
  BY <1>1 DEF Target
<1>4. results[i] = Pending /\ i \notin active /\ DOMAIN results = DOMAIN calls
  BY <1>1 DEF BatchInv
<1>5. CASE Rejected(calls[i])
  <2>1. /\ results' = [results EXCEPT ![i] = Result(TRUE, {}, FALSE)]
        /\ UNCHANGED <<active, selected>>
    BY <1>0, <1>5 DEF StartCall
  <2>2. ~Opened(i)' /\ Done(i)' /\ results'[i].paths = {}
    BY <1>1, <1>4, <2>1 DEF Opened, Done, Ran, Result
  <2>3. \A j \in DOMAIN calls \ {i} : results'[j] = results[j] /\ Opened(j)' = Opened(j) /\ Done(j)' = Done(j)
    BY <1>1, <2>1 DEF Opened, Done, Ran
  <2>4. DOMAIN results' = DOMAIN calls'
    BY <1>1, <1>4, <2>1
  <2>5. \A j \in DOMAIN calls : Opened(j)' => Opened(j)
    BY <2>2, <2>3
  <2>6. policy'.bounded =>
          \A j \in DOMAIN calls' :
            Opened(j)' => /\ Target(calls[j])' \in policy'.allowedReadPaths \cap selected'
                          /\ \A m \in DOMAIN calls' :
                               Opened(m)' /\ j # m => Target(calls[j])' # Target(calls[m])'
    BY <1>1, <1>3, <2>1, <2>5 DEF BatchInv
  <2>7. \A j \in DOMAIN calls' :
          calls'[j].tool = "read" /\ results'[j].paths # {} => results'[j].paths = {Target(calls[j])'}
    BY <1>1, <1>3, <2>2, <2>3 DEF BatchInv
  <2>8. /\ \A j \in queued' \cup active' : results'[j] = Pending
        /\ \A j \in DOMAIN calls' \ (queued' \cup active') : Done(j)'
        /\ active' \subseteq DOMAIN calls' \ queued'
    BY <1>1, <1>4, <2>1, <2>2, <2>3 DEF BatchInv
  <2> QED BY <1>1, <1>2, <2>4, <2>6, <2>7, <2>8 DEF BatchInv
<1>6. CASE ~Rejected(calls[i])
  <2>1. /\ active' = active \cup {i} /\ UNCHANGED results
        /\ selected' = IF policy.bounded THEN selected \cup {Target(calls[i])} ELSE selected
    BY <1>0, <1>6 DEF StartCall
  <2>2. policy.bounded => Target(calls[i]) \in policy.allowedReadPaths \ selected
    BY <1>6 DEF Rejected
  <2>3. \A j \in DOMAIN calls \ {i} : Opened(j)' = Opened(j)
    BY <1>1, <2>1 DEF Opened, Done, Ran
  <2>4. \A j \in DOMAIN calls : Done(j)' = Done(j)
    BY <2>1 DEF Done
  <2>5. policy.bounded =>
          \A j \in DOMAIN calls \ {i} : Opened(j) => Target(calls[j]) # Target(calls[i])
    BY <2>2 DEF BatchInv
  <2>6. policy'.bounded =>
          \A j \in DOMAIN calls' :
            Opened(j)' => /\ Target(calls[j])' \in policy'.allowedReadPaths \cap selected'
                          /\ \A m \in DOMAIN calls' :
                               Opened(m)' /\ j # m => Target(calls[j])' # Target(calls[m])'
    BY <1>1, <1>3, <2>1, <2>2, <2>3, <2>5 DEF BatchInv
  <2>7. active' \subseteq DOMAIN calls' \ queued'
    BY <1>1, <2>1 DEF BatchInv
  <2> QED BY <1>1, <1>2, <1>3, <1>4, <2>1, <2>4, <2>6, <2>7 DEF BatchInv
<1> QED BY <1>5, <1>6

LEMMA FinishCallBatch ==
  ASSUME BatchInv, NEW i \in active, NEW result \in Outcomes(calls[i]), FinishCall(i, result)
  PROVE  BatchInv'
<1>1. /\ UNCHANGED <<calls, policy, queued, selected>> /\ phase' = phase /\ phase = "batch"
      /\ active' = active \ {i} /\ results' = [results EXCEPT ![i] = result]
  BY DEF FinishCall, loopVars
<1>2. /\ ~result.pending
      /\ calls[i].tool = "read" => result.paths = {} \/ result.paths = {Target(calls[i])}
  BY DEF Outcomes, Result
<1>3. i \in DOMAIN calls /\ i \notin queued /\ DOMAIN results = DOMAIN calls
  BY DEF BatchInv
<1>4. results'[i] = result /\ \A j \in DOMAIN calls \ {i} : results'[j] = results[j]
  BY <1>1, <1>3
<1>5. \A j \in DOMAIN calls : Opened(j)' => Opened(j)
  BY <1>1, <1>4 DEF Opened, Done, Ran
<1>6. \A j \in DOMAIN calls : Target(calls[j])' = Target(calls[j])
  BY <1>1 DEF Target
<1>7. QueueInv' /\ active' \subseteq DOMAIN calls' \ queued' /\ DOMAIN results' = DOMAIN calls'
  BY <1>1, <1>3 DEF BatchInv, QueueInv
<1>8. \A j \in DOMAIN calls \ (queued \cup active') : Done(j)'
  BY <1>1, <1>2, <1>4 DEF BatchInv, Done
<1>9. \A j \in queued \cup active' : results'[j] = Pending
  <2>1. \A j \in queued \cup active' : j # i /\ j \in DOMAIN results
    <3>1. queued \subseteq DOMAIN calls
      BY DEF BatchInv, QueueInv
    <3> QED BY <1>1, <1>3, <3>1 DEF BatchInv
  <2> QED BY <1>1, <2>1 DEF BatchInv
<1>10. \A j \in DOMAIN calls' :
         calls'[j].tool = "read" /\ results'[j].paths # {} => results'[j].paths = {Target(calls[j])'}
  BY <1>1, <1>2, <1>4, <1>6 DEF BatchInv
<1> QED BY <1>1, <1>5, <1>6, <1>7, <1>8, <1>9, <1>10 DEF BatchInv

LEMMA RecordBatchBatch == BatchInv /\ RecordBatch => BatchInv'
<1> SUFFICES ASSUME RecordBatch PROVE BatchInv'
  OBVIOUS
<1>1. calls' = <<>> /\ queued' = {} /\ active' = {} /\ results' = <<>>
  BY DEF RecordBatch, BatchDone
<1>2. DOMAIN calls' = 1 .. 0 /\ queued' = 1 .. 0
  BY <1>1
<1>3. QueueInv'
  BY <1>2 DEF QueueInv
<1> QED BY <1>1, <1>2, <1>3 DEF BatchInv

\* Every other step leaves the batch alone and starts none.
LEMMA OthersBatch ==
  ASSUME BatchInv, UNCHANGED batch,
         phase' = phase \/ (phase # "batch" /\ phase' # "batch")
  PROVE  BatchInv'
<1>1. QueueInv'
  BY DEF BatchInv, QueueInv, batch
<1>2. \A i \in DOMAIN calls :
        /\ Opened(i)' = Opened(i) /\ Done(i)' = Done(i) /\ Target(calls[i])' = Target(calls[i])
  BY DEF Opened, Done, Ran, Target, batch
<1> QED BY <1>1, <1>2 DEF BatchInv, batch

LEMMA NextBatch == BatchInv /\ [Next]_vars => BatchInv'
<1> SUFFICES ASSUME BatchInv, [Next]_vars PROVE BatchInv'
  OBVIOUS
<1>1. CASE BeginTurn
  BY <1>1, BeginTurnBatch
<1>2. CASE \E reply \in Replies : ToolReply(reply)
  BY <1>2, ToolReplyBatch
<1>3. CASE StartCall
  BY <1>3, StartCallBatch
<1>4. CASE \E i \in active : \E result \in Outcomes(calls[i]) : FinishCall(i, result)
  BY <1>4, FinishCallBatch
<1>5. CASE RecordBatch
  BY <1>5, RecordBatchBatch
<1>6. CASE TextReply
  <2>1. UNCHANGED batch /\ phase = "asked" /\ phase' \in {"head", "synthesis"}
    BY <1>6 DEF TextReply, batch, batchVars
  <2> QED BY <2>1, OthersBatch
<1>7. CASE TurnLimit \/ RequestFails \/ Commit \/ \E parsed \in BOOLEAN : Synthesized(parsed)
  <2>1. /\ UNCHANGED batch /\ phase # "batch"
        /\ phase' \in {"synthesis", "repair", "closing", "ended"}
    BY <1>7 DEF TurnLimit, RequestFails, Commit, Synthesized, Leave, batch, batchVars, loopVars
  <2> QED BY <2>1, OthersBatch
<1>8. CASE Abort \/ UNCHANGED vars
  <2>1. UNCHANGED batch /\ phase' = phase
    BY <1>8 DEF Abort, vars, batch, batchVars, loopVars
  <2> QED BY <2>1, OthersBatch
<1> QED BY <1>1, <1>2, <1>3, <1>4, <1>5, <1>6, <1>7, <1>8 DEF Next, Step

\* With any number of workers, a bounded turn opens only listed files and none
\* of them twice, and each result is that of its own call (runWithConcurrency).
THEOREM BatchesKeepThePolicy == Spec => []BatchKeepsThePolicy
BY InitBatch, NextBatch, BatchKept, PTL DEF Spec
-----------------------------------------------------------------------------
(* The circuit breaker.  The counter of failed turns is the length of the   *)
(* run of failures that ends the history, and the last of two was warned.   *)

TurnRecords == [repeats : BOOLEAN, failed : BOOLEAN, guided : BOOLEAN]
Open == phase \notin {"closing", "ended"}

\* The history has n turns and ends in errorTurns failures.
Counted(n) ==
  /\ Len(recent) = n /\ errorTurns \in 0 .. n
  /\ \A i \in 1 .. n : i > n - errorTurns => recent[i].failed
  /\ errorTurns < n => ~recent[n - errorTurns].failed
  /\ errorTurns >= 2 => recent[2 + n - errorTurns].guided

BreakInv ==
  /\ recent \in Seq(TurnRecords) /\ repeats \in BOOLEAN
  /\ \E n \in 0 .. 3 : Counted(n)
  /\ errorTurns = 3 => ~Open
  /\ Open => exit = "none"
  /\ phase = "closing" /\ exit = "errors" => errorTurns = 3

LEMMA BreakerFollows == BreakInv => BreakerIsTight
<1> SUFFICES ASSUME BreakInv PROVE BreakerIsTight
  OBVIOUS
<1>0. PICK n \in 0 .. 3 : Counted(n)
  BY DEF BreakInv
<1>1. ASSUME errorTurns = 3
      PROVE  Len(recent) = 3 /\ (\A i \in 1 .. 3 : recent[i].failed) /\ recent[2].guided
  <2>1. n = 3
    BY <1>0, <1>1 DEF Counted
  <2> QED BY <1>0, <1>1, <2>1 DEF Counted
<1>2. ASSUME Len(recent) = 3, \A i \in 1 .. 3 : recent[i].failed
      PROVE  errorTurns = 3
  <2>1. n = 3
    BY <1>0, <1>2 DEF Counted
  <2>2. ASSUME errorTurns < 3 PROVE FALSE
    <3>1. 3 - errorTurns \in 1 .. 3
      BY <1>0, <2>1, <2>2 DEF Counted
    <3>2. ~recent[3 - errorTurns].failed
      BY <1>0, <2>1, <2>2 DEF Counted
    <3> QED BY <1>2, <3>1, <3>2
  <2> QED BY <1>0, <2>1, <2>2 DEF Counted
<1> QED BY <1>1, <1>2 DEF BreakInv, BreakerIsTight, Open

LEMMA InitBreak == Init => BreakInv
<1> SUFFICES ASSUME Init PROVE BreakInv
  OBVIOUS
<1>1. recent = <<>> /\ errorTurns = 0 /\ repeats = FALSE /\ phase = "head" /\ exit = "none"
  BY DEF Init
<1>2. recent \in Seq(TurnRecords) /\ Len(recent) = 0
  BY <1>1, EmptySeq
<1>3. Counted(0) /\ 0 \in 0 .. 3
  BY <1>1, <1>2 DEF Counted
<1>4. \E n \in 0 .. 3 : Counted(n)
  BY Zenon, <1>3
<1>5. /\ repeats \in BOOLEAN /\ (errorTurns = 3 => ~Open)
      /\ Open => exit = "none"
      /\ phase = "closing" /\ exit = "errors" => errorTurns = 3
  <2>1. errorTurns # 3
    BY <1>1
  <2> QED BY Zenon, <1>1, <2>1 DEF Open
<1> QED BY Zenon, <1>2, <1>4, <1>5 DEF BreakInv

\* What is kept of the history before the turn that is added.
LEMMA LastThreeOf ==
  ASSUME NEW seq \in Seq(TurnRecords), NEW n \in 0 .. 3, Len(seq) = n, NEW t \in TurnRecords
  PROVE  \E r \in Seq(TurnRecords), m \in 0 .. 2 :
           /\ Len(r) = m /\ LastThree(Append(seq, t)) = Append(r, t)
           /\ n < 3 => m = n /\ r = seq
           /\ n = 3 => m = 2 /\ r[1] = seq[2] /\ r[2] = seq[3]
<1> DEFINE a == Append(seq, t)
<1>1. a \in Seq(TurnRecords) /\ Len(a) = n + 1
  BY AppendProperties
<1> HIDE DEF a
<1>2. LastThree(a) = IF n + 1 > 3 THEN Tail(a) ELSE a
  BY <1>1 DEF LastThree
<1>3. CASE n < 3
  <2>1. LastThree(a) = a
    BY <1>2, <1>3
  <2>2. n \in 0..2 
    BY <1>3
  <2>3. LastThree(Append(seq, t)) = Append(seq, t)
    BY <2>1 DEF a
  <2>4. Len(seq) = n /\ (n < 3 => n = n /\ seq = seq) /\ (n = 3 => n = 2 /\ seq[1] = seq[2] /\ seq[2] = seq[3])
    BY <1>3
  <2> QED BY Zenon, <2>2, <2>3, <2>4
<1>4. CASE n = 3
  <2>1. LastThree(a) = Tail(a)
    BY <1>2, <1>4
  <2>4. seq # <<>>
    BY <1>4, EmptySeq
  <2>5. Tail(seq) \in Seq(TurnRecords) /\ Len(Tail(seq)) = Len(seq)-1 /\ \A i \in 1 .. Len(Tail(seq)) : Tail(seq)[i] = seq[i + 1]
    BY <2>4, HeadTailProperties
  <2>9. Len(Tail(seq)) = 2
    BY <1>4, <2>5
  <2>10. \A i \in 1 .. 2 : Tail(seq)[i] = seq[i + 1]
    BY Zenon, <2>5, <2>9
  <2>2. Len(Tail(seq)) = 2 /\ Tail(seq)[1] = seq[2] /\ Tail(seq)[2] = seq[3]
    BY <2>9, <2>10
  <2>3. Tail(a) = Append(Tail(seq), t)
    BY <2>4, HeadTailAppend DEF a
  <2>6. LastThree(Append(seq, t)) = Append(Tail(seq), t)
    BY <2>1, <2>3 DEF a
  <2>7. n < 3 => 2 = n /\ Tail(seq) = seq
    BY <1>4
  <2>8. 2 \in 0 .. 2
    OBVIOUS
  <2> QED BY Zenon, <2>5, <2>2, <2>6, <2>7, <2>8
<1> QED BY <1>3, <1>4

\* The turn a batch ends is the last of the history.
LEMMA RecordBatchBreak == BreakInv /\ RecordBatch => BreakInv'
<1> SUFFICES ASSUME BreakInv, RecordBatch PROVE BreakInv'
  OBVIOUS
<1>1. /\ recent' = LastThree(Append(recent, Turn)) /\ errorTurns' = NextErrorTurns
      /\ repeats' = FALSE /\ phase = "batch"
      /\ Breaks => phase' = "closing" /\ exit' = "errors"
      /\ ~Breaks => phase' = "head" /\ exit' = exit
  BY DEF RecordBatch, BatchDone, Leave
<1>2. /\ Turn \in TurnRecords
      /\ Turn.failed <=> AllErrors
      /\ Turn.guided <=> ~Breaks /\ Guides
  BY DEF Turn, TurnRecords, BreakInv, AllErrors, Guides, Breaks
<1>3. PICK t \in TurnRecords : t = Turn
  BY <1>2
<1>4. PICK n \in 0 .. 3 : Counted(n)
  BY DEF BreakInv
<1>5. errorTurns \in 0 .. 2 /\ exit = "none"
  BY <1>1, <1>4 DEF BreakInv, Open, Counted
<1>6. errorTurns' = IF t.failed THEN errorTurns + 1 ELSE 0
  BY <1>1, <1>2, <1>3 DEF NextErrorTurns
<1>7. Breaks <=> errorTurns' = 3
  BY <1>1, <1>5, <1>6 DEF Breaks, MaxConsecutiveErrorTurns
<1>8. errorTurns' = 2 => t.guided
  <2>1. errorTurns' = 2 => Guides
    BY <1>1 DEF Guides, ErrorRecoveryGuidanceTurns
  <2> QED BY <1>2, <1>3, <1>7, <2>1
<1>9. PICK r \in Seq(TurnRecords), m \in 0 .. 2 :
        /\ Len(r) = m /\ recent' = Append(r, t)
        /\ n < 3 => m = n /\ r = recent
        /\ n = 3 => m = 2 /\ r[1] = recent[2] /\ r[2] = recent[3]
  <2>1. recent \in Seq(TurnRecords)
    BY DEF BreakInv
  <2>2. Len(recent) = n
    BY <1>4 DEF Counted
  <2>3. recent' = LastThree(Append(recent, t))
    BY <1>1, <1>3
  <2>4. \E r \in Seq(TurnRecords), m \in 0 .. 2 :
          /\ Len(r) = m /\ LastThree(Append(recent, t)) = Append(r, t)
          /\ n < 3 => m = n /\ r = recent
          /\ n = 3 => m = 2 /\ r[1] = recent[2] /\ r[2] = recent[3]
    BY Zenon, <1>3, <1>4, <2>1, <2>2, LastThreeOf
  <2> QED BY Zenon, <2>3, <2>4
<1>10. /\ errorTurns <= m
       /\ \A i \in 1 .. m : i > m - errorTurns => r[i].failed
       /\ errorTurns < m => ~r[m - errorTurns].failed
       /\ errorTurns = 2 => r[m].guided
  <2>1. CASE n < 3
    BY <1>4, <1>9, <2>1 DEF Counted
  <2>2. CASE n = 3
    <3>1. CASE errorTurns = 0
      BY <1>4, <1>9, <2>2, <3>1 DEF Counted
    <3>2. CASE errorTurns = 1
      BY <1>4, <1>9, <2>2, <3>2 DEF Counted
    <3>3. CASE errorTurns = 2
      BY <1>4, <1>9, <2>2, <3>3 DEF Counted
    <3> QED BY <1>5, <3>1, <3>2, <3>3
  <2> QED BY <2>1, <2>2
<1>11. /\ recent' \in Seq(TurnRecords) /\ Len(recent') = m + 1
       /\ \A i \in 1 .. m : recent'[i] = r[i]
       /\ recent'[m + 1] = t
  BY <1>9, AppendProperties
<1>12. /\ errorTurns' \in 0 .. m + 1
       /\ \A i \in 1 .. m + 1 : i > m + 1 - errorTurns' => recent'[i].failed
       /\ errorTurns' < m + 1 => ~recent'[m + 1 - errorTurns'].failed
       /\ errorTurns' >= 2 => recent'[2 + m + 1 - errorTurns'].guided
  <2>1. CASE ~t.failed
    BY <1>6, <1>11, <2>1
  <2>2. CASE t.failed
    <3>1. errorTurns' = errorTurns + 1
      BY <1>6, <2>2
    <3>2. CASE errorTurns' = 3
      <4>1. errorTurns = 2 /\ m = 2
        BY <1>5, <1>10, <3>1, <3>2
      <4> QED BY <1>10, <1>11, <2>2, <3>2, <4>1
    <3>3. CASE errorTurns' \in 1 .. 2
      BY <1>5, <1>8, <1>10, <1>11, <2>2, <3>1, <3>3
    <3> QED BY <1>5, <3>1, <3>2, <3>3
  <2> QED BY <2>1, <2>2
<1>13. \E k \in 0 .. 3 : Counted(k)'
  <2>1. PICK k \in 0 .. 3 : k = m + 1
    BY <1>9
  <2>2. 2 + k - errorTurns' = 2 + m + 1 - errorTurns'
    BY <1>12, <2>1
  <2>3. Len(recent') = k /\ errorTurns' \in 0 .. k
    BY <1>11, <1>12, <2>1
  <2>7. k - errorTurns' = m + 1 - errorTurns' /\ (errorTurns' < k <=> errorTurns' < m + 1)
    BY <2>1, <2>3
  <2>8. ASSUME NEW i \in 1 .. k, i > k - errorTurns' PROVE recent'[i].failed
    <3>1. i \in 1 .. m + 1 /\ i > m + 1 - errorTurns'
      BY <2>1, <2>3, <2>7, <2>8
    <3> QED BY Zenon, <1>12, <3>1
  <2>9. errorTurns' < k => ~recent'[k - errorTurns'].failed
    BY Zenon, <1>12, <2>7
  <2>4. /\ \A i \in 1 .. k : i > k - errorTurns' => recent'[i].failed
        /\ errorTurns' < k => ~recent'[k - errorTurns'].failed
    BY Zenon, <2>8, <2>9
  <2>5. errorTurns' >= 2 => recent'[2 + k - errorTurns'].guided
    BY <1>12, <2>2
  <2>6. Counted(k)'
    BY Zenon, <2>3, <2>4, <2>5 DEF Counted
  <2> QED BY Zenon, <2>6
<1> QED BY <1>1, <1>5, <1>7, <1>11, <1>13 DEF BreakInv, Open

LEMMA NextBreak == BreakInv /\ [Next]_vars => BreakInv'
<1> SUFFICES ASSUME BreakInv, [Next]_vars PROVE BreakInv'
  OBVIOUS
<1>1. CASE RecordBatch
  BY <1>1, RecordBatchBreak
<1>2. ASSUME \/ BeginTurn \/ TurnLimit \/ TextReply \/ StartCall
             \/ \E reply \in Replies : ToolReply(reply)
             \/ \E i \in active : \E result \in Outcomes(calls[i]) : FinishCall(i, result)
             \/ \E parsed \in BOOLEAN : Synthesized(parsed)
             \/ RequestFails \/ Commit \/ Abort \/ UNCHANGED vars
      PROVE  BreakInv'
  <2>1. UNCHANGED <<recent, errorTurns>> /\ (repeats' = repeats \/ repeats' \in BOOLEAN)
    BY <1>2 DEF BeginTurn, TurnLimit, TextReply, StartCall, ToolReply, FinishCall, Synthesized,
                RequestFails, Commit, Abort, vars, countVars, history, SamePlan
  <2>2. \/ Open /\ Open' /\ exit' = exit
        \/ Open /\ ~Open' /\ exit' # "errors"
        \/ ~Open /\ ~Open' /\ (phase' = "closing" => phase = "closing" /\ exit' = exit)
    BY <1>2 DEF BeginTurn, TurnLimit, TextReply, StartCall, ToolReply, FinishCall, Synthesized,
                RequestFails, Commit, Abort, vars, Leave, Open
  <2>3. \A n \in 0 .. 3 : Counted(n) => Counted(n)'
    BY <2>1 DEF Counted
  <2> QED BY <2>1, <2>2, <2>3 DEF BreakInv, Open
<1> QED BY <1>1, <1>2 DEF Next, Step

\* Whatever the replies and the tools do, the loop breaks after three failed tool
\* turns in a row, never earlier, and never without a warning after the second
\* (MAX_CONSECUTIVE_ERROR_TURNS and ERROR_RECOVERY_GUIDANCE_TURNS).
THEOREM BreakerOpensInTime == Spec => []BreakerIsTight
BY InitBreak, NextBreak, BreakerFollows, PTL DEF Spec
-----------------------------------------------------------------------------
(* The fingerprint of a turn.  Two replies have the same fingerprint when   *)
(* they make the same calls equally often, and this is what the history     *)
(* compares, with the length of the replies in place of the other half.     *)

At(s, c) == {i \in DOMAIN s : s[i] = c}
Count(s, c) == Cardinality(At(s, c))
Within(t, s) == {i \in DOMAIN t : t[i] \in ToSet(s)}

LEMMA PositionsAreFinite ==
  ASSUME NEW n \in Nat, NEW s, DOMAIN s = 1 .. n
  PROVE  /\ IsFiniteSet(DOMAIN s) /\ Cardinality(DOMAIN s) = n
         /\ \A P \in SUBSET DOMAIN s : IsFiniteSet(P)
<1>1. IsFiniteSet(1 .. n) /\ Cardinality(1 .. n) = n
  <2>1. n = IF 1 > n THEN 0 ELSE n - 1 + 1
    OBVIOUS
  <2> QED BY <2>1, FS_Interval
<1> QED BY <1>1, FS_Subset

\* Where two replies make each call of the first equally often, a bijection
\* for every call makes one for all of them.
LEMMA CallsCorrespond ==
  ASSUME NEW m \in Nat, NEW n \in Nat, NEW s, NEW t, DOMAIN s = 1 .. m, DOMAIN t = 1 .. n,
         \A c \in ToSet(s) : Count(s, c) = Count(t, c)
  PROVE  ExistsBijection(DOMAIN s, Within(t, s))
<1> DEFINE f == [c \in ToSet(s) |-> CHOOSE b : b \in Bijection(At(s, c), At(t, c))]
           g == [i \in DOMAIN s |-> f[s[i]][i]]
<1>1. \A c \in ToSet(s) : f[c] \in Bijection(At(s, c), At(t, c))
  <2>1. SUFFICES ASSUME NEW c \in ToSet(s)
                 PROVE  \E b : b \in Bijection(At(s, c), At(t, c))
    BY Zenon
  <2>2. IsFiniteSet(At(s, c)) /\ IsFiniteSet(At(t, c))
    BY PositionsAreFinite DEF At
  <2>3. ExistsBijection(At(s, c), At(t, c))
    BY <2>2, FS_SameCardinalityBij DEF Count
  <2> QED BY <2>3 DEF ExistsBijection
<1> HIDE DEF f
<1>2. \A i \in DOMAIN s : s[i] \in ToSet(s) /\ i \in At(s, s[i])
  BY DEF ToSet, At
<1>3. \A i \in DOMAIN s : g[i] \in DOMAIN t /\ t[g[i]] = s[i]
  BY <1>1, <1>2 DEF Bijection, Injection, At
<1>4. g \in [DOMAIN s -> Within(t, s)]
  BY <1>2, <1>3 DEF Within
<1>5. \A i, j \in DOMAIN s : g[i] = g[j] => i = j
  <2> SUFFICES ASSUME NEW i \in DOMAIN s, NEW j \in DOMAIN s, g[i] = g[j] PROVE i = j
    OBVIOUS
  <2>1. s[i] = s[j]
    BY <1>3
  <2>2. f[s[i]][i] = f[s[i]][j] /\ i \in At(s, s[i]) /\ j \in At(s, s[i])
    BY <1>2, <2>1
  <2> QED BY <1>1, <1>2, <2>2 DEF Bijection, Injection, IsInjective
<1>6. \A k \in Within(t, s) : \E i \in DOMAIN s : g[i] = k
  <2> SUFFICES ASSUME NEW k \in Within(t, s) PROVE \E i \in DOMAIN s : g[i] = k
    OBVIOUS
  <2>1. t[k] \in ToSet(s) /\ k \in At(t, t[k])
    BY DEF Within, At
  <2>2. PICK i \in At(s, t[k]) : f[t[k]][i] = k
    BY <1>1, <2>1 DEF Bijection, Surjection
  <2>3. i \in DOMAIN s /\ s[i] = t[k]
    BY <2>2 DEF At
  <2> QED BY <2>2, <2>3
<1> HIDE DEF g
<1>7. g \in Bijection(DOMAIN s, Within(t, s))
  BY <1>4, <1>5, <1>6 DEF Bijection, Injection, Surjection, IsInjective
<1> QED BY <1>7 DEF ExistsBijection

\* fingerprintToolCalls tells two replies apart exactly when they are not the
\* same calls in some order.
LEMMA FingerprintsTell ==
  ASSUME NEW m \in Nat, NEW n \in Nat, NEW s, NEW t,
         DOMAIN s = 1 .. m, DOMAIN t = 1 .. n, Len(s) = m, Len(t) = n
  PROVE  Fingerprint(s) = Fingerprint(t) <=> SamePlan(s, t)
<1>1. Fingerprint(s) = [c \in ToSet(s) |-> Count(s, c)] /\ Fingerprint(t) = [c \in ToSet(t) |-> Count(t, c)]
  BY DEF Fingerprint, Count, At
<1>2. SamePlan(s, t) <=> m = n /\ \A c \in ToSet(s) : Count(s, c) = Count(t, c)
  BY DEF SamePlan, Count, At, ToSet
<1>3. IsFiniteSet(DOMAIN s) /\ Cardinality(DOMAIN s) = m /\ IsFiniteSet(DOMAIN t) /\ Cardinality(DOMAIN t) = n
  BY PositionsAreFinite
<1>4. ASSUME \A c \in ToSet(s) : Count(s, c) = Count(t, c)
      PROVE  Cardinality(Within(t, s)) = m
  BY <1>3, <1>4, CallsCorrespond, FS_Bijection
<1>5. ASSUME Fingerprint(s) = Fingerprint(t) PROVE m = n /\ \A c \in ToSet(s) : Count(s, c) = Count(t, c)
  <2>1. ToSet(s) = ToSet(t) /\ \A c \in ToSet(s) : Count(s, c) = Count(t, c)
    BY <1>1, <1>5
  <2>2. Within(t, s) = DOMAIN t
    BY <2>1 DEF Within, ToSet
  <2> QED BY <1>3, <1>4, <2>1, <2>2
<1>6. ASSUME m = n, \A c \in ToSet(s) : Count(s, c) = Count(t, c) PROVE Fingerprint(s) = Fingerprint(t)
  <2>1. Within(t, s) = DOMAIN t
    BY <1>3, <1>4, <1>6, FS_Subset DEF Within
  <2>2. ToSet(t) \subseteq ToSet(s)
    BY <2>1 DEF Within, ToSet
  <2>3. ToSet(s) \subseteq ToSet(t)
    <3> SUFFICES ASSUME NEW c \in ToSet(s), At(t, c) = {} PROVE FALSE
      BY DEF At, ToSet
    <3>1. Cardinality(At(s, c)) = 0
      BY <1>6, FS_EmptySet DEF Count
    <3>2. IsFiniteSet(At(s, c)) /\ At(s, c) # {}
      BY PositionsAreFinite DEF At, ToSet
    <3> QED BY <3>1, <3>2, FS_EmptySet
  <2> QED BY <1>1, <1>6, <2>2, <2>3
<1> QED BY <1>2, <1>5, <1>6
-----------------------------------------------------------------------------
(* Repeated plans.  A warning resets the counter of repetitions, so between *)
(* two turns it is 0 or 1 and says whether the last one repeated a plan     *)
(* without being warned.                                                    *)

LastTurn == recent[Len(recent)]
Rested(R) ==
  /\ R = 1 => Len(recent) >= 2 /\ LastTurn.repeats /\ ~LastTurn.guided
  /\ R = 0 => recent = <<>> \/ LastTurn.guided \/ ~LastTurn.repeats

StagInv ==
  /\ \E n \in Nat : DOMAIN lastCalls = 1 .. n /\ Len(lastCalls) = n
  /\ phase = "batch" =>
       \E R \in {0, 1} : Rested(R) /\ repeatedTurns = IF repeats THEN R + 1 ELSE 0
  /\ Open /\ phase # "batch" => repeatedTurns \in {0, 1} /\ Rested(repeatedTurns)
  /\ recent = <<>> => /\ phase = "batch" => ~repeats
                      /\ Open /\ phase # "batch" => lastCalls = <<>>
  /\ StagnationIsAnswered

LEMMA InitStag == Init => StagInv
<1> SUFFICES ASSUME Init PROVE StagInv
  OBVIOUS
<1>1. /\ recent = <<>> /\ lastCalls = <<>> /\ repeatedTurns = 0 /\ phase = "head"
      /\ DOMAIN lastCalls = 1 .. 0 /\ Len(lastCalls) = 0
  BY DEF Init
<1> QED BY <1>1 DEF StagInv, Rested, StagnationIsAnswered

\* The counter counts, because the fingerprint tells another plan.
LEMMA ToolReplyStag ==
  ASSUME StagInv, BreakInv, NEW reply \in Replies, ToolReply(reply)
  PROVE  StagInv'
<1>1. /\ phase = "asked" /\ phase' = "batch" /\ lastCalls' = reply /\ reply # <<>>
      /\ repeatedTurns' = IF Fingerprint(reply) = Fingerprint(lastCalls) THEN repeatedTurns + 1 ELSE 0
      /\ repeats' = SamePlan(reply, lastCalls) /\ recent' = recent
  BY DEF ToolReply
<1>2. PICK m \in Nat : DOMAIN reply = 1 .. m /\ Len(reply) = m
  BY TurnLoopAssumption DEF Replies
<1>3. PICK n \in Nat : DOMAIN lastCalls = 1 .. n /\ Len(lastCalls) = n
  BY DEF StagInv
<1>4. Fingerprint(reply) = Fingerprint(lastCalls) <=> repeats'
  BY <1>1, <1>2, <1>3, FingerprintsTell
<1>5. repeatedTurns \in {0, 1} /\ Rested(repeatedTurns)
  BY <1>1 DEF StagInv, Open
<1>6. \E R \in {0, 1} : Rested(R)' /\ repeatedTurns' = IF repeats' THEN R + 1 ELSE 0
  BY <1>1, <1>4, <1>5 DEF Rested, LastTurn
<1>7. recent' = <<>> => ~repeats'
  <2> SUFFICES ASSUME recent = <<>> PROVE ~SamePlan(reply, lastCalls)
    BY <1>1
  <2>1. Len(lastCalls) = 0
    BY <1>1 DEF StagInv, Open
  <2>2. m # 0
    BY <1>1, <1>2
  <2> QED BY <1>2, <2>1, <2>2 DEF SamePlan
<1>8. StagnationIsAnswered'
  BY <1>1 DEF StagInv, StagnationIsAnswered
<1>9. \E k \in Nat : DOMAIN lastCalls' = 1 .. k /\ Len(lastCalls') = k
  BY <1>1, <1>2
<1> QED BY <1>1, <1>6, <1>7, <1>8, <1>9 DEF StagInv

\* A turn that ends is warned of its third repetition, and of nothing else but
\* its second failure.
LEMMA RecordBatchStag ==
  ASSUME StagInv, BreakInv, RecordBatch
  PROVE  StagInv'
<1>1. /\ recent' = LastThree(Append(recent, Turn)) /\ errorTurns' = NextErrorTurns
      /\ repeatedTurns' = IF Turn.guided THEN 0 ELSE repeatedTurns
      /\ lastCalls' = lastCalls /\ phase = "batch"
      /\ Turn.repeats = repeats
      /\ Turn.guided <=> ~Breaks /\ Guides
      /\ Breaks => phase' = "closing"
      /\ ~Breaks => phase' = "head"
      /\ Turn \in TurnRecords
  BY DEF RecordBatch, BatchDone, Leave, Turn, TurnRecords, BreakInv, AllErrors, Guides, Breaks
<1>2. PICK R \in {0, 1} : Rested(R) /\ repeatedTurns = IF repeats THEN R + 1 ELSE 0
  BY <1>1 DEF StagInv
<1>3. PICK t \in TurnRecords : t = Turn
  BY <1>1
<1>4. PICK n \in 0 .. 3 : Counted(n)
  BY DEF BreakInv
<1>5. PICK r \in Seq(TurnRecords), m \in 0 .. 2 :
        /\ Len(r) = m /\ recent' = Append(r, t)
        /\ n < 3 => m = n /\ r = recent
        /\ n = 3 => m = 2 /\ r[1] = recent[2] /\ r[2] = recent[3]
  <2>1. recent \in Seq(TurnRecords) /\ Len(recent) = n
    BY <1>4 DEF BreakInv, Counted
  <2>2. \E r \in Seq(TurnRecords), m \in 0 .. 2 :
          /\ Len(r) = m /\ LastThree(Append(recent, t)) = Append(r, t)
          /\ n < 3 => m = n /\ r = recent
          /\ n = 3 => m = 2 /\ r[1] = recent[2] /\ r[2] = recent[3]
    BY Zenon, <1>3, <1>4, <2>1, LastThreeOf
  <2> QED BY Zenon, <1>1, <1>3, <2>2
<1>6. /\ recent' \in Seq(TurnRecords) /\ Len(recent') = m + 1 /\ recent' # <<>>
      /\ \A i \in 1 .. m : recent'[i] = r[i]
      /\ recent'[m + 1] = t /\ LastTurn' = t
  BY <1>5, AppendProperties DEF LastTurn
<1>7. /\ Len(recent) = n /\ (recent = <<>> <=> n = 0)
      /\ n >= 1 => m >= 1 /\ r[m] = LastTurn
      /\ n >= 2 => m = 2
  <2>1. Len(recent) = n /\ recent \in Seq(TurnRecords)
    BY <1>4 DEF BreakInv, Counted
  <2> QED BY <1>5, <2>1 DEF LastTurn
<1>8. recent = <<>> => ~repeats
  BY <1>1 DEF StagInv
<1>9. ~Breaks => repeatedTurns' \in {0, 1} /\ Rested(repeatedTurns)'
  <2> SUFFICES ASSUME ~Breaks PROVE repeatedTurns' \in {0, 1} /\ Rested(repeatedTurns)'
    OBVIOUS
  <2>1. CASE t.guided
    BY <1>1, <1>3, <1>6, <2>1 DEF Rested
  <2>2. CASE ~t.guided /\ repeats
    <3>1. repeatedTurns' = repeatedTurns /\ repeatedTurns = R + 1
      BY <1>1, <1>2, <1>3, <2>2
    <3>2. repeatedTurns' = 1
      BY <1>1, <1>2, <1>3, <2>2, <3>1 DEF Guides
    <3>3. Len(recent') >= 2
      BY <1>6, <1>7, <1>8, <2>2
    <3>4. LastTurn'.repeats /\ ~LastTurn'.guided
      BY Zenon, <1>1, <1>3, <1>6, <2>2
    <3> QED BY <3>2, <3>3, <3>4 DEF Rested
  <2>3. CASE ~t.guided /\ ~repeats
    BY <1>1, <1>2, <1>3, <1>6, <2>3 DEF Rested
  <2> QED BY <2>1, <2>2, <2>3
<1>10. ASSUME Len(recent') = 3, recent'[2].repeats, recent'[3].repeats, ~recent'[2].guided
       PROVE  recent'[3].guided \/ phase' = "closing"
  <2>1. m = 2 /\ n >= 2 /\ recent'[3] = t /\ recent'[2] = LastTurn
    BY <1>5, <1>6, <1>7, <1>10
  <2>2. R = 1
    BY <1>2, <1>7, <1>10, <2>1 DEF Rested
  <2>3. repeatedTurns = 2
    BY <1>1, <1>2, <1>3, <1>10, <2>1, <2>2
  <2>4. Guides
    BY <2>3 DEF Guides
  <2> QED BY <1>1, <1>3, <2>1, <2>4
<1>11. ASSUME t.guided
       PROVE  \/ Len(recent') = 3 /\ recent'[2].repeats /\ recent'[3].repeats
              \/ m >= 1 /\ recent'[m + 1].failed /\ recent'[m].failed
  <2>1. Guides
    BY <1>1, <1>3, <1>11
  <2>2. CASE repeatedTurns >= 2
    <3>1. repeats /\ R = 1
      BY <1>2, <2>2
    <3>2. m = 2 /\ LastTurn.repeats /\ n >= 1
      BY <1>2, <1>7, <3>1 DEF Rested
    <3>3. Len(recent') = 3 /\ recent'[3] = t /\ recent'[2] = LastTurn
      BY <1>6, <1>7, <3>2
    <3>4. t.repeats
      BY Zenon, <1>1, <1>3, <3>1
    <3> QED BY Zenon, <3>2, <3>3, <3>4
  <2>3. CASE NextErrorTurns >= ErrorRecoveryGuidanceTurns
    <3>1. BreakInv'
      BY RecordBatchBreak
    <3>2. PICK k \in 0 .. 3 : Counted(k)'
      BY <3>1 DEF BreakInv
    <3>3. k = m + 1 /\ errorTurns' \in 2 .. k
      BY <1>1, <1>6, <2>3, <3>2 DEF Counted, ErrorRecoveryGuidanceTurns
    <3>6. /\ k \in 1 .. k /\ k > k - errorTurns'
          /\ k - 1 \in 1 .. k /\ k - 1 > k - errorTurns'
      <4>1. PICK e \in 2 .. k : e = errorTurns'
        BY <3>3
      <4>2. e \in Int /\ 2 <= e /\ e <= k /\ k \in Int
        BY <4>1
      <4>3. k \in 1 .. k /\ k > k - e /\ k - 1 \in 1 .. k
        BY <4>2
      <4>4. k - 1 > k - e
        BY <4>2
      <4> QED BY Zenon, <4>1, <4>3, <4>4
    <3>4. recent'[k].failed /\ recent'[k - 1].failed
      <4>1. \A i \in 1 .. k : i > k - errorTurns' => recent'[i].failed
        BY Zenon, <3>2 DEF Counted
      <4>2. recent'[k].failed
        BY Zenon, <3>6, <4>1
      <4>3. PICK j \in 1 .. k : j = k - 1 /\ j > k - errorTurns'
        BY <3>6
      <4> QED BY Zenon, <4>1, <4>2, <4>3
    <3>5. m >= 1 /\ k - 1 = m
      BY <3>3
    <3> QED BY <3>3, <3>4, <3>5
  <2> QED BY <2>1, <2>2, <2>3 DEF Guides
<1>12. StagnationIsAnswered'
  <2>1. recent'[Len(recent')] = t /\ (m >= 1 => Len(recent') >= 2) /\ Len(recent') - 1 = m
    BY <1>6
  <2> QED BY <1>6, <1>10, <1>11, <2>1 DEF StagnationIsAnswered
<1>13. \E k \in Nat : DOMAIN lastCalls' = 1 .. k /\ Len(lastCalls') = k
  BY <1>1 DEF StagInv
<1>14. phase' # "batch" /\ (Open' => ~Breaks)
  BY <1>1 DEF Open
<1> QED BY <1>6, <1>9, <1>12, <1>13, <1>14 DEF StagInv

LEMMA NextStag == StagInv /\ BreakInv /\ [Next]_vars => StagInv'
<1> SUFFICES ASSUME StagInv, BreakInv, [Next]_vars PROVE StagInv'
  OBVIOUS
<1>1. CASE RecordBatch
  BY <1>1, RecordBatchStag
<1>2. CASE \E reply \in Replies : ToolReply(reply)
  BY <1>2, ToolReplyStag
<1>3. ASSUME \/ BeginTurn \/ TurnLimit \/ TextReply \/ StartCall
             \/ \E i \in active : \E result \in Outcomes(calls[i]) : FinishCall(i, result)
             \/ \E parsed \in BOOLEAN : Synthesized(parsed)
             \/ RequestFails \/ Commit \/ Abort \/ UNCHANGED vars
      PROVE  StagInv'
  <2>1. UNCHANGED <<recent, lastCalls, repeatedTurns, repeats>>
    BY <1>3 DEF BeginTurn, TurnLimit, TextReply, StartCall, FinishCall, Synthesized,
                RequestFails, Commit, Abort, vars, countVars, history
  <2>2. /\ phase' = "batch" => phase = "batch"
        /\ Open' /\ phase' # "batch" => Open /\ phase # "batch"
        /\ phase \in {"closing", "ended"} => phase' \in {"closing", "ended"}
    BY <1>3 DEF BeginTurn, TurnLimit, TextReply, StartCall, FinishCall, Synthesized,
                RequestFails, Commit, Abort, vars, Leave, Open
  <2>3. StagnationIsAnswered'
    BY <2>1, <2>2 DEF StagInv, StagnationIsAnswered
  <2>4. \A R \in {0, 1} : Rested(R)' = Rested(R)
    BY <2>1 DEF Rested, LastTurn
  <2> QED BY <2>1, <2>2, <2>3, <2>4 DEF StagInv
<1> QED BY <1>1, <1>2, <1>3 DEF Next, Step

\* A plan the model repeats three times brings a warning, in whatever order its
\* calls come, and a warning has this reason or two failed turns (fingerprintToolCalls
\* and repeatedTurns).
THEOREM RepetitionIsAnswered == Spec => []StagnationIsAnswered
<1>1. Init => StagInv /\ BreakInv
  BY InitStag, InitBreak
<1>2. StagInv /\ BreakInv /\ [Next]_vars => StagInv' /\ BreakInv'
  BY NextStag, NextBreak
<1>3. StagInv => StagnationIsAnswered
  BY DEF StagInv
<1> QED BY <1>1, <1>2, <1>3, PTL DEF Spec
-----------------------------------------------------------------------------
(* The budgets.  What a policy offers was still to be had when its turn     *)
(* began, and a turn takes no more of it than one call, or one per file.    *)

Lookups == {"grep", "symbol", "show"}
Refused == Result(TRUE, {}, FALSE)

\* Only calls on offered tools do anything, and a turn that may search has one.
CallsInv ==
  /\ \E n \in Nat : DOMAIN calls = 1 .. n /\ Len(calls) = n
  /\ \A i \in DOMAIN calls : calls[i].tool \in Tools
  /\ \A i \in active : calls[i].tool \in policy.tools
  /\ \A i \in DOMAIN calls \ (queued \cup active) :
       results[i] = Refused \/ (calls[i].tool \in policy.tools /\ results[i] \in Outcomes(calls[i]))
  /\ ~policy.parallelToolCalls => \A i, j \in DOMAIN calls : i = j

ObservationsInv ==
  /\ mode \in Modes /\ observations \in Seq(ToSet(observations))
  /\ \A i \in Of("commit", observations) : observations[i].paths \subseteq Paths

\* The greps of a claim check before its first read of an implementation file,
\* and after it.
Ahead(seq) == {i \in Greps(seq) : \A j \in Direct(seq) : i < j}
Counter(seq) == {i \in Greps(seq) : \E j \in Direct(seq) : j < i}
In(at, seq) == {i \in at : seq[i].full}

\* What a turn may offer: searches one at a time, and nothing the budgets no
\* longer hold.
Fits(offer) ==
  /\ offer.tools \cap Lookups # {} => ~offer.parallelToolCalls
  /\ "symbol" \in offer.tools => mode = "trace" /\ Executed("symbol") = 0
  /\ "show" \in offer.tools => Executed("commit") = 0
  /\ "grep" \in offer.tools =>
       /\ mode \in {"locate", "trace"} => Executed("grep") = 0
       /\ mode \in {"impact", "structured", "path", "anchored"} => Executed("grep") <= 1
       /\ mode = "claim" =>
            /\ Direct(observations) = {} => Cardinality(Ahead(observations)) <= 1
            /\ Direct(observations) # {} => Cardinality(Counter(observations)) <= 1
  /\ "read" \in offer.tools =>
       /\ offer.bounded \/ ~offer.parallelToolCalls
       /\ \A p \in Impl : (offer.bounded => p \in offer.allowedReadPaths)
                            => FullReads(p, observations) < Windows(p)
       /\ mode \in {"commit", "metadata"} =>
            /\ offer.bounded /\ Sources(observations) = {}
            /\ \E p, q \in Paths : offer.allowedReadPaths \subseteq {p, q}
  /\ mode = "claim" => ~offer.parallelToolCalls

OfferInv == phase \in {"asked", "batch"} /\ mode # "free" => Fits(policy)

SpentInv ==
  mode # "free" =>
    /\ \A p \in Impl : FullReads(p, observations) <= Windows(p)
    /\ mode \in {"locate", "trace"} => Executed("grep") <= 1 /\ Executed("symbol") <= 1
    /\ mode \in {"impact", "structured", "path", "anchored"} => Executed("grep") <= 2
    /\ mode \in {"commit", "metadata"} =>
         Executed("commit") <= 1 /\ Cardinality(Sources(observations)) <= 2
    /\ mode = "claim" => /\ Cardinality(In(Ahead(observations), observations)) <= 2
                         /\ Cardinality(In(Counter(observations), observations)) <= 2

\* Turns that read are counted before they read.
ReadLimit == IF mode \in {"locate", "trace"} THEN MaxReadRounds ELSE MaxPathReadRounds
RoundsInv ==
  /\ readTurns \in Nat /\ readRounds \in Nat
  /\ mode \in {"locate", "trace", "path", "anchored"} =>
       /\ readTurns <= readRounds /\ readTurns <= ReadLimit
       /\ phase = "asked" /\ "read" \in policy.tools => readRounds < ReadLimit
       /\ phase = "batch" /\ (\E i \in DOMAIN calls : calls[i].tool = "read") =>
            readTurns < readRounds /\ ("read" \in policy.tools => readRounds <= ReadLimit)

BudgetInv == CallsInv /\ ObservationsInv /\ OfferInv /\ SpentInv /\ RoundsInv

-----------------------------------------------------------------------------
(* What a batch leaves.  A least counterexample stands in for induction     *)
(* over the calls.                                                          *)
LEMMA LeastNatural ==
  ASSUME NEW T \in SUBSET Nat, T # {}
  PROVE  \E m \in T : \A k \in T : m <= k
<1> DEFINE Up == {0 .. n : n \in T}
<1>1. Up \subseteq FiniteSubsetsOf(Nat)
  <2>1. \A n \in T : IsFiniteSet(0 .. n) /\ 0 .. n \in SUBSET Nat
    BY FS_Interval
  <2> QED BY <2>1 DEF FiniteSubsetsOf
<1>2. Up # {}
  OBVIOUS
<1>3. IsWellFoundedOn(StrictSubsetOrdering(Nat), FiniteSubsetsOf(Nat))
  BY FS_StrictSubsetOrderingWellFounded
<1> HIDE DEF Up
<1>4. PICK x \in Up : \A y \in Up : ~ (<<y, x>> \in StrictSubsetOrdering(Nat))
  BY <1>1, <1>2, <1>3, WFMin
<1>5. PICK m \in T : x = 0 .. m
  BY DEF Up
<1>6. ASSUME NEW k \in T, ~(m <= k) PROVE FALSE
  <2>1. 0 .. k \in Up
    BY DEF Up
  <2>2. 0 .. k \subseteq 0 .. m /\ 0 .. k # 0 .. m
    BY <1>6
  <2>3. <<0 .. k, x>> \in StrictSubsetOrdering(Nat)
    BY <1>5, <2>2 DEF StrictSubsetOrdering
  <2> QED BY <2>1, <2>3, <1>4
<1> QED BY <1>6

\* An observation of a call.
Leaves(c, r, o) ==
  \/ c.tool = "grep" /\ o = Observation("grep", r.paths, r.full)
  \/ c.tool = "read" /\ ~r.error /\ o = Observation("source", r.paths, r.full)
  \/ c.tool = "symbol" /\ ~r.error /\ o = Observation("source", r.paths, FALSE)
  \/ c.tool = "symbol" /\ o = Observation("symbol", r.paths, r.full)
  \/ c.tool \notin {"grep", "read", "symbol"} /\ ~r.error /\ o = Observation("commit", r.paths, TRUE)

\* new is seq with observations of the first n calls behind it, each call's of
\* different kinds; from[k] is the call that left the k-th.
Added(seq, new) == DOMAIN new \ DOMAIN seq
Follows(seq, new, from, n) ==
  /\ new \in Seq(ToSet(new))
  /\ DOMAIN seq \subseteq DOMAIN new /\ \A k \in DOMAIN seq : new[k] = seq[k]
  /\ \A k \in Added(seq, new) :
       from[k] \in 1 .. n /\ Leaves(calls[from[k]], results[from[k]], new[k])
  /\ \A k, l \in Added(seq, new) : from[k] = from[l] /\ new[k].kind = new[l].kind => k = l

LEMMA OneOfAKind ==
  ASSUME NEW c, NEW r
  PROVE  \E m \in 0 .. 2 :
           /\ ObservationsOf(c, r) \in Seq(ToSet(ObservationsOf(c, r)))
           /\ Len(ObservationsOf(c, r)) = m
           /\ \A i \in 1 .. m : Leaves(c, r, ObservationsOf(c, r)[i])
           /\ \A i, j \in 1 .. m : ObservationsOf(c, r)[i].kind = ObservationsOf(c, r)[j].kind => i = j
<1> DEFINE P(o, m) == /\ o \in Seq(ToSet(o)) /\ Len(o) = m
                      /\ \A i \in 1 .. m : Leaves(c, r, o[i])
                      /\ \A i, j \in 1 .. m : o[i].kind = o[j].kind => i = j
<1>1. P(<< >>, 0)
  BY DEF ToSet
<1>2. ASSUME NEW o, Leaves(c, r, o) PROVE P(<<o>>, 1)
  BY <1>2 DEF ToSet
<1>3. ASSUME NEW o, NEW p, Leaves(c, r, o), Leaves(c, r, p), o.kind # p.kind
      PROVE  P(<<o>> \o <<p>>, 2)
  <2> DEFINE q == <<o>> \o <<p>>
  <2>1. <<o>> \in Seq({o, p}) /\ <<p>> \in Seq({o, p}) /\ Len(<<o>>) = 1 /\ Len(<<p>>) = 1
    OBVIOUS
  <2>2. q \in Seq({o, p}) /\ Len(q) = 2 /\ q[1] = o /\ q[2] = p
    BY <2>1, ConcatProperties
  <2> HIDE DEF q
  <2>3. q \in Seq(ToSet(q))
    <3>1. DOMAIN q = 1 .. 2
      BY <2>2
    <3>2. \A i \in 1 .. 2 : q[i] \in ToSet(q)
      BY <3>1 DEF ToSet
    <3> QED BY <2>2, <3>1, <3>2
  <2>4. P(q, 2)
    BY <1>3, <2>2, <2>3
  <2> QED BY <2>4 DEF q
<1>4. CASE c.tool = "grep"
  <2>1. ObservationsOf(c, r) = <<Observation("grep", r.paths, r.full)>>
    BY <1>4 DEF ObservationsOf
  <2>2. Leaves(c, r, Observation("grep", r.paths, r.full))
    BY <1>4 DEF Leaves
  <2> HIDE DEF P
  <2>3. P(ObservationsOf(c, r), 1)
    BY <1>2, <2>1, <2>2
  <2> QED BY <2>3 DEF P
<1>5. CASE c.tool = "read"
  <2>1. \/ ObservationsOf(c, r) = << >>
        \/ ~r.error /\ ObservationsOf(c, r) = <<Observation("source", r.paths, r.full)>>
    BY <1>5 DEF ObservationsOf
  <2>2. ~r.error => Leaves(c, r, Observation("source", r.paths, r.full))
    BY <1>5 DEF Leaves
  <2> HIDE DEF P
  <2>3. P(ObservationsOf(c, r), 0) \/ P(ObservationsOf(c, r), 1)
    BY <1>1, <1>2, <2>1, <2>2
  <2> QED BY <2>3 DEF P
<1>6. CASE c.tool = "symbol"
  <2> DEFINE o == Observation("source", r.paths, FALSE)
             p == Observation("symbol", r.paths, r.full)
  <2>1. ObservationsOf(c, r) = (IF r.error \/ r.paths = {} THEN << >> ELSE <<o>>) \o <<p>>
    BY <1>6 DEF ObservationsOf
  <2>2. Leaves(c, r, p) /\ (~r.error => Leaves(c, r, o)) /\ o.kind # p.kind
    BY <1>6 DEF Leaves, Observation
  <2> HIDE DEF P, o, p
  <2>3. << >> \o <<p>> = <<p>>
    OBVIOUS
  <2>4. ObservationsOf(c, r) = <<p>> \/ (~r.error /\ ObservationsOf(c, r) = <<o>> \o <<p>>)
    BY <2>1, <2>3
  <2>5. P(ObservationsOf(c, r), 1) \/ P(ObservationsOf(c, r), 2)
    BY <1>2, <1>3, <2>2, <2>4
  <2> QED BY <2>5 DEF P
<1>7. CASE c.tool \notin {"grep", "read", "symbol"}
  <2>1. \/ ObservationsOf(c, r) = << >>
        \/ ~r.error /\ ObservationsOf(c, r) = <<Observation("commit", r.paths, TRUE)>>
    BY <1>7 DEF ObservationsOf
  <2>2. ~r.error => Leaves(c, r, Observation("commit", r.paths, TRUE))
    BY <1>7 DEF Leaves
  <2> HIDE DEF P
  <2>3. P(ObservationsOf(c, r), 0) \/ P(ObservationsOf(c, r), 1)
    BY <1>1, <1>2, <2>1, <2>2
  <2> QED BY <2>3 DEF P
<1> QED BY <1>4, <1>5, <1>6, <1>7

LEMMA RecordedByPrefix ==
  ASSUME NEW seq, NEW N \in Nat, Len(calls) = N
  PROVE  \E t : /\ t = [n \in 0 .. N |->
                         IF n = 0 THEN seq ELSE t[n - 1] \o ObservationsOf(calls[n], results[n])]
                /\ Recorded(seq) = t[N]
<1> DEFINE Body(t, M) == [n \in 0 .. M |->
                            IF n = 0 THEN seq ELSE t[n - 1] \o ObservationsOf(calls[n], results[n])]
           Good(M) == \E t : t = Body(t, M)
           Bad == {M \in 0 .. N : ~Good(M)}
<1>0. Good(0)
  <2> DEFINE z == [n \in 0 .. 0 |-> seq]
  <2>1. z = Body(z, 0)
    OBVIOUS
  <2> QED BY <2>1
<1>1. ASSUME NEW m \in 0 .. N, m # 0, Good(m - 1) PROVE Good(m)
  <2>1. PICK t : t = Body(t, m - 1)
    BY <1>1
  <2> DEFINE u == [n \in 0 .. m |-> IF n = m THEN t[m - 1] \o ObservationsOf(calls[m], results[m])
                                    ELSE t[n]]
             v == Body(u, m)
  <2>2. ASSUME NEW n \in 0 .. m PROVE u[n] = v[n]
    <3>1. CASE n = m
      <4>1. m - 1 \in 0 .. m /\ m - 1 # m
        BY <1>1
      <4>2. u[m - 1] = t[m - 1]
        BY <4>1
      <4>3. v[n] = u[m - 1] \o ObservationsOf(calls[m], results[m])
        BY <1>1, <3>1
      <4> QED BY <3>1, <4>2, <4>3
    <3>2. CASE n # m
      <4>1. n \in 0 .. (m - 1) /\ (n # 0 => n - 1 \in 0 .. m /\ n - 1 # m)
        BY <3>2
      <4>2. t[n] = IF n = 0 THEN seq ELSE t[n - 1] \o ObservationsOf(calls[n], results[n])
        BY <4>1, <2>1
      <4>3. n # 0 => u[n - 1] = t[n - 1]
        BY <4>1
      <4>4. u[n] = t[n]
        BY <3>2
      <4>5. v[n] = IF n = 0 THEN seq ELSE u[n - 1] \o ObservationsOf(calls[n], results[n])
        OBVIOUS
      <4> QED BY <4>2, <4>3, <4>4, <4>5
    <3> QED BY <3>1, <3>2
  <2>3. u = v
    <3>1. u = [n \in 0 .. m |-> u[n]] /\ v = [n \in 0 .. m |-> v[n]]
      OBVIOUS
    <3> HIDE DEF u, v
    <3> QED BY <2>2, <3>1
  <2> QED BY <2>3
<1> HIDE DEF Good
<1>2. Good(N)
  <2> SUFFICES ASSUME ~Good(N) PROVE FALSE
    OBVIOUS
  <2>1. Bad \in SUBSET Nat /\ N \in Bad
    OBVIOUS
  <2>2. PICK m \in Bad : \A k \in Bad : m <= k
    <3> HIDE DEF Bad
    <3> QED BY <2>1, LeastNatural
  <2>3. m # 0 /\ m - 1 \in 0 .. N /\ m - 1 \notin Bad
    BY <1>0, <2>2
  <2> QED BY <1>1, <2>2, <2>3
<1>3. Recorded(seq) = (CHOOSE t : t = Body(t, N))[N]
  BY DEF Recorded
<1> QED BY <1>2, <1>3 DEF Good

\* One more call.
LEMMA FollowsOnce ==
  ASSUME NEW seq, seq \in Seq(ToSet(seq)), NEW mid, NEW from, NEW n \in Nat, Follows(seq, mid, from, n)
  PROVE  \E after : Follows(seq, mid \o ObservationsOf(calls[n + 1], results[n + 1]), after, n + 1)
<1> DEFINE o == ObservationsOf(calls[n + 1], results[n + 1])
           new == mid \o o
<1>1. PICK m \in 0 .. 2 :
        /\ o \in Seq(ToSet(o)) /\ Len(o) = m
        /\ \A i \in 1 .. m : Leaves(calls[n + 1], results[n + 1], o[i])
        /\ \A i, j \in 1 .. m : o[i].kind = o[j].kind => i = j
  BY OneOfAKind
<1>2. PICK L \in Nat : Len(mid) = L /\ DOMAIN mid = 1 .. L /\ mid \in Seq(ToSet(mid))
  BY DEF Follows
<1> HIDE DEF o
<1>3. /\ new \in Seq(ToSet(mid) \union ToSet(o)) /\ DOMAIN new = 1 .. L + m
      /\ \A k \in 1 .. L : new[k] = mid[k]
      /\ \A k \in L + 1 .. L + m : new[k] = o[k - L] /\ k - L \in 1 .. m
  <2>1. mid \in Seq(ToSet(mid) \union ToSet(o)) /\ o \in Seq(ToSet(mid) \union ToSet(o))
    BY <1>1, <1>2, SeqMonotonic
  <2> QED BY <1>1, <1>2, <2>1, ConcatProperties
<1>4. new \in Seq(ToSet(new))
  <2>1. \A k \in 1 .. L + m : new[k] \in ToSet(new)
    BY <1>3 DEF ToSet
  <2>2. Len(new) = L + m /\ L + m \in Nat
    BY <1>3
  <2> HIDE DEF new
  <2> QED BY <1>3, <2>1, <2>2
<1> DEFINE after == [k \in 1 .. L + m |-> IF k <= L THEN from[k] ELSE n + 1]
<1>5. PICK l \in Nat : DOMAIN seq = 1 .. l
  OBVIOUS
<1>6. DOMAIN seq \subseteq 1 .. L
  BY <1>2 DEF Follows
<1> HIDE DEF new
<1>7. \A k \in Added(seq, new) :
        \/ k \in Added(seq, mid) /\ k <= L /\ k \in 1 .. L + m /\ new[k] = mid[k]
        \/ k \in L + 1 .. L + m /\ ~(k <= L) /\ k \in 1 .. L + m
  BY <1>2, <1>3 DEF Added
<1>8. \A k \in Added(seq, new) :
        /\ after[k] \in 1 .. n + 1
        /\ Leaves(calls[after[k]], results[after[k]], new[k])
  <2> SUFFICES ASSUME NEW k \in Added(seq, new)
               PROVE  after[k] \in 1 .. n + 1 /\ Leaves(calls[after[k]], results[after[k]], new[k])
    OBVIOUS
  <2>1. CASE k \in Added(seq, mid) /\ k <= L /\ k \in 1 .. L + m /\ new[k] = mid[k]
    <3>1. after[k] = from[k] /\ from[k] \in 1 .. n
      BY <2>1 DEF Follows
    <3> QED BY <2>1, <3>1 DEF Follows
  <2>2. CASE k \in L + 1 .. L + m /\ ~(k <= L) /\ k \in 1 .. L + m
    <3>1. after[k] = n + 1
      BY <2>2
    <3> QED BY <1>1, <1>3, <2>2, <3>1
  <2> QED BY <1>7, <2>1, <2>2
<1>9. \A k, j \in Added(seq, new) : after[k] = after[j] /\ new[k].kind = new[j].kind => k = j
  <2> SUFFICES ASSUME NEW k \in Added(seq, new), NEW j \in Added(seq, new),
                      after[k] = after[j], new[k].kind = new[j].kind
               PROVE  k = j
    OBVIOUS
  <2>1. \A i \in Added(seq, mid) : from[i] \in 1 .. n
    BY DEF Follows
  <2>2. CASE k <= L /\ j <= L
    <3>1. from[k] = from[j] /\ k \in Added(seq, mid) /\ j \in Added(seq, mid) /\ mid[k].kind = mid[j].kind
      BY <1>7, <2>2
    <3> QED BY <3>1 DEF Follows
  <2>3. CASE ~(k <= L) /\ ~(j <= L)
    <3>1. k - L \in 1 .. m /\ j - L \in 1 .. m /\ o[k - L].kind = o[j - L].kind
      BY <1>3, <1>7, <2>3
    <3>2. k - L = j - L
      BY <1>1, <3>1
    <3>3. k \in Int /\ j \in Int
      BY <1>7
    <3> QED BY <3>2, <3>3
  <2>4. CASE k <= L /\ ~(j <= L)
    <3>1. after[k] \in 1 .. n /\ after[j] = n + 1
      BY <1>7, <2>1, <2>4
    <3> QED BY <3>1
  <2>5. CASE ~(k <= L) /\ j <= L
    <3>1. after[j] \in 1 .. n /\ after[k] = n + 1
      BY <1>7, <2>1, <2>5
    <3> QED BY <3>1
  <2> QED BY <2>2, <2>3, <2>4, <2>5
<1>10. DOMAIN seq \subseteq DOMAIN new /\ \A k \in DOMAIN seq : new[k] = seq[k]
  BY <1>2, <1>3, <1>6 DEF Follows
<1> HIDE DEF after
<1>11. Follows(seq, new, after, n + 1)
  BY <1>4, <1>8, <1>9, <1>10 DEF Follows
<1> QED BY <1>11 DEF new, o

LEMMA RecordedFollows ==
  ASSUME NEW seq, seq \in Seq(ToSet(seq)), NEW N \in Nat, Len(calls) = N
  PROVE  \E from : Follows(seq, Recorded(seq), from, N)
<1>1. PICK t : /\ t = [n \in 0 .. N |->
                        IF n = 0 THEN seq ELSE t[n - 1] \o ObservationsOf(calls[n], results[n])]
               /\ Recorded(seq) = t[N]
  BY RecordedByPrefix
<1> DEFINE Bad == {n \in 0 .. N : ~\E from : Follows(seq, t[n], from, n)}
<1>2. Bad = {}
  <2> SUFFICES ASSUME Bad # {} PROVE FALSE
    OBVIOUS
  <2>1. PICK m \in Bad : \A k \in Bad : m <= k
    <3>1. Bad \in SUBSET Nat
      OBVIOUS
    <3> QED BY <3>1, LeastNatural
  <2>2. m # 0
    <3>1. t[0] = seq
      BY <1>1
    <3>2. Follows(seq, seq, << >>, 0)
      BY DEF Follows, Added
    <3>3. 0 \notin Bad
      BY <3>1, <3>2
    <3> QED BY <2>1, <3>3
  <2>3. m \in 0 .. N /\ m - 1 \in 0 .. N /\ m - 1 \notin Bad
    <3>1. m \in 0 .. N
      OBVIOUS
    <3>2. m - 1 \in 0 .. N /\ ~(m <= m - 1)
      BY <3>1, <2>2
    <3> HIDE DEF Bad
    <3> QED BY <3>1, <3>2, <2>1
  <2>4. PICK from : Follows(seq, t[m - 1], from, m - 1)
    BY <2>3
  <2>5. t[m] = t[m - 1] \o ObservationsOf(calls[m], results[m])
    BY <1>1, <2>2, <2>3
  <2>6. m - 1 \in Nat /\ m - 1 + 1 = m
    BY <2>2, <2>3
  <2> HIDE DEF Bad
  <2>7. \E after : Follows(seq, t[m], after, m)
    <3>1. PICK p \in Nat : p = m - 1 /\ p + 1 = m
      BY <2>6
    <3>2. \E after : Follows(seq, t[p] \o ObservationsOf(calls[p + 1], results[p + 1]), after, p + 1)
      BY <2>4, <3>1, FollowsOnce
    <3> QED BY <2>5, <3>1, <3>2
  <2> QED BY <2>1, <2>7 DEF Bad
<1>3. N \in 0 .. N
  OBVIOUS
<1> QED BY <1>1, <1>2, <1>3

-----------------------------------------------------------------------------
(* Counting.                                                                *)
LEMMA GrowsByOne ==
  ASSUME NEW A, NEW B, IsFiniteSet(A), \A k, l \in B \ A : k = l
  PROVE  IsFiniteSet(B) /\ Cardinality(B) <= Cardinality(A) + 1
<1>1. CASE B \ A = {}
  <2>1. B \in SUBSET A
    BY <1>1
  <2>2. Cardinality(A) \in Nat /\ IsFiniteSet(B) /\ Cardinality(B) <= Cardinality(A)
    BY <2>1, FS_Subset, FS_CardinalityType
  <2>3. Cardinality(B) \in Nat
    BY <2>2, FS_CardinalityType
  <2> QED BY <2>2, <2>3
<1>2. CASE B \ A # {}
  <2>1. PICK x : x \in B \ A
    BY <1>2
  <2>2. B \in SUBSET (A \cup {x})
    BY <2>1
  <2>3. IsFiniteSet(A \cup {x}) /\ Cardinality(A \cup {x}) = Cardinality(A) + 1
    BY <2>1, FS_AddElement
  <2> QED BY <2>2, <2>3, FS_Subset
<1> QED BY <1>1, <1>2

\* The positions of a sequence are few, and their last one is one of them.
LEMMA Positions ==
  ASSUME NEW seq, seq \in Seq(ToSet(seq)), NEW P \in SUBSET DOMAIN seq
  PROVE  /\ IsFiniteSet(P) /\ Cardinality(P) \in Nat /\ (Cardinality(P) = 0 <=> P = {})
         /\ P \subseteq Nat
<1>1. PICK n \in Nat : DOMAIN seq = 1 .. n
  OBVIOUS
<1>2. IsFiniteSet(P)
  BY <1>1, PositionsAreFinite
<1> QED BY <1>1, <1>2, FS_CardinalityType, FS_EmptySet

LEMMA Subsets ==
  ASSUME NEW seq, seq \in Seq(ToSet(seq)), NEW P \in SUBSET DOMAIN seq, NEW Q \in SUBSET P
  PROVE  Cardinality(Q) <= Cardinality(P) /\ Cardinality(Q) \in Nat /\ Cardinality(P) \in Nat
BY Positions, FS_Subset

\* What comes behind a sequence comes later.
LEMMA AddedLater ==
  ASSUME NEW seq, seq \in Seq(ToSet(seq)), NEW new, NEW from, NEW n, Follows(seq, new, from, n)
  PROVE  /\ \A i \in DOMAIN seq, k \in Added(seq, new) : i < k /\ ~(k < i)
         /\ DOMAIN new = DOMAIN seq \cup Added(seq, new)
<1>1. PICK l \in Nat : DOMAIN seq = 1 .. l
  OBVIOUS
<1>2. PICK m \in Nat : DOMAIN new = 1 .. m
  BY DEF Follows
<1> QED BY <1>1, <1>2 DEF Follows, Added

-----------------------------------------------------------------------------
(* What the batch of a turn takes out of the budgets.                       *)

\* A call that ended leaves what its tool may return, or an empty search.
LEMMA CallLeaves ==
  ASSUME BatchInv, CallsInv, BatchDone, NEW i \in DOMAIN calls, NEW o,
         Leaves(calls[i], results[i], o)
  PROVE  \/ o = Observation("grep", {}, FALSE) \/ o = Observation("symbol", {}, FALSE)
         \/ o.kind \in {"grep", "symbol"} /\ o.kind \in policy.tools
         \/ o.kind = "commit" /\ "show" \in policy.tools /\ o.paths \subseteq Paths
         \/ o.kind = "source" /\ "symbol" \in policy.tools /\ ~o.full
         \/ /\ o.kind = "source" /\ "read" \in policy.tools /\ calls[i].tool = "read"
            /\ o.paths = {Target(calls[i])} /\ Opened(i)
<1>1. Done(i) /\ calls[i].tool \in Tools
      /\ \/ results[i] = Refused
         \/ calls[i].tool \in policy.tools /\ results[i] \in Outcomes(calls[i])
  BY DEF BatchInv, CallsInv, BatchDone
<1>2. CASE results[i] = Refused
  <2>1. results[i].error /\ results[i].paths = {} /\ results[i].full = FALSE
    BY <1>2 DEF Refused, Result
  <2> QED BY <2>1 DEF Leaves
<1>3. CASE calls[i].tool \in policy.tools /\ results[i] \in Outcomes(calls[i])
  <2>1. CASE calls[i].tool = "grep"
    BY <1>3, <2>1 DEF Leaves, Observation
  <2>2. CASE calls[i].tool = "symbol"
    BY <1>3, <2>2 DEF Leaves, Observation
  <2>3. CASE calls[i].tool = "show"
    <3>1. ~results[i].error /\ o = Observation("commit", results[i].paths, TRUE)
      BY <2>3 DEF Leaves
    <3>2. results[i].paths \subseteq Paths
      BY <1>3, <2>3, <3>1 DEF Outcomes, Result
    <3> QED BY <1>3, <2>3, <3>1, <3>2 DEF Observation
  <2>4. CASE calls[i].tool = "read"
    <3>1. ~results[i].error /\ o = Observation("source", results[i].paths, results[i].full)
      BY <2>4 DEF Leaves
    <3>2. results[i].paths = {Target(calls[i])}
      BY <1>3, <2>4, <3>1 DEF Outcomes, Result
    <3> QED BY <1>1, <1>3, <2>4, <3>1, <3>2 DEF Observation, Opened, Ran
  <2> QED BY <1>1, <2>1, <2>2, <2>3, <2>4 DEF Tools
<1> QED BY <1>1, <1>2, <1>3

\* What is new after a batch, and where it comes from.
Read(k, from, new) ==
  /\ calls[from[k]].tool = "read" /\ Opened(from[k])
  /\ new[k].paths = {Target(calls[from[k]])}

Adds(new, from) ==
  /\ new \in Seq(ToSet(new))
  /\ DOMAIN new = DOMAIN observations \cup Added(observations, new)
  /\ \A i \in DOMAIN observations : new[i] = observations[i]
  /\ \A i \in DOMAIN observations, k \in Added(observations, new) : i < k /\ ~(k < i)
  /\ \A k \in Added(observations, new) :
       /\ from[k] \in DOMAIN calls
       /\ \/ new[k] = Observation("grep", {}, FALSE)
          \/ new[k] = Observation("symbol", {}, FALSE)
          \/ new[k].kind \in {"grep", "symbol"} /\ new[k].kind \in policy.tools
          \/ new[k].kind = "commit" /\ "show" \in policy.tools /\ new[k].paths \subseteq Paths
          \/ new[k].kind = "source" /\ "symbol" \in policy.tools /\ ~new[k].full
          \/ new[k].kind = "source" /\ "read" \in policy.tools /\ Read(k, from, new)
  /\ \A k \in Added(observations, new) : new[k].kind = "grep" => calls[from[k]].tool = "grep"
  /\ \A k, l \in Added(observations, new) :
       from[k] = from[l] /\ new[k].kind = new[l].kind => k = l

LEMMA BatchAdds ==
  ASSUME BatchInv, CallsInv, BatchDone, ObservationsInv
  PROVE  \E from : Adds(Recorded(observations), from)
<1>1. PICK n \in Nat : DOMAIN calls = 1 .. n /\ Len(calls) = n
  BY DEF CallsInv
<1>2. observations \in Seq(ToSet(observations))
  BY DEF ObservationsInv
<1>3. PICK new, from : new = Recorded(observations) /\ Follows(observations, new, from, n)
  BY <1>1, <1>2, RecordedFollows
<1>4. ASSUME NEW k \in Added(observations, new)
      PROVE  /\ from[k] \in DOMAIN calls
             /\ \/ new[k] = Observation("grep", {}, FALSE)
                \/ new[k] = Observation("symbol", {}, FALSE)
                \/ new[k].kind \in {"grep", "symbol"} /\ new[k].kind \in policy.tools
                \/ new[k].kind = "commit" /\ "show" \in policy.tools /\ new[k].paths \subseteq Paths
                \/ new[k].kind = "source" /\ "symbol" \in policy.tools /\ ~new[k].full
                \/ new[k].kind = "source" /\ "read" \in policy.tools /\ Read(k, from, new)
  <2>1. from[k] \in DOMAIN calls /\ Leaves(calls[from[k]], results[from[k]], new[k])
    BY <1>1, <1>3 DEF Follows
  <2> QED BY <2>1, CallLeaves DEF Read
<1>5. /\ \A i \in DOMAIN observations, k \in Added(observations, new) : i < k /\ ~(k < i)
      /\ DOMAIN new = DOMAIN observations \cup Added(observations, new)
  BY <1>2, <1>3, AddedLater
<1>6. /\ new \in Seq(ToSet(new)) /\ \A i \in DOMAIN observations : new[i] = observations[i]
      /\ \A k, l \in Added(observations, new) :
           from[k] = from[l] /\ new[k].kind = new[l].kind => k = l
  BY <1>3 DEF Follows
<1>7. \A k \in Added(observations, new) : new[k].kind = "grep" => calls[from[k]].tool = "grep"
  <2>1. \A c, r, o : Leaves(c, r, o) /\ o.kind = "grep" => c.tool = "grep"
    BY DEF Leaves, Observation
  <2> QED BY <1>3, <2>1 DEF Follows
<1>8. Adds(new, from)
  BY Zenon, <1>4, <1>5, <1>6, <1>7 DEF Adds
<1> QED BY <1>3, <1>8

Full(p, seq) == {i \in DOMAIN seq : seq[i].kind = "source" /\ seq[i].full /\ p \in seq[i].paths}

\* A call for each file the turn may read leaves one read of it.
LEMMA ReadsSpent ==
  ASSUME BatchInv, CallsInv, ObservationsInv, Fits(policy), mode # "free", SpentInv,
         NEW new, NEW from, Adds(new, from), NEW p \in Impl
  PROVE  FullReads(p, new) <= Windows(p)
<1> DEFINE A == Full(p, observations)
           B == Full(p, new)
<1>1. FullReads(p, observations) = Cardinality(A) /\ FullReads(p, new) = Cardinality(B)
  BY DEF FullReads, Full
<1>2. IsFiniteSet(A) /\ Cardinality(A) \in Nat /\ Windows(p) \in Nat /\ Cardinality(A) <= Windows(p)
  BY <1>1, Positions DEF ObservationsInv, Full, SpentInv, Windows
<1>3. \A k \in B \ A : /\ k \in Added(observations, new) /\ "read" \in policy.tools
                       /\ calls[from[k]].tool = "read" /\ Opened(from[k])
                       /\ from[k] \in DOMAIN calls /\ Target(calls[from[k]]) = p
                       /\ new[k].kind = "source"
  <2> SUFFICES ASSUME NEW k \in B \ A
               PROVE  /\ k \in Added(observations, new) /\ "read" \in policy.tools
                      /\ calls[from[k]].tool = "read" /\ Opened(from[k])
                      /\ from[k] \in DOMAIN calls /\ Target(calls[from[k]]) = p
                      /\ new[k].kind = "source"
    OBVIOUS
  <2>1. new[k].kind = "source" /\ new[k].full /\ p \in new[k].paths /\ k \in DOMAIN new
    BY DEF Full
  <2>2. k \in Added(observations, new)
    BY <2>1 DEF Adds, Full
  <2>3. "read" \in policy.tools /\ Read(k, from, new) /\ from[k] \in DOMAIN calls
    BY <2>1, <2>2 DEF Adds, Observation
  <2> QED BY <2>1, <2>2, <2>3 DEF Read
<1>4. \A k, l \in B \ A : k = l
  <2> SUFFICES ASSUME NEW k \in B \ A, NEW l \in B \ A PROVE k = l
    OBVIOUS
  <2>1. from[k] = from[l]
    <3>1. CASE policy.bounded
      BY <1>3, <3>1 DEF BatchInv
    <3>2. CASE ~policy.bounded
      BY <1>3, <3>2 DEF CallsInv, Fits
    <3> QED BY <3>1, <3>2
  <2> HIDE DEF A, B
  <2> QED BY <1>3, <2>1 DEF Adds
<1> HIDE DEF A, B
<1>5. CASE B \ A = {}
  BY <1>1, <1>2, <1>5, FS_Subset, FS_CardinalityType
<1>6. CASE B \ A # {}
  <2>1. PICK k : k \in B \ A
    BY <1>6
  <2>2. "read" \in policy.tools /\ (policy.bounded => p \in policy.allowedReadPaths)
    BY <1>3, <2>1 DEF BatchInv
  <2>3. Cardinality(A) < Windows(p)
    BY <1>1, <2>2 DEF Fits
  <2>4. Cardinality(B) <= Cardinality(A) + 1 /\ Cardinality(B) \in Nat
    BY <1>2, <1>4, GrowsByOne, FS_CardinalityType
  <2> QED BY <1>1, <1>2, <2>3, <2>4
<1> QED BY <1>5, <1>6

\* A turn that may search runs one search.
LEMMA SearchesSpent ==
  ASSUME CallsInv, ObservationsInv, Fits(policy),
         NEW new, NEW from, Adds(new, from), NEW kind \in {"grep", "symbol", "commit"},
         NEW tool, tool = IF kind = "commit" THEN "show" ELSE kind,
         NEW A \in SUBSET DOMAIN observations, NEW B \in SUBSET In(Of(kind, new), new),
         \A i \in B : i \in DOMAIN observations => i \in A
  PROVE  /\ Cardinality(A) \in Nat /\ Cardinality(B) \in Nat
         /\ \/ Cardinality(B) <= Cardinality(A)
            \/ tool \in policy.tools /\ Cardinality(B) <= Cardinality(A) + 1
<1>1. IsFiniteSet(A) /\ Cardinality(A) \in Nat
  BY Positions DEF ObservationsInv
<1>2. \A k \in B \ A : /\ k \in Added(observations, new) /\ from[k] \in DOMAIN calls
                       /\ tool \in policy.tools /\ new[k].kind = kind
  <2> SUFFICES ASSUME NEW k \in B \ A
               PROVE  /\ k \in Added(observations, new) /\ from[k] \in DOMAIN calls
                      /\ tool \in policy.tools /\ new[k].kind = kind
    OBVIOUS
  <2>1. k \in DOMAIN new /\ new[k].kind = kind /\ new[k].full
    BY DEF In, Of
  <2>2. k \in Added(observations, new)
    BY <2>1 DEF Adds
  <2> QED BY <2>1, <2>2 DEF Adds, Observation
<1>3. CASE B \ A = {}
  BY <1>1, <1>3, FS_Subset, FS_CardinalityType
<1>4. CASE B \ A # {}
  <2>1. tool \in policy.tools /\ tool \in Lookups
    BY <1>2, <1>4 DEF Lookups
  <2>2. \A i, j \in DOMAIN calls : i = j
    BY <2>1 DEF CallsInv, Fits
  <2>3. \A k, l \in B \ A : k = l
    BY <1>2, <2>2 DEF Adds
  <2> QED BY <1>1, <2>1, <2>3, GrowsByOne, FS_CardinalityType
<1> QED BY <1>3, <1>4

\* The question about a commit reads two files at most, and reads once.
LEMMA CommitSpent ==
  ASSUME BatchInv, CallsInv, ObservationsInv, Fits(policy), mode \in {"commit", "metadata"},
         Cardinality(Sources(observations)) <= 2,
         NEW new, NEW from, Adds(new, from)
  PROVE  Cardinality(Sources(new)) <= 2
<1> DEFINE A == Sources(observations)
           B == Sources(new)
<1>1. IsFiniteSet(A) /\ Cardinality(A) \in Nat
  BY Positions DEF ObservationsInv, Sources, Of
<1>2. \A k \in B \ A : /\ k \in Added(observations, new) /\ "read" \in policy.tools
                       /\ Opened(from[k]) /\ from[k] \in DOMAIN calls
                       /\ new[k].paths = {Target(calls[from[k]])} /\ new[k].kind = "source"
  <2> SUFFICES ASSUME NEW k \in B \ A
               PROVE  /\ k \in Added(observations, new) /\ "read" \in policy.tools
                      /\ Opened(from[k]) /\ from[k] \in DOMAIN calls
                      /\ new[k].paths = {Target(calls[from[k]])} /\ new[k].kind = "source"
    OBVIOUS
  <2>1. k \in DOMAIN new /\ new[k].kind = "source"
    BY DEF Sources, Of
  <2>2. k \in Added(observations, new)
    BY <2>1 DEF Adds, Sources, Of
  <2>3. "symbol" \notin policy.tools
    BY DEF Fits
  <2>4. "read" \in policy.tools /\ Read(k, from, new) /\ from[k] \in DOMAIN calls
    BY <2>1, <2>2, <2>3 DEF Adds, Observation
  <2> QED BY <2>1, <2>2, <2>4 DEF Read
<1> HIDE DEF A, B
<1>3. CASE B \ A = {}
  <2>1. B \in SUBSET A
    BY <1>3
  <2>2. Cardinality(B) <= Cardinality(A) /\ Cardinality(B) \in Nat
    BY <1>1, <2>1, FS_Subset, FS_CardinalityType
  <2> QED BY <1>1, <2>2 DEF A, B
<1>4. CASE B \ A # {}
  <2>1. "read" \in policy.tools
    BY <1>2, <1>4
  <2>2. policy.bounded /\ A = {}
    BY <2>1 DEF Fits, A
  <2>3. PICK p, q \in Paths : policy.allowedReadPaths \subseteq {p, q}
    BY <2>1 DEF Fits
  <2> DEFINE P == {k \in B : new[k].paths = {p}}
  <2>4. \A k \in B : Target(calls[from[k]]) \in policy.allowedReadPaths
    BY <1>2, <2>2 DEF BatchInv
  <2>5. \A k, l \in B : new[k].paths = new[l].paths => k = l
    <3> SUFFICES ASSUME NEW k \in B, NEW l \in B, new[k].paths = new[l].paths PROVE k = l
      OBVIOUS
    <3>1. Target(calls[from[k]]) = Target(calls[from[l]])
      BY <1>2, <2>2
    <3>2. from[k] = from[l]
      BY <1>2, <2>2, <3>1 DEF BatchInv
    <3> QED BY <1>2, <2>2, <3>2 DEF Adds
  <2>6. \A k \in B : new[k].paths = {p} \/ new[k].paths = {q}
    BY <1>2, <2>2, <2>3, <2>4
  <2>7. IsFiniteSet(P) /\ Cardinality(P) <= 1
    <3>1. \A k, l \in P \ {} : k = l
      BY <2>5
    <3> HIDE DEF P
    <3>2. Cardinality({}) = 0 /\ IsFiniteSet({})
      BY FS_EmptySet
    <3> QED BY <3>1, <3>2, GrowsByOne
  <2>8. \A k, l \in B \ P : k = l
    BY <2>5, <2>6
  <2>9. IsFiniteSet(B) /\ Cardinality(B) <= Cardinality(P) + 1
    BY <2>7, <2>8, GrowsByOne
  <2>10. Cardinality(B) \in Nat /\ Cardinality(P) \in Nat
    BY <2>7, <2>9, FS_CardinalityType
  <2> HIDE DEF P
  <2> QED BY <2>7, <2>9, <2>10 DEF B
<1> QED BY <1>3, <1>4

\* The claim check searches twice before its first read of an implementation
\* file and twice after it.
LEMMA ClaimSpent ==
  ASSUME BatchInv, CallsInv, ObservationsInv, Fits(policy), mode = "claim", SpentInv,
         NEW new, NEW from, Adds(new, from)
  PROVE  /\ Cardinality(In(Ahead(new), new)) <= 2
         /\ Cardinality(In(Counter(new), new)) <= 2
<1> DEFINE A == In(Ahead(observations), observations)
           B == In(Counter(observations), observations)
           C == In(Ahead(new), new)
           D == In(Counter(new), new)
<1>1. /\ A \in SUBSET DOMAIN observations /\ B \in SUBSET DOMAIN observations
      /\ C \in SUBSET In(Of("grep", new), new) /\ D \in SUBSET In(Of("grep", new), new)
      /\ A \in SUBSET Ahead(observations) /\ Ahead(observations) \in SUBSET DOMAIN observations
      /\ B \in SUBSET Counter(observations) /\ Counter(observations) \in SUBSET DOMAIN observations
  BY DEF In, Ahead, Counter, Greps, Of
<1>2. Cardinality(A) <= 2 /\ Cardinality(B) <= 2
  BY DEF SpentInv
<1>3. /\ Cardinality(A) <= Cardinality(Ahead(observations)) /\ Cardinality(A) \in Nat
      /\ Cardinality(B) <= Cardinality(Counter(observations)) /\ Cardinality(B) \in Nat
      /\ Cardinality(Ahead(observations)) \in Nat /\ Cardinality(Counter(observations)) \in Nat
  BY <1>1, Subsets DEF ObservationsInv
<1>4. \A i \in DOMAIN observations :
        /\ i \in Greps(new) => i \in Greps(observations)
        /\ i \in Direct(new) <=> i \in Direct(observations)
        /\ new[i].full = observations[i].full /\ i \in DOMAIN new
  BY DEF Adds, Direct, Greps, Sources, Of
<1>5. \A k \in DOMAIN new : k \in DOMAIN observations \/ k \in Added(observations, new)
  BY DEF Adds
<1>6. Direct(observations) \subseteq DOMAIN observations /\ Direct(new) \subseteq DOMAIN new
      /\ Greps(new) \subseteq DOMAIN new
  BY DEF Direct, Sources, Greps, Of
<1>7. \A i \in C : i \in DOMAIN observations => i \in A
  BY <1>4, <1>6 DEF In, Ahead
<1>8. \A i \in D : i \in DOMAIN observations => i \in B
  <2> SUFFICES ASSUME NEW i \in D, i \in DOMAIN observations PROVE i \in B
    OBVIOUS
  <2>1. PICK j \in Direct(new) : j < i
    BY DEF In, Counter
  <2>2. j \in DOMAIN observations
    BY <1>5, <1>6, <2>1 DEF Adds
  <2> QED BY <1>4, <2>1, <2>2 DEF In, Counter
<1> HIDE DEF A, B, C, D
<1>9. /\ Cardinality(C) \in Nat
      /\ \/ Cardinality(C) <= Cardinality(A)
         \/ "grep" \in policy.tools /\ Cardinality(C) <= Cardinality(A) + 1
  BY <1>1, <1>7, SearchesSpent
<1>10. /\ Cardinality(D) \in Nat
       /\ \/ Cardinality(D) <= Cardinality(B)
          \/ "grep" \in policy.tools /\ Cardinality(D) <= Cardinality(B) + 1
  BY <1>1, <1>8, SearchesSpent
<1>11. CASE Direct(observations) # {}
  <2>1. C \subseteq A
    <3> SUFFICES ASSUME NEW i \in C PROVE i \in A
      OBVIOUS
    <3>1. i \in DOMAIN new /\ \A j \in Direct(new) : i < j
      BY DEF C, In, Ahead, Greps, Of
    <3>2. i \in DOMAIN observations
      BY <1>4, <1>5, <1>6, <1>11, <3>1 DEF Adds
    <3> QED BY <1>7, <3>2
  <2>2. Cardinality(C) <= 2
    BY <1>1, <1>2, <1>3, <1>9, <2>1, Positions, FS_Subset DEF ObservationsInv
  <2>3. "grep" \in policy.tools => Cardinality(B) <= 1
    BY <1>3, <1>11 DEF Fits
  <2> QED BY <1>2, <1>3, <1>10, <2>2, <2>3 DEF C, D
<1>12. CASE Direct(observations) = {}
  <2>1. "grep" \in policy.tools => Cardinality(A) <= 1
    BY <1>3, <1>12 DEF Fits
  <2>2. Cardinality(C) <= 2
    BY <1>2, <1>3, <1>9, <2>1
  <2>3. D = {}
    <3> SUFFICES ASSUME NEW i \in D PROVE FALSE
      OBVIOUS
    <3>1. i \in Greps(new) /\ new[i].full /\ i \in DOMAIN new
      BY <1>6 DEF D, In, Counter
    <3>2. PICK j \in Direct(new) : j < i
      BY DEF D, In, Counter
    <3>3. j \in Added(observations, new)
      BY <1>4, <1>5, <1>6, <1>12, <3>2
    <3>4. i \in Added(observations, new)
      BY <1>5, <3>1, <3>2, <3>3 DEF Adds
    <3>5. new[i].kind = "grep" /\ new[j].kind = "source"
      BY <3>1, <3>2 DEF Greps, Of, Direct, Sources
    <3>6. calls[from[i]].tool = "grep" /\ from[i] \in DOMAIN calls /\ from[j] \in DOMAIN calls
      BY <3>3, <3>4, <3>5 DEF Adds
    <3>7. calls[from[j]].tool = "read"
      BY <3>3, <3>5 DEF Adds, Observation, Fits, Read
    <3>8. from[i] = from[j]
      BY <3>6 DEF CallsInv, Fits
    <3> QED BY <3>6, <3>7, <3>8
  <2> QED BY <2>2, <2>3, FS_EmptySet DEF C, D
<1> QED BY <1>11, <1>12

-----------------------------------------------------------------------------
(* What each policy offers fits into the budgets.                           *)
LEMMA Unseen ==
  ASSUME ObservationsInv, NEW p \in Impl,
         \/ p \notin ReadPaths(observations)
         \/ Direct(observations) = {}
         \/ p \in Unread(Paths, observations)
  PROVE  FullReads(p, observations) = 0 /\ FullReads(p, observations) < Windows(p)
<1>1. FullReads(p, observations) = 0
  <2>1. CASE p \in Unread(Paths, observations)
    BY <2>1 DEF Unread
  <2>2. CASE p \notin ReadPaths(observations) \/ Direct(observations) = {}
    <3>1. {i \in DOMAIN observations : observations[i].kind = "source" /\ observations[i].full
                                       /\ p \in observations[i].paths} = {}
      BY <2>2 DEF ReadPaths, PathsAt, Direct, Sources, Of
    <3> QED BY <3>1, FS_EmptySet DEF FullReads
  <2> QED BY <2>1, <2>2
<1> QED BY <1>1 DEF Windows

LEMMA Counts ==
  ASSUME ObservationsInv, NEW kind
  PROVE  /\ Executed(kind) \in Nat /\ Cardinality(Of(kind, observations)) \in Nat
         /\ Executed(kind) <= Cardinality(Of(kind, observations))
         /\ Of(kind, observations) = {} => Executed(kind) = 0
         /\ {i \in Of(kind, observations) : observations[i].full} = {} => Executed(kind) = 0
<1>1. Of(kind, observations) \in SUBSET DOMAIN observations
  BY DEF Of
<1>2. {i \in Of(kind, observations) : observations[i].full} \in SUBSET Of(kind, observations)
  OBVIOUS
<1> QED BY <1>1, <1>2, Subsets, FS_EmptySet DEF ObservationsInv, Executed

\* A search, and nothing else, may be made in the turn.
LEMMA SearchFits ==
  ASSUME NEW offer, NEW tool \in Lookups, offer.tools = {tool}, offer.parallelToolCalls = FALSE,
         tool = "symbol" => mode = "trace" /\ Executed("symbol") = 0,
         tool = "show" => Executed("commit") = 0,
         tool = "grep" =>
           /\ mode \in {"locate", "trace"} => Executed("grep") = 0
           /\ mode \in {"impact", "structured", "path", "anchored"} => Executed("grep") <= 1
           /\ mode = "claim" =>
                /\ Direct(observations) = {} => Cardinality(Ahead(observations)) <= 1
                /\ Direct(observations) # {} => Cardinality(Counter(observations)) <= 1
  PROVE  Fits(offer) /\ "read" \notin offer.tools
BY DEF Fits, Lookups

\* Files with a window left may be read.
LEMMA ReadFits ==
  ASSUME NEW offer, offer.tools = {"read"}, offer.bounded,
         mode = "claim" => ~offer.parallelToolCalls,
         mode \in {"commit", "metadata"} =>
           /\ Sources(observations) = {}
           /\ \E p, q \in Paths : offer.allowedReadPaths \subseteq {p, q},
         \A p \in Impl : p \in offer.allowedReadPaths => FullReads(p, observations) < Windows(p)
  PROVE  Fits(offer)
BY DEF Fits, Lookups

LEMMA FinalizeFits ==
  ASSUME NEW why PROVE Fits(Finalize(why)) /\ Finalize(why).tools = {}
BY DEF Fits, Finalize, Policy

LEMMA LocateFits ==
  ASSUME ObservationsInv, mode = "locate"
  PROVE  LET offer == LocatePolicy(observations, readRounds)
         IN  Fits(offer) /\ ("read" \in offer.tools => ~(readRounds >= MaxReadRounds))
<1> DEFINE candidates == RankedCandidates(observations, 1, 1) \ ReadPaths(observations)
           read == ReadEach(candidates, NoKey)
           search == Search("grep", NoKey)
<1>1. ASSUME Greps(observations) = {} PROVE Fits(search) /\ "read" \notin search.tools
  <2>1. Executed("grep") = 0
    BY <1>1, Counts DEF Greps
  <2>2. search.tools = {"grep"} /\ search.parallelToolCalls = FALSE
    BY DEF Search, Policy
  <2> HIDE DEF search
  <2> QED BY <2>1, <2>2, SearchFits DEF Lookups
<1>2. Fits(read)
  <2>1. read.tools = {"read"} /\ read.bounded /\ read.allowedReadPaths = candidates
    BY DEF ReadEach, Policy
  <2>2. \A p \in Impl : p \in candidates => FullReads(p, observations) < Windows(p)
    BY Unseen
  <2> HIDE DEF read, candidates
  <2> QED BY <2>1, <2>2, ReadFits
<1> HIDE DEF read, search
<1>3. \/ LocatePolicy(observations, readRounds) = search /\ Greps(observations) = {}
      \/ \E why : LocatePolicy(observations, readRounds) = Finalize(why)
      \/ LocatePolicy(observations, readRounds) = read /\ ~(readRounds >= MaxReadRounds)
  BY DEF LocatePolicy, read, search
<1> QED BY <1>1, <1>2, <1>3, FinalizeFits

LEMMA TraceFits ==
  ASSUME ObservationsInv, mode = "trace"
  PROVE  LET offer == TracePolicy(observations, readRounds)
         IN  Fits(offer) /\ ("read" \in offer.tools => ~(readRounds >= MaxReadRounds))
<1> DEFINE definitions == {i \in Of("symbol", observations) : observations[i].full}
           usages == {i \in Greps(observations) : observations[i].full}
           unread == Unread(LastPaths(usages, observations), observations)
           read == ReadEach(unread, NoKey)
           symbol == Search("symbol", NoKey)
           grep == Search("grep", NoKey)
<1>1. ASSUME definitions = {} PROVE Fits(symbol) /\ "read" \notin symbol.tools
  <2>1. Executed("symbol") = 0
    BY <1>1, Counts
  <2>2. symbol.tools = {"symbol"} /\ symbol.parallelToolCalls = FALSE
    BY DEF Search, Policy
  <2> HIDE DEF symbol
  <2> QED BY <2>1, <2>2, SearchFits DEF Lookups
<1>2. ASSUME usages = {} PROVE Fits(grep) /\ "read" \notin grep.tools
  <2>1. Executed("grep") = 0
    BY <1>2, Counts DEF Greps
  <2>2. grep.tools = {"grep"} /\ grep.parallelToolCalls = FALSE
    BY DEF Search, Policy
  <2> HIDE DEF grep
  <2> QED BY <2>1, <2>2, SearchFits DEF Lookups
<1>3. Fits(read)
  <2>1. read.tools = {"read"} /\ read.bounded /\ read.allowedReadPaths = unread
    BY DEF ReadEach, Policy
  <2>2. \A p \in Impl : p \in unread => FullReads(p, observations) < Windows(p)
    <3>1. \A p \in Impl : p \in Paths
      BY TurnLoopAssumption
    <3> QED BY <3>1, Unseen DEF Unread
  <2> HIDE DEF read, unread
  <2> QED BY <2>1, <2>2, ReadFits
<1> HIDE DEF read, symbol, grep
<1>4. \/ TracePolicy(observations, readRounds) = symbol /\ definitions = {}
      \/ TracePolicy(observations, readRounds) = grep /\ usages = {}
      \/ \E why : TracePolicy(observations, readRounds) = Finalize(why)
      \/ TracePolicy(observations, readRounds) = read /\ ~(readRounds >= MaxReadRounds)
  BY DEF TracePolicy, read, symbol, grep
<1> QED BY <1>1, <1>2, <1>3, <1>4, FinalizeFits

LEMMA ImpactFits ==
  ASSUME ObservationsInv, mode \in {"impact", "structured"}, NEW fixed
  PROVE  Fits(ImpactPolicy(observations, readRounds, fixed))
<1> DEFINE searches == Greps(observations)
           left == RankedCandidates(observations, 3, 1) \ ReadPaths(observations)
<1>1. ASSUME NEW key, NEW S, searches = {} \/ Cardinality(searches) = 1
      PROVE  Fits(SearchWithin("grep", key, S))
  <2>1. Executed("grep") <= 1
    <3>1. Executed("grep") \in Nat /\ Executed("grep") <= Cardinality(searches) /\ Cardinality(searches) \in Nat
          /\ (searches = {} => Executed("grep") = 0)
      BY Counts DEF Greps
    <3> QED BY <1>1, <3>1
  <2>2. SearchWithin("grep", key, S).tools = {"grep"} /\ SearchWithin("grep", key, S).parallelToolCalls = FALSE
    BY DEF SearchWithin, Policy
  <2> QED BY <2>1, <2>2, SearchFits DEF Lookups
<1>2. ASSUME NEW key, NEW S, S \subseteq left PROVE Fits(ReadEach(S, key))
  <2>1. /\ ReadEach(S, key).tools = {"read"} /\ ReadEach(S, key).bounded
        /\ ReadEach(S, key).allowedReadPaths = S
    BY DEF ReadEach, Policy
  <2>2. \A p \in Impl : p \in S => FullReads(p, observations) < Windows(p)
    BY <1>2, Unseen
  <2> QED BY <2>1, <2>2, ReadFits
<1>3. \E key, S, why :
        \/ ImpactPolicy(observations, readRounds, fixed) = SearchWithin("grep", key, S)
           /\ (searches = {} \/ Cardinality(searches) = 1)
        \/ ImpactPolicy(observations, readRounds, fixed) = Finalize(why)
        \/ ImpactPolicy(observations, readRounds, fixed) = ReadEach(S, key) /\ S \subseteq left
  <2> DEFINE after == ReadSince(observations)
             implementationObserved == ReadPaths(observations) \cap Impl # {}
             categoryReadPhase == fixed /\ Cardinality(searches) > 1 /\ implementationObserved
             candidates == left \ (IF categoryReadPhase THEN Impl ELSE {})
             moreImplementation == /\ ~implementationObserved
                                   /\ candidates \cap Impl # {}
                                   /\ readRounds < MaxReadRounds
             finished == after /\ ~moreImplementation
                         /\ (candidates = {} \/ readRounds >= MaxReadRounds)
             none == searches # {} /\ LastPaths(searches, observations) = {}
             more == fixed /\ Cardinality(searches) = 1 /\ after
             confirm == after /\ ~moreImplementation /\ Cardinality(searches) = 1
                        /\ ~implementationObserved
             first == IF fixed THEN Impl ELSE Paths
             readKey == IF fixed /\ Cardinality(searches) > 1 THEN "impact_category_read" ELSE NoKey
  <2>1. candidates \subseteq left
    OBVIOUS
  <2>2. ImpactPolicy(observations, readRounds, fixed) =
          CASE searches = {} -> SearchWithin("grep", NoKey, first)
            [] none -> Finalize("no candidate")
            [] OTHER ->
                 IF more THEN SearchWithin("grep", "impact_category_search", Paths \ Impl)
                 ELSE IF confirm THEN Search("grep", NoKey)
                 ELSE IF finished THEN Finalize("done")
                 ELSE IF candidates = {} THEN Finalize("no candidate")
                 ELSE ReadEach(candidates, readKey)
    BY DEF ImpactPolicy
  <2>3. none => searches # {}
    OBVIOUS
  <2>4. (more => Cardinality(searches) = 1) /\ (confirm => Cardinality(searches) = 1)
    OBVIOUS
  <2>5. Search("grep", NoKey) = SearchWithin("grep", NoKey, Paths)
    BY DEF Search, SearchWithin
  <2> HIDE DEF searches, none, more, confirm, finished, candidates, first, readKey
  <2>6. CASE searches = {}
    BY <2>2, <2>3, <2>6
  <2>7. CASE searches # {} /\ none
    BY <2>2, <2>7
  <2>8. CASE searches # {} /\ ~none
    <3>1. \/ more /\ ImpactPolicy(observations, readRounds, fixed) = SearchWithin("grep", "impact_category_search", Paths \ Impl)
          \/ confirm /\ ImpactPolicy(observations, readRounds, fixed) = SearchWithin("grep", NoKey, Paths)
          \/ \E why : ImpactPolicy(observations, readRounds, fixed) = Finalize(why)
          \/ ImpactPolicy(observations, readRounds, fixed) = ReadEach(candidates, readKey)
      BY <2>2, <2>5, <2>8
    <3> QED BY <2>1, <2>4, <3>1
  <2> QED BY <2>6, <2>7, <2>8
<1> QED BY <1>1, <1>2, <1>3, FinalizeFits

LEMMA PathFits ==
  ASSUME ObservationsInv, mode \in {"path", "anchored"}, readRounds \in Nat, NEW known
  PROVE  LET offer == PathPolicy(observations, readRounds, known)
         IN  Fits(offer) /\ ("read" \in offer.tools => ~(readRounds >= MaxPathReadRounds))
<1> DEFINE searches == Greps(observations)
           unread == Unread(LastPaths(searches, observations), observations) \cap Impl
           Unspent(offer) == Fits(offer) /\ ("read" \in offer.tools => ~(readRounds >= MaxPathReadRounds))
<1>1. ASSUME NEW key, searches = {} \/ Cardinality(searches) = 1
      PROVE  Unspent(Search("grep", key))
  <2>1. Executed("grep") <= 1
    <3>1. Executed("grep") \in Nat /\ Executed("grep") <= Cardinality(searches) /\ Cardinality(searches) \in Nat
          /\ (searches = {} => Executed("grep") = 0)
      BY Counts DEF Greps
    <3> QED BY <1>1, <3>1
  <2>2. Search("grep", key).tools = {"grep"} /\ Search("grep", key).parallelToolCalls = FALSE
    BY DEF Search, Policy
  <2> QED BY <2>1, <2>2, SearchFits DEF Lookups
<1>2. ASSUME NEW key, ~(readRounds >= MaxPathReadRounds) PROVE Unspent(ReadRanges(unread, key))
  <2>1. /\ ReadRanges(unread, key).tools = {"read"} /\ ReadRanges(unread, key).bounded
        /\ ReadRanges(unread, key).allowedReadPaths = unread
    BY DEF ReadRanges, Policy
  <2>2. \A p \in Impl : p \in unread => FullReads(p, observations) < Windows(p)
    <3>1. \A p \in Impl : p \in Paths
      BY TurnLoopAssumption
    <3> QED BY <3>1, Unseen DEF Unread
  <2> HIDE DEF unread
  <2> QED BY <1>2, <2>1, <2>2, ReadFits
<1>3. ASSUME NEW key, Sources(observations) = {}, ~(readRounds > 0) PROVE Unspent(ReadEach(Known, key))
  <2>1. /\ ReadEach(Known, key).tools = {"read"} /\ ReadEach(Known, key).bounded
        /\ ReadEach(Known, key).allowedReadPaths = Known
    BY DEF ReadEach, Policy
  <2>2. \A p \in Impl : FullReads(p, observations) < Windows(p)
    BY <1>3, Unseen DEF Direct
  <2> QED BY <1>3, <2>1, <2>2, ReadFits DEF MaxPathReadRounds
<1>4. ASSUME NEW why PROVE Unspent(Finalize(why))
  BY FinalizeFits
<1>5. \E key, why :
        \/ PathPolicy(observations, readRounds, known) = Search("grep", key)
           /\ (searches = {} \/ Cardinality(searches) = 1)
        \/ PathPolicy(observations, readRounds, known) = Finalize(why)
        \/ PathPolicy(observations, readRounds, known) = ReadEach(Known, key)
           /\ Sources(observations) = {} /\ ~(readRounds > 0)
        \/ PathPolicy(observations, readRounds, known) = ReadRanges(unread, key)
           /\ ~(readRounds >= MaxPathReadRounds)
  <2> DEFINE sources == Sources(observations)
             readFirst == {i \in sources : \A j \in searches : i < j}
             discoveryFirst == searches # {} /\ PathsAt(readFirst, observations) = {}
             endpoints == IF discoveryFirst THEN ReadPaths(observations) ELSE {}
             readKey == IF Cardinality(searches) = 1 THEN "path_anchor_reads" ELSE "path_handoff_reads"
             none == searches # {} /\ LastPaths(searches, observations) = {}
             anchors == searches # {} /\ unread # {} /\ readRounds < MaxPathReadRounds
             bounds == Cardinality(searches) = 1 /\ Cardinality(endpoints) >= EndpointReads
             follows == HandoffDue(observations, discoveryFirst)
  <2>1. PathPolicy(observations, readRounds, known) =
          CASE searches = {} /\ sources = {} ->
                 IF ~known THEN Search("grep", "path_initial_search")
                 ELSE IF readRounds > 0 THEN Finalize("tried")
                 ELSE ReadEach(Known, "path_known_anchor_reads")
            [] none -> Finalize("no candidate")
            [] OTHER ->
                 IF anchors THEN ReadRanges(unread, readKey)
                 ELSE IF bounds THEN Finalize("done")
                 ELSE IF follows THEN Search("grep", "path_handoff_search")
                 ELSE Finalize("done")
    BY DEF PathPolicy
  <2>2. (none => searches # {}) /\ (anchors => ~(readRounds >= MaxPathReadRounds))
    BY DEF MaxPathReadRounds
  <2>3. follows => searches = {} \/ Cardinality(searches) = 1
    BY DEF HandoffDue
  <2> HIDE DEF searches, none, anchors, bounds, follows, readKey, unread
  <2>4. CASE searches = {} /\ sources = {}
    BY <2>1, <2>2, <2>4
  <2>5. CASE ~(searches = {} /\ sources = {}) /\ none
    BY <2>1, <2>5
  <2>6. CASE ~(searches = {} /\ sources = {}) /\ ~none
    BY <2>1, <2>2, <2>3, <2>6
  <2> QED BY <2>4, <2>5, <2>6
<1> HIDE DEF Unspent
<1>6. Unspent(PathPolicy(observations, readRounds, known))
  BY <1>1, <1>2, <1>3, <1>4, <1>5
<1> QED BY <1>6 DEF Unspent

\* The preferred file is one, and the two preferred files are two.
LEMMA Lower ==
  ASSUME NEW S \in SUBSET Paths, NEW p \in S
  PROVE  /\ IsFiniteSet({q \in S : Rank[q] < Rank[p]})
         /\ Cardinality({q \in S : Rank[q] < Rank[p]}) \in Nat
         /\ Rank[p] \in Nat
BY TurnLoopAssumption, FS_Subset, FS_CardinalityType

LEMMA TopOne ==
  ASSUME NEW S \in SUBSET Paths
  PROVE  \A p, q \in Top(S, 1) : p = q
<1>1. ASSUME NEW p \in Top(S, 1), NEW q \in S PROVE ~(Rank[q] < Rank[p])
  <2> DEFINE L == {r \in S : Rank[r] < Rank[p]}
  <2>1. p \in S /\ Cardinality(L) < 1
    BY DEF Top
  <2>2. IsFiniteSet(L) /\ Cardinality(L) = 0
    BY <2>1, Lower
  <2>3. L = {}
    BY <2>2, FS_EmptySet
  <2> QED BY <2>3
<1>2. SUFFICES ASSUME NEW p \in Top(S, 1), NEW q \in Top(S, 1) PROVE p = q
  OBVIOUS
<1>3. p \in Paths /\ q \in Paths /\ p \in S /\ q \in S
  BY DEF Top
<1>4. Rank[p] = Rank[q]
  <2>1. Rank[p] \in Nat /\ Rank[q] \in Nat
    BY <1>3, TurnLoopAssumption
  <2>2. ~(Rank[q] < Rank[p]) /\ ~(Rank[p] < Rank[q])
    BY <1>1, <1>3
  <2> QED BY <2>1, <2>2
<1>5. \A r, t \in Paths : Rank[r] = Rank[t] => r = t
  BY TurnLoopAssumption
<1> QED BY <1>3, <1>4, <1>5

Few(S) == \A x, y, z \in S : x = y \/ y = z \/ x = z

LEMMA TopTwo ==
  ASSUME NEW S \in SUBSET Paths
  PROVE  Few(Top(S, 2))
<1>1. ASSUME NEW p \in Top(S, 2), NEW x \in S, NEW y \in S, Rank[x] < Rank[p], Rank[y] < Rank[p]
      PROVE  x = y
  <2> DEFINE L == {r \in S : Rank[r] < Rank[p]}
  <2>1. p \in S /\ Cardinality(L) < 2 /\ x \in L /\ y \in L
    BY <1>1 DEF Top
  <2>2. IsFiniteSet(L) /\ Cardinality(L) \in Nat
    BY <2>1, Lower
  <2> HIDE DEF L
  <2>3. Cardinality(L) # 0
    BY <2>1, <2>2, FS_EmptySet
  <2>4. \E r : L = {r}
    BY <2>1, <2>2, <2>3, FS_Singleton
  <2> QED BY <2>1, <2>4
<1>2. SUFFICES ASSUME NEW x \in Top(S, 2), NEW y \in Top(S, 2), NEW z \in Top(S, 2),
                      x # y, y # z, x # z
               PROVE  FALSE
  BY DEF Few
<1>3. x \in S /\ y \in S /\ z \in S
  BY DEF Top
<1>4. Rank[x] # Rank[y] /\ Rank[y] # Rank[z] /\ Rank[x] # Rank[z]
  BY <1>2, <1>3, TurnLoopAssumption
<1>5. Rank[x] \in Nat /\ Rank[y] \in Nat /\ Rank[z] \in Nat
  BY <1>3, Lower
<1>6. CASE Rank[x] < Rank[z] /\ Rank[y] < Rank[z]
  BY <1>1, <1>2, <1>3, <1>6
<1>7. CASE Rank[x] < Rank[y] /\ Rank[z] < Rank[y]
  BY <1>1, <1>2, <1>3, <1>7
<1>8. CASE Rank[z] < Rank[x] /\ Rank[y] < Rank[x]
  BY <1>1, <1>2, <1>3, <1>8
<1> QED BY <1>4, <1>5, <1>6, <1>7, <1>8

LEMMA CommitFits ==
  ASSUME ObservationsInv, mode \in {"commit", "metadata"}, NEW shown, NEW hunks
  PROVE  Fits(ExactCommitPolicy(observations, shown, hunks))
<1> DEFINE commits == Of("commit", observations)
           paths == PathsAt(commits, observations)
           candidates == CommitCandidates(paths)
           show == Search("show", NoKey)
           read == ReadEach(candidates, NoKey)
<1>1. ASSUME commits = {} PROVE Fits(show)
  <2>1. Executed("commit") = 0
    BY <1>1, Counts
  <2>2. show.tools = {"show"} /\ show.parallelToolCalls = FALSE
    BY DEF Search, Policy
  <2> HIDE DEF show
  <2> QED BY <2>1, <2>2, SearchFits DEF Lookups
<1>2. paths \in SUBSET Paths
  BY DEF ObservationsInv, PathsAt
<1>3. Few(candidates) /\ candidates \subseteq Paths
  <2> HIDE DEF paths
  <2> DEFINE primary == Top(paths \cap Impl, 1)
             others == IF primary = {} THEN Top(paths, 2)
                       ELSE IF paths \ Impl # {} THEN Top(paths \ Impl, 1)
                       ELSE Top(paths \ primary, 1)
  <2>1. candidates = primary \cup others
    BY DEF CommitCandidates
  <2>2. \A n : \A S \in SUBSET Paths : Top(S, n) \subseteq S
    BY DEF Top
  <2>3. \A p, q \in primary : p = q
    BY <1>2, TopOne
  <2>4. CASE primary = {}
    BY <1>2, <2>1, <2>2, <2>4, TopTwo
  <2>5. CASE primary # {}
    <3>1. \A p, q \in others : p = q
      BY <1>2, <2>5, TopOne
    <3>2. primary \subseteq Paths /\ others \subseteq Paths
      BY <1>2, <2>2, <2>5
    <3> HIDE DEF primary, others, candidates
    <3> QED BY <2>1, <2>3, <3>1, <3>2 DEF Few
  <2> QED BY <2>4, <2>5
<1> HIDE DEF candidates
<1>4. ASSUME candidates # {}, Sources(observations) = {} PROVE Fits(read)
  <2>1. \E p, q \in Paths : candidates \subseteq {p, q}
    <3>1. PICK p : p \in candidates
      BY <1>4
    <3>2. CASE candidates = {p}
      BY <1>3, <3>1, <3>2
    <3>3. CASE candidates # {p}
      <4>1. PICK q : q \in candidates /\ q # p
        BY <3>1, <3>3
      <4>2. candidates \subseteq {p, q}
        BY <1>3, <3>1, <4>1 DEF Few
      <4> QED BY <1>3, <3>1, <4>1, <4>2
    <3> QED BY <3>2, <3>3
  <2>2. read.tools = {"read"} /\ read.bounded /\ read.allowedReadPaths = candidates
    BY DEF ReadEach, Policy
  <2>3. \A p \in Impl : FullReads(p, observations) < Windows(p)
    BY <1>4, Unseen DEF Direct
  <2> HIDE DEF read
  <2> QED BY <1>4, <2>1, <2>2, <2>3, ReadFits
<1>5. \/ ExactCommitPolicy(observations, shown, hunks) = show /\ commits = {}
      \/ \E why : ExactCommitPolicy(observations, shown, hunks) = Finalize(why)
      \/ ExactCommitPolicy(observations, shown, hunks) = read
         /\ candidates # {} /\ Sources(observations) = {}
  BY DEF ExactCommitPolicy, candidates
<1> QED BY <1>1, <1>4, <1>5, FinalizeFits

LEMMA ClaimFits ==
  ASSUME ObservationsInv, mode = "claim"
  PROVE  Fits(ClaimPolicy(observations))
<1> DEFINE direct == Direct(observations)
           searches == Greps(observations)
           before == {i \in searches : observations[i].paths # {} /\ \A j \in direct : i < j}
           linkage == IF Cardinality(direct) = 1 /\ before # {}
                      THEN StrongestUnread(LastPaths(before, observations) \cap PathsAt(direct, observations),
                                           observations)
                      ELSE {}
           counter == Counter(observations)
           exception == StrongestUnread(LastPaths(counter, observations), observations)
           candidate == Top(PathsOf(observations) \cap Impl, 1)
           grep == Search("grep", NoKey)
           first == Policy({"grep", "read"}, FALSE, NoKey, {}, "none", Paths, "open")
<1>1. ASSUME NEW S, NEW key, \A p \in Impl : p \in S => FullReads(p, observations) < Windows(p)
      PROVE  Fits(ReadOne(S, key))
  <2>1. /\ ReadOne(S, key).tools = {"read"} /\ ReadOne(S, key).bounded
        /\ ReadOne(S, key).allowedReadPaths = S /\ ~ReadOne(S, key).parallelToolCalls
    BY DEF ReadOne, Policy
  <2> QED BY <1>1, <2>1, ReadFits
<1>2. \A S : \A p \in Impl : p \in StrongestUnread(S, observations) => FullReads(p, observations) < Windows(p)
  BY DEF StrongestUnread, Top, Windows
<1>3. /\ Ahead(observations) \in SUBSET searches /\ counter \in SUBSET searches
      /\ Cardinality(searches) \in Nat /\ Cardinality(counter) \in Nat
      /\ Cardinality(Ahead(observations)) <= Cardinality(searches) /\ Cardinality(Ahead(observations)) \in Nat
      /\ searches = {} => Ahead(observations) = {} /\ Cardinality(Ahead(observations)) = 0
      /\ counter = {} => Cardinality(counter) = 0
  <2>1. Ahead(observations) \in SUBSET searches /\ counter \in SUBSET searches /\ searches \in SUBSET DOMAIN observations
    BY DEF Ahead, Counter, Greps, Of
  <2> HIDE DEF searches, counter
  <2> QED BY <2>1, Subsets, FS_EmptySet DEF ObservationsInv
<1>4. ASSUME direct = {} => searches = {} \/ Cardinality(searches) = 1,
             direct # {} => counter = {} \/ Cardinality(counter) = 1
      PROVE  Fits(grep)
  <2>1. grep.tools = {"grep"} /\ grep.parallelToolCalls = FALSE
    BY DEF Search, Policy
  <2>2. /\ direct = {} => Cardinality(Ahead(observations)) <= 1
        /\ direct # {} => Cardinality(counter) <= 1
    BY <1>3, <1>4
  <2> HIDE DEF grep
  <2> QED BY <2>1, <2>2, SearchFits DEF Lookups
<1>5. ASSUME direct = {} PROVE Fits(DirectPolicy(observations))
  <2>1. \A p \in Impl : FullReads(p, observations) < Windows(p)
    BY <1>5, Unseen
  <2>2. ASSUME searches = {} PROVE Fits(first)
    <3>1. /\ first.tools = {"grep", "read"} /\ ~first.parallelToolCalls /\ ~first.bounded
          /\ first.allowedReadPaths = {}
      <4>1. {"grep", "read"} # {"read"}
        OBVIOUS
      <4> QED BY <4>1 DEF Policy
    <3>2. Cardinality(Ahead(observations)) <= 1
      BY <1>3, <2>2
    <3> HIDE DEF first
    <3>3. /\ "symbol" \notin first.tools /\ "show" \notin first.tools /\ Direct(observations) = {}
          /\ mode \notin {"locate", "trace", "impact", "structured", "path", "anchored", "commit", "metadata"}
      BY <1>5, <3>1
    <3> QED BY <2>1, <3>1, <3>2, <3>3 DEF Fits
  <2>3. \/ DirectPolicy(observations) = first /\ searches = {}
        \/ \E why : DirectPolicy(observations) = Finalize(why)
        \/ DirectPolicy(observations) = ReadOne(candidate, NoKey)
        \/ DirectPolicy(observations) = grep /\ Cardinality(searches) = 1
    <3> HIDE DEF searches, candidate, grep, first
    <3>1. DirectPolicy(observations) =
            CASE searches = {} -> first
              [] searches # {} /\ LastPaths(searches, observations) # {} ->
                   IF candidate = {} THEN Finalize("no candidate") ELSE ReadOne(candidate, NoKey)
              [] OTHER -> IF Cardinality(searches) = 1 THEN grep ELSE Finalize("no candidate")
      BY DEF DirectPolicy, searches, candidate, grep, first
    <3> QED BY <3>1
  <2> QED BY <1>1, <1>4, <1>5, <2>1, <2>2, <2>3, FinalizeFits
<1>6. \/ ClaimPolicy(observations) = DirectPolicy(observations) /\ direct = {}
      \/ \E S : ClaimPolicy(observations) = ReadOne(StrongestUnread(S, observations), "claim_direct_linkage_read")
      \/ \E S : ClaimPolicy(observations) = ReadOne(StrongestUnread(S, observations), NoKey)
      \/ \E why : ClaimPolicy(observations) = Finalize(why)
      \/ ClaimPolicy(observations) = grep /\ direct # {} /\ (counter = {} \/ Cardinality(counter) = 1)
  <2> HIDE DEF direct, before, grep
  <2>1. ClaimPolicy(observations) =
          IF direct = {} THEN DirectPolicy(observations)
          ELSE IF linkage # {} THEN ReadOne(linkage, "claim_direct_linkage_read")
          ELSE IF counter = {} THEN grep
          ELSE IF LastPaths(counter, observations) # {} /\ ~ReadSince(observations)
          THEN IF exception = {} THEN Finalize("done") ELSE ReadOne(exception, NoKey)
          ELSE IF Cardinality(counter) = 1 /\ LastPaths(counter, observations) = {} THEN grep
          ELSE Finalize("done")
    BY DEF ClaimPolicy, Counter, direct, before, grep
  <2>2. linkage # {} => \E S : linkage = StrongestUnread(S, observations)
    OBVIOUS
  <2>3. \E S : exception = StrongestUnread(S, observations)
    OBVIOUS
  <2> HIDE DEF linkage, exception, counter
  <2>4. CASE direct = {}
    BY <2>1, <2>4
  <2>5. CASE direct # {} /\ linkage # {}
    BY <2>1, <2>2, <2>5
  <2>6. CASE direct # {} /\ linkage = {}
    BY <2>1, <2>3, <2>6
  <2> QED BY <2>4, <2>5, <2>6
<1> HIDE DEF grep, direct, searches, counter
<1> QED BY <1>1, <1>2, <1>4, <1>5, <1>6, FinalizeFits

LEMMA TurnFits ==
  ASSUME ObservationsInv, readRounds \in Nat, mode # "free"
  PROVE  /\ Fits(TurnPolicy)
         /\ mode \in {"locate", "trace", "path", "anchored"} /\ "read" \in TurnPolicy.tools =>
              readRounds < ReadLimit
<1>1. mode \in AllModes
  BY TurnLoopAssumption DEF ObservationsInv
<1>2. CASE mode = "locate"
  BY <1>2, LocateFits DEF TurnPolicy, ReadLimit, MaxReadRounds
<1>3. CASE mode = "trace"
  BY <1>3, TraceFits DEF TurnPolicy, ReadLimit, MaxReadRounds
<1>4. CASE mode \in {"impact", "structured"}
  <2>1. \E fixed : TurnPolicy = ImpactPolicy(observations, readRounds, fixed)
    BY <1>4 DEF TurnPolicy
  <2> QED BY <1>4, <2>1, ImpactFits
<1>5. CASE mode = "path"
  <2>1. \E known : TurnPolicy = PathPolicy(observations, readRounds, known)
    BY <1>5 DEF TurnPolicy
  <2> QED BY <1>5, <2>1, PathFits DEF ReadLimit, MaxPathReadRounds
<1>6. CASE mode = "anchored"
  <2>1. \E known : TurnPolicy = PathPolicy(observations, readRounds, known)
    BY <1>6 DEF TurnPolicy
  <2> QED BY <1>6, <2>1, PathFits DEF ReadLimit, MaxPathReadRounds
<1>7. CASE mode \in {"commit", "metadata"}
  BY <1>7, CommitFits DEF TurnPolicy
<1>8. CASE mode = "claim"
  BY <1>8, ClaimFits DEF TurnPolicy
<1> QED BY <1>1, <1>2, <1>3, <1>4, <1>5, <1>6, <1>7, <1>8 DEF AllModes
-----------------------------------------------------------------------------
(* The steps.  A policy is fixed when its turn begins, and only the record  *)
(* of its batch spends what it offered.                                     *)
LEMMA InitBudget == Init => BudgetInv
<1> SUFFICES ASSUME Init PROVE BudgetInv
  OBVIOUS
<1>1. /\ mode \in Modes /\ observations = << >> /\ calls = << >> /\ active = {} /\ phase = "head"
      /\ readTurns = 0 /\ readRounds = 0
  BY DEF Init
<1>2. CallsInv
  <2>1. DOMAIN calls = 1 .. 0 /\ Len(calls) = 0 /\ DOMAIN calls = {}
    BY <1>1
  <2>2. \E n \in Nat : DOMAIN calls = 1 .. n /\ Len(calls) = n
    BY <2>1
  <2> QED BY <1>1, <2>1, <2>2 DEF CallsInv
<1>3. \A kind : Of(kind, observations) = {}
  BY <1>1 DEF Of
<1>4. ObservationsInv
  <2>1. << >> \in Seq(ToSet(<< >>))
    OBVIOUS
  <2> QED BY <1>1, <1>3, <2>1 DEF ObservationsInv
<1>5. OfferInv
  BY <1>1 DEF OfferInv
<1>6. SpentInv
  <2>1. \A p \in Impl : FullReads(p, observations) = 0
    <3>1. Direct(observations) = {}
      BY <1>3 DEF Direct, Sources
    <3> QED BY <1>4, <3>1, Unseen
  <2>2. \A kind : Executed(kind) = 0
    BY <1>3, <1>4, Counts
  <2>3. /\ Sources(observations) = {} /\ In(Ahead(observations), observations) = {}
        /\ In(Counter(observations), observations) = {}
    BY <1>3 DEF Sources, In, Ahead, Counter, Greps
  <2>4. Cardinality({}) = 0
    BY FS_EmptySet
  <2>5. \A p : 0 <= Windows(p)
    BY DEF Windows
  <2> QED BY <2>1, <2>2, <2>3, <2>4, <2>5 DEF SpentInv
<1>7. RoundsInv
  BY <1>1 DEF RoundsInv, ReadLimit, MaxReadRounds, MaxPathReadRounds
<1> QED BY <1>2, <1>4, <1>5, <1>6, <1>7 DEF BudgetInv

\* Where the observations stand, what they spent stands too.
LEMMA SpentStands ==
  ASSUME UNCHANGED <<mode, observations>>
  PROVE  /\ ObservationsInv => ObservationsInv'
         /\ SpentInv => SpentInv'
         /\ Fits(policy) /\ policy' = policy => Fits(policy)'
<1>1. /\ \A p : Windows(p)' = Windows(p)
      /\ \A kind : Executed(kind)' = Executed(kind)
  BY DEF Windows, Executed
<1> QED BY <1>1 DEF ObservationsInv, SpentInv, Fits

LEMMA BeginTurnBudget ==
  ASSUME BatchInv, BudgetInv, BeginTurn
  PROVE  BudgetInv'
<1>1. /\ UNCHANGED <<mode, observations, readRounds, calls, queued, active, results, readTurns>>
      /\ calls = << >> /\ phase' \in {"asked", "closing"}
      /\ phase' = "asked" => policy' = TurnPolicy
      /\ active = {}
  BY DEF BeginTurn, Leave, batchVars, history, BatchInv
<1>2. CallsInv'
  <2>1. DOMAIN calls = {}
    BY <1>1
  <2> QED BY <1>1, <2>1 DEF CallsInv, BudgetInv
<1>3. ObservationsInv' /\ SpentInv'
  BY <1>1, SpentStands DEF BudgetInv
<1>4. ASSUME phase' = "asked", mode # "free"
      PROVE  Fits(policy)' /\ (mode \in {"locate", "trace", "path", "anchored"} /\ "read" \in policy'.tools =>
                                 readRounds < ReadLimit)
  <2>1. /\ Fits(TurnPolicy)
        /\ mode \in {"locate", "trace", "path", "anchored"} /\ "read" \in TurnPolicy.tools =>
             readRounds < ReadLimit
    BY <1>4, TurnFits DEF BudgetInv, RoundsInv
  <2>2. PICK offer : offer = TurnPolicy
    OBVIOUS
  <2>3. /\ \A p : Windows(p)' = Windows(p)
        /\ \A kind : Executed(kind)' = Executed(kind)
    BY <1>1 DEF Windows, Executed
  <2>4. policy' = offer
    BY <1>1, <1>4, <2>2
  <2> QED BY <1>1, <2>1, <2>2, <2>3, <2>4 DEF Fits
<1>5. OfferInv' /\ RoundsInv'
  <2>1. ReadLimit' = ReadLimit
    BY <1>1 DEF ReadLimit
  <2> QED BY <1>1, <1>4, <2>1 DEF OfferInv, RoundsInv, BudgetInv
<1> QED BY <1>2, <1>3, <1>5 DEF BudgetInv

LEMMA CallsNameTools ==
  ASSUME NEW c \in PossibleCalls
  PROVE  c.tool \in Tools
<1>1. \/ c \in UNION {{Call(t, NoPath, TRUE, g) : g \in Parses} : t \in SearchTools}
      \/ c \in UNION {{Call("read", p, w, TRUE) : w \in Ranges(p)} : p \in ReadChoices}
  BY DEF PossibleCalls
<1>2. SearchTools \subseteq Tools /\ "read" \in Tools
  BY DEF SearchTools, Tools
<1>3. CASE c \in UNION {{Call(t, NoPath, TRUE, g) : g \in Parses} : t \in SearchTools}
  <2>1. PICK t \in SearchTools : c \in {Call(t, NoPath, TRUE, g) : g \in Parses}
    BY <1>3
  <2>2. PICK g \in Parses : c = Call(t, NoPath, TRUE, g)
    BY <2>1
  <2> QED BY <1>2, <2>2 DEF Call
<1>4. CASE c \in UNION {{Call("read", p, w, TRUE) : w \in Ranges(p)} : p \in ReadChoices}
  <2>1. PICK p \in ReadChoices : c \in {Call("read", p, w, TRUE) : w \in Ranges(p)}
    BY <1>4
  <2>2. PICK w \in Ranges(p) : c = Call("read", p, w, TRUE)
    BY <2>1
  <2> QED BY <1>2, <2>2 DEF Call
<1> QED BY <1>1, <1>3, <1>4

LEMMA ToolReplyBudget ==
  ASSUME BatchInv, BudgetInv, NEW reply \in Replies, ToolReply(reply)
  PROVE  BudgetInv'
<1>1. /\ UNCHANGED <<mode, observations, readTurns, policy>>
      /\ phase = "asked" /\ phase' = "batch"
      /\ calls' = reply /\ queued' = DOMAIN reply /\ active' = {}
      /\ readRounds' = readRounds +
           IF CountsReads /\ \E i \in DOMAIN reply : reply[i].tool = "read" THEN 1 ELSE 0
  BY DEF ToolReply
<1>2. PICK n \in Nat : /\ DOMAIN reply = 1 .. n /\ Len(reply) = n /\ reply \in [1 .. n -> PossibleCalls]
                       /\ ~policy.parallelToolCalls => n <= 1
  BY TurnLoopAssumption DEF Replies
<1>3. CallsInv'
  <2>1. \A c \in PossibleCalls : c.tool \in Tools
    BY CallsNameTools
  <2>2. ~policy.parallelToolCalls => \A i, j \in DOMAIN reply : i = j
    <3>1. n <= 1 => \A i, j \in 1 .. n : i = j
      OBVIOUS
    <3> QED BY <1>2, <3>1
  <2>3. \A i \in DOMAIN reply : reply[i].tool \in Tools
    BY <1>2, <2>1
  <2> QED BY <1>1, <1>2, <2>2, <2>3 DEF CallsInv
<1>4. ObservationsInv' /\ SpentInv' /\ OfferInv'
  BY <1>1, SpentStands DEF BudgetInv, OfferInv
<1>5. RoundsInv'
  <2>1. ReadLimit' = ReadLimit /\ ReadLimit \in Nat
    BY <1>1 DEF ReadLimit, MaxReadRounds, MaxPathReadRounds
  <2>2. mode \in {"locate", "trace", "path", "anchored"} => CountsReads
    BY DEF CountsReads
  <2>3. readTurns \in Nat /\ readRounds \in Nat /\ readRounds' \in Nat /\ readRounds <= readRounds'
    BY <1>1 DEF BudgetInv, RoundsInv
  <2> SUFFICES ASSUME mode \in {"locate", "trace", "path", "anchored"}
               PROVE  /\ readTurns <= readRounds' /\ readTurns <= ReadLimit
                      /\ (\E i \in DOMAIN reply : reply[i].tool = "read") =>
                           readTurns < readRounds' /\ ("read" \in policy.tools => readRounds' <= ReadLimit)
    BY <1>1, <2>1, <2>3 DEF RoundsInv
  <2>4. readTurns <= readRounds /\ readTurns <= ReadLimit
        /\ ("read" \in policy.tools => readRounds < ReadLimit)
    BY <1>1 DEF BudgetInv, RoundsInv
  <2>5. (\E i \in DOMAIN reply : reply[i].tool = "read") => readRounds' = readRounds + 1
    BY <1>1, <2>2
  <2> QED BY <2>1, <2>3, <2>4, <2>5
<1> QED BY <1>3, <1>4, <1>5 DEF BudgetInv

\* A worker is idle or has an offered call.
LEMMA StartCallBudget ==
  ASSUME BatchInv, BudgetInv, StartCall
  PROVE  BudgetInv'
<1>0. PICK i : i = NextCall
  OBVIOUS
<1>1. /\ i \in queued /\ i \in DOMAIN calls /\ queued' = queued \ {i}
      /\ UNCHANGED <<phase, mode, observations, readRounds, readTurns, policy, calls>>
  BY <1>0, NextIsFirst DEF StartCall, MayStart, loopVars, history
<1>2. /\ DOMAIN results = DOMAIN calls /\ i \notin active
  BY <1>1 DEF BatchInv
<1>3. CallsInv'
  <2>1. \A c : Outcomes(c)' = Outcomes(c)
    BY <1>1 DEF Outcomes, Target
  <2>2. CASE Rejected(calls[i])
    <3>1. results' = [results EXCEPT ![i] = Refused] /\ active' = active
      BY <1>0, <2>2 DEF StartCall, Refused
    <3>2. \A j \in DOMAIN calls \ (queued' \cup active') :
            results'[j] = Refused \/ (j \in DOMAIN calls \ (queued \cup active) /\ results'[j] = results[j])
      BY <1>1, <1>2, <3>1
    <3>3. Refused' = Refused
      BY DEF Refused, Result
    <3> QED BY <1>1, <2>1, <3>1, <3>2, <3>3 DEF CallsInv, BudgetInv
  <2>3. CASE ~Rejected(calls[i])
    <3>1. results' = results /\ active' = active \cup {i}
      BY <1>0, <2>3 DEF StartCall
    <3>2. calls[i].tool \in policy.tools
      BY <2>3 DEF Rejected
    <3>3. DOMAIN calls \ (queued' \cup active') = DOMAIN calls \ (queued \cup active)
      BY <1>1, <3>1
    <3>4. Refused' = Refused
      BY DEF Refused, Result
    <3> QED BY <1>1, <2>1, <3>1, <3>2, <3>3, <3>4 DEF CallsInv, BudgetInv
  <2> QED BY <2>2, <2>3
<1>4. ObservationsInv' /\ SpentInv' /\ OfferInv'
  BY <1>1, SpentStands DEF BudgetInv, OfferInv
<1>5. RoundsInv'
  BY <1>1 DEF RoundsInv, ReadLimit, BudgetInv
<1> QED BY <1>3, <1>4, <1>5 DEF BudgetInv

LEMMA FinishCallBudget ==
  ASSUME BatchInv, BudgetInv, NEW i \in active, NEW result \in Outcomes(calls[i]), FinishCall(i, result)
  PROVE  BudgetInv'
<1>1. /\ UNCHANGED <<phase, mode, observations, readRounds, readTurns, policy, calls, queued>>
      /\ active' = active \ {i} /\ results' = [results EXCEPT ![i] = result]
  BY DEF FinishCall, loopVars, history
<1>2. i \in DOMAIN calls /\ DOMAIN results = DOMAIN calls
  BY DEF BatchInv
<1>3. CallsInv'
  <2>1. \A c : Outcomes(c)' = Outcomes(c)
    BY <1>1 DEF Outcomes, Target
  <2>2. \A j \in DOMAIN calls \ (queued' \cup active') :
          \/ j = i /\ results'[j] = result
          \/ j \in DOMAIN calls \ (queued \cup active) /\ results'[j] = results[j]
    BY <1>1, <1>2
  <2>3. Refused' = Refused
    BY DEF Refused, Result
  <2> QED BY <1>1, <2>1, <2>2, <2>3 DEF CallsInv, BudgetInv
<1>4. ObservationsInv' /\ SpentInv' /\ OfferInv'
  BY <1>1, SpentStands DEF BudgetInv, OfferInv
<1>5. RoundsInv'
  BY <1>1 DEF RoundsInv, ReadLimit, BudgetInv
<1> QED BY <1>3, <1>4, <1>5 DEF BudgetInv

LEMMA RecordBatchBudget ==
  ASSUME BatchInv, BudgetInv, RecordBatch
  PROVE  BudgetInv'
<1>1. /\ phase = "batch" /\ BatchDone /\ phase' \in {"head", "closing"}
      /\ observations' = IF mode = "free" THEN observations ELSE Recorded(observations)
      /\ readTurns' = readTurns + IF \E i \in DOMAIN calls : calls[i].tool = "read" /\ Ran(i) THEN 1 ELSE 0
      /\ calls' = << >> /\ active' = {} /\ UNCHANGED <<mode, policy, readRounds>>
  BY DEF RecordBatch, BatchDone, Leave
<1>2. CallsInv' /\ OfferInv'
  <2>1. DOMAIN calls' = {} /\ DOMAIN calls' = 1 .. 0 /\ Len(calls') = 0
    BY <1>1
  <2>2. \E n \in Nat : DOMAIN calls' = 1 .. n /\ Len(calls') = n
    BY <2>1
  <2> QED BY <1>1, <2>1, <2>2 DEF CallsInv, OfferInv
<1>3. RoundsInv'
  <2>1. ReadLimit' = ReadLimit /\ ReadLimit \in Nat /\ readTurns \in Nat /\ readRounds \in Nat
    BY <1>1 DEF ReadLimit, MaxReadRounds, MaxPathReadRounds, BudgetInv, RoundsInv
  <2>2. CASE \E i \in DOMAIN calls : calls[i].tool = "read" /\ Ran(i)
    <3>1. PICK i \in DOMAIN calls : calls[i].tool = "read" /\ Ran(i)
      BY <2>2
    <3>2. results[i] # Refused
      BY <3>1 DEF Ran, Refused, Result
    <3>3. "read" \in policy.tools
      BY <1>1, <3>1, <3>2 DEF BudgetInv, CallsInv, BatchDone
    <3>4. mode \in {"locate", "trace", "path", "anchored"} =>
            readTurns < readRounds /\ readRounds <= ReadLimit
      BY <1>1, <3>1, <3>3 DEF BudgetInv, RoundsInv
    <3>5. readTurns' = readTurns + 1
      BY <1>1, <2>2
    <3>6. phase' # "asked" /\ phase' # "batch"
      BY <1>1
    <3> QED BY <1>1, <2>1, <3>4, <3>5, <3>6 DEF RoundsInv
  <2>3. CASE ~\E i \in DOMAIN calls : calls[i].tool = "read" /\ Ran(i)
    <3>1. readTurns' = readTurns
      BY <1>1, <2>1, <2>3
    <3> QED BY <1>1, <2>1, <3>1 DEF BudgetInv, RoundsInv
  <2> QED BY <2>2, <2>3
<1>4. CASE mode = "free"
  <2>1. ObservationsInv' /\ SpentInv'
    BY <1>1, <1>4, SpentStands DEF BudgetInv
  <2> QED BY <1>2, <1>3, <2>1 DEF BudgetInv
<1>5. CASE mode # "free"
  <2>1. PICK new : new = Recorded(observations)
    OBVIOUS
  <2>2. observations' = new /\ Fits(policy) /\ CallsInv /\ ObservationsInv /\ SpentInv
    BY <1>1, <1>5, <2>1 DEF BudgetInv, OfferInv
  <2>3. PICK from : Adds(new, from)
    BY <1>1, <2>1, <2>2, BatchAdds
  <2>4. ObservationsInv'
    <3>1. \A i \in Of("commit", new) : new[i].paths \subseteq Paths
      <4> SUFFICES ASSUME NEW i \in Of("commit", new) PROVE new[i].paths \subseteq Paths
        OBVIOUS
      <4>1. i \in DOMAIN new /\ new[i].kind = "commit"
        BY DEF Of
      <4>2. CASE i \in DOMAIN observations
        BY <2>2, <2>3, <4>1, <4>2 DEF Adds, ObservationsInv, Of
      <4>3. CASE i \notin DOMAIN observations
        BY <2>3, <4>1, <4>3 DEF Adds, Observation
      <4> QED BY <4>2, <4>3
    <3>2. new \in Seq(ToSet(new))
      BY <2>3 DEF Adds
    <3> QED BY <1>1, <2>2, <3>1, <3>2 DEF ObservationsInv, Of
  <2>5. \A p \in Impl : FullReads(p, new) <= Windows(p)
    BY <1>5, <2>2, <2>3, ReadsSpent
  <2>6. ASSUME NEW kind \in {"grep", "symbol", "commit"}
        PROVE  \/ Cardinality(In(Of(kind, new), new)) <= Executed(kind)
               \/ /\ (IF kind = "commit" THEN "show" ELSE kind) \in policy.tools
                  /\ Cardinality(In(Of(kind, new), new)) <= Executed(kind) + 1
    <3> DEFINE A == In(Of(kind, observations), observations)
               B == In(Of(kind, new), new)
    <3>1. A \in SUBSET DOMAIN observations /\ Executed(kind) = Cardinality(A)
      BY DEF In, Of, Executed
    <3>2. \A i \in B : i \in DOMAIN observations => i \in A
      BY <2>3 DEF In, Of, Adds
    <3> HIDE DEF A
    <3> QED BY <2>2, <2>3, <3>1, <3>2, SearchesSpent
  <2>7. \A kind : Executed(kind)' = Cardinality(In(Of(kind, new), new))
    BY <2>2 DEF Executed, In
  <2>8. \A kind : Executed(kind) \in Nat /\ Executed(kind)' \in Nat
    <3>1. \A kind : In(Of(kind, new), new) \in SUBSET DOMAIN new
      BY DEF In, Of
    <3>2. \A kind : Cardinality(In(Of(kind, new), new)) \in Nat
      BY <2>3, <3>1, Positions DEF Adds
    <3> QED BY <2>2, <2>7, <3>2, Counts
  <2>9. mode \in {"locate", "trace"} => Executed("grep")' <= 1 /\ Executed("symbol")' <= 1
    <3> SUFFICES ASSUME mode \in {"locate", "trace"}
                 PROVE  Executed("grep")' <= 1 /\ Executed("symbol")' <= 1
      OBVIOUS
    <3>1. /\ Executed("grep") <= 1 /\ ("grep" \in policy.tools => Executed("grep") = 0)
          /\ Executed("symbol") <= 1 /\ ("symbol" \in policy.tools => Executed("symbol") = 0)
      BY <1>5, <2>2 DEF SpentInv, Fits
    <3>2. \/ Executed("grep")' <= Executed("grep")
          \/ "grep" \in policy.tools /\ Executed("grep")' <= Executed("grep") + 1
      BY <2>6, <2>7
    <3>3. \/ Executed("symbol")' <= Executed("symbol")
          \/ "symbol" \in policy.tools /\ Executed("symbol")' <= Executed("symbol") + 1
      BY <2>6, <2>7
    <3> QED BY <2>8, <3>1, <3>2, <3>3
  <2>10. mode \in {"impact", "structured", "path", "anchored"} => Executed("grep")' <= 2
    <3> SUFFICES ASSUME mode \in {"impact", "structured", "path", "anchored"}
                 PROVE  Executed("grep")' <= 2
      OBVIOUS
    <3>1. Executed("grep") <= 2 /\ ("grep" \in policy.tools => Executed("grep") <= 1)
      BY <1>5, <2>2 DEF SpentInv, Fits
    <3>2. \/ Executed("grep")' <= Executed("grep")
          \/ "grep" \in policy.tools /\ Executed("grep")' <= Executed("grep") + 1
      BY <2>6, <2>7
    <3> QED BY <2>8, <3>1, <3>2
  <2>11. mode \in {"commit", "metadata"} =>
           Executed("commit")' <= 1 /\ Cardinality(Sources(new)) <= 2
    <3> SUFFICES ASSUME mode \in {"commit", "metadata"}
                 PROVE  Executed("commit")' <= 1 /\ Cardinality(Sources(new)) <= 2
      OBVIOUS
    <3>1. /\ Executed("commit") <= 1 /\ ("show" \in policy.tools => Executed("commit") = 0)
          /\ Cardinality(Sources(observations)) <= 2
      BY <1>5, <2>2 DEF SpentInv, Fits
    <3>2. \/ Executed("commit")' <= Executed("commit")
          \/ "show" \in policy.tools /\ Executed("commit")' <= Executed("commit") + 1
      BY <2>6, <2>7
    <3> QED BY <2>2, <2>3, <2>8, <3>1, <3>2, CommitSpent
  <2>12. mode = "claim" => /\ Cardinality(In(Ahead(new), new)) <= 2
                           /\ Cardinality(In(Counter(new), new)) <= 2
    BY <2>2, <2>3, ClaimSpent
  <2>13. \A p : Windows(p)' = Windows(p)
    BY <1>1 DEF Windows
  <2>14. SpentInv'
    BY <1>1, <2>2, <2>5, <2>9, <2>10, <2>11, <2>12, <2>13 DEF SpentInv
  <2> QED BY <1>2, <1>3, <2>4, <2>14 DEF BudgetInv
<1> QED BY <1>4, <1>5

\* The other steps neither run a tool nor offer one.
LEMMA OthersBudget ==
  ASSUME BatchInv, BudgetInv, UNCHANGED batch,
         UNCHANGED <<mode, observations, readRounds, readTurns>>,
         phase' = phase \/ phase' \notin {"asked", "batch"}
  PROVE  BudgetInv'
<1>1. CallsInv'
  <2>1. \A c : Outcomes(c)' = Outcomes(c)
    BY DEF Outcomes, Target, batch
  <2>2. Refused' = Refused
    BY DEF Refused, Result
  <2> QED BY <2>1, <2>2 DEF CallsInv, BudgetInv, batch
<1>2. ObservationsInv' /\ SpentInv' /\ OfferInv'
  BY SpentStands DEF BudgetInv, OfferInv, batch
<1>3. RoundsInv'
  BY DEF RoundsInv, ReadLimit, BudgetInv, batch
<1> QED BY <1>1, <1>2, <1>3 DEF BudgetInv

LEMMA NextBudget == BatchInv /\ BudgetInv /\ [Next]_vars => BudgetInv'
<1> SUFFICES ASSUME BatchInv, BudgetInv, [Next]_vars PROVE BudgetInv'
  OBVIOUS
<1>1. CASE BeginTurn
  BY <1>1, BeginTurnBudget
<1>2. CASE \E reply \in Replies : ToolReply(reply)
  BY <1>2, ToolReplyBudget
<1>3. CASE StartCall
  BY <1>3, StartCallBudget
<1>4. CASE \E i \in active : \E result \in Outcomes(calls[i]) : FinishCall(i, result)
  BY <1>4, FinishCallBudget
<1>5. CASE RecordBatch
  BY <1>5, RecordBatchBudget
<1>6. CASE TextReply
  <2>1. /\ UNCHANGED batch /\ UNCHANGED <<mode, observations, readRounds, readTurns>>
        /\ phase' \in {"head", "synthesis"}
    BY <1>6 DEF TextReply, batch, batchVars
  <2> QED BY <2>1, OthersBudget
<1>7. CASE TurnLimit \/ RequestFails \/ Commit \/ \E parsed \in BOOLEAN : Synthesized(parsed)
  <2>1. /\ UNCHANGED batch /\ UNCHANGED <<mode, observations, readRounds, readTurns>>
        /\ phase' \in {"synthesis", "repair", "closing", "ended"}
    BY <1>7 DEF TurnLimit, RequestFails, Commit, Synthesized, Leave, batch, batchVars, loopVars, history
  <2> QED BY <2>1, OthersBudget
<1>8. CASE Abort \/ UNCHANGED vars
  <2>1. /\ UNCHANGED batch /\ UNCHANGED <<mode, observations, readRounds, readTurns>> /\ phase' = phase
    BY <1>8 DEF Abort, vars, batch, batchVars, loopVars, history
  <2> QED BY <2>1, OthersBudget
<1> QED BY <1>1, <1>2, <1>3, <1>4, <1>5, <1>6, <1>7, <1>8 DEF Next, Step

LEMMA BudgetFollows == BudgetInv => BudgetsHold
<1> SUFFICES ASSUME BudgetInv PROVE BudgetsHold
  OBVIOUS
<1>1. mode = "claim" => Executed("grep") <= 4
  <2> SUFFICES ASSUME mode = "claim" PROVE Executed("grep") <= 4
    OBVIOUS
  <2> DEFINE A == In(Ahead(observations), observations)
             B == In(Counter(observations), observations)
  <2>1. Cardinality(A) <= 2 /\ Cardinality(B) <= 2
    BY DEF BudgetInv, SpentInv
  <2>2. {i \in Of("grep", observations) : observations[i].full} \subseteq A \cup B
    <3>1. Of("grep", observations) \subseteq Nat /\ Direct(observations) \subseteq Nat
          /\ \A i \in Of("grep", observations), j \in Direct(observations) : i # j
      <4>1. Of("grep", observations) \in SUBSET DOMAIN observations
            /\ Direct(observations) \in SUBSET DOMAIN observations
        BY DEF Of, Direct, Sources
      <4>2. \A i \in Of("grep", observations), j \in Direct(observations) : i # j
        BY DEF Of, Direct, Sources
      <4> QED BY <4>1, <4>2, Positions DEF BudgetInv, ObservationsInv
    <3> QED BY <3>1 DEF In, Ahead, Counter, Greps
  <2>3. A \in SUBSET DOMAIN observations /\ B \in SUBSET DOMAIN observations
    BY DEF In, Ahead, Counter, Greps, Of
  <2> HIDE DEF A, B
  <2>4. IsFiniteSet(A) /\ IsFiniteSet(B) /\ Cardinality(A) \in Nat /\ Cardinality(B) \in Nat
    BY <2>3, Positions DEF BudgetInv, ObservationsInv
  <2>5. /\ IsFiniteSet(A \cup B)
        /\ Cardinality(A \cup B) = Cardinality(A) + Cardinality(B) - Cardinality(A \cap B)
    BY <2>4, FS_Union
  <2>6. Cardinality(A \cap B) \in Nat
    BY <2>4, FS_Intersection, FS_CardinalityType
  <2>7. Executed("grep") <= Cardinality(A \cup B)
    BY <2>2, <2>5, FS_Subset DEF Executed
  <2>8. Executed("grep") \in Nat
    BY Counts DEF BudgetInv
  <2> QED BY <2>1, <2>4, <2>5, <2>6, <2>7, <2>8
<1>2. /\ mode \in {"locate", "trace"} => readTurns <= MaxReadRounds
      /\ mode \in {"path", "anchored"} => readTurns <= MaxPathReadRounds
  BY DEF BudgetInv, RoundsInv, ReadLimit
<1> QED BY <1>1, <1>2 DEF BudgetInv, SpentInv, BudgetsHold

\* Whatever the model asks for and whichever calls fail, a wrapper tool searches
\* and reads within its budget, and reads no window of a file twice (the stages of
\* the bounded tool policies, chosen by what was observed before).
THEOREM BudgetsAreKept == Spec => []BudgetsHold
<1>1. Init => BatchInv /\ BudgetInv
  BY InitBatch, InitBudget
<1>2. BatchInv /\ BudgetInv /\ [Next]_vars => BatchInv' /\ BudgetInv'
  BY NextBatch, NextBudget
<1> QED BY <1>1, <1>2, BudgetFollows, PTL DEF Spec
-----------------------------------------------------------------------------
(* A policy that withdrew the tools.  Calls made in spite of it leave       *)
(* searches that match nothing, and these close what they can still reach.  *)

\* What a policy that withdrew the tools would decide again.
ClosedInv ==
  /\ attempted \in BOOLEAN
  /\ policy.tools = {} =>
       /\ mode # "free"
       /\ phase \in {"head", "asked", "batch"} => TurnPolicy.tools = {}

\* The last of some positions is one of them.
LEMMA LastIsOne ==
  ASSUME NEW seq, seq \in Seq(ToSet(seq)), NEW S \in SUBSET DOMAIN seq, S # {}
  PROVE  Max(S) \in S /\ \A i \in S : i <= Max(S)
<1>1. PICK n \in Nat : DOMAIN seq = 1 .. n
  OBVIOUS
<1> DEFINE T == {k \in Nat : n - k \in S}
<1>2. T # {} /\ T \in SUBSET Nat
  <2>1. PICK i \in S : TRUE
    OBVIOUS
  <2>2. i \in 1 .. n /\ n - (n - i) = i /\ n - i \in Nat
    BY <1>1, <2>1
  <2> QED BY <2>2
<1>3. PICK m \in T : \A k \in T : m <= k
  <2> HIDE DEF T
  <2> QED BY <1>2, LeastNatural
<1>4. n - m \in S /\ \A i \in S : n - m >= i
  <2>1. ASSUME NEW i \in S PROVE n - m >= i
    <3>1. i \in 1 .. n /\ n - (n - i) = i /\ n - i \in Nat
      BY <1>1
    <3>2. m <= n - i /\ m \in Nat
      BY <1>3, <3>1
    <3> QED BY <3>1, <3>2
  <2> QED BY <2>1
<1>5. Max(S) \in S /\ \A i \in S : Max(S) >= i
  BY <1>4 DEF Max
<1>6. \A i \in S : i \in Nat
  BY <1>1
<1> QED BY <1>5, <1>6

\* new is what was observed with refusals behind it.
Refusals(new) ==
  /\ new \in Seq(ToSet(new))
  /\ DOMAIN new = DOMAIN observations \cup Added(observations, new)
  /\ \A i \in DOMAIN observations : new[i] = observations[i]
  /\ \A i \in DOMAIN observations, k \in Added(observations, new) : i < k /\ ~(k < i)
  /\ \A k \in Added(observations, new) :
       new[k] = Observation("grep", {}, FALSE) \/ new[k] = Observation("symbol", {}, FALSE)

LEMMA NoRefusal ==
  ASSUME ObservationsInv
  PROVE  Refusals(observations)
BY DEF ObservationsInv, Refusals, Added

LEMMA RefusalsLeft ==
  ASSUME BatchInv, CallsInv, BatchDone, ObservationsInv, policy.tools = {}
  PROVE  Refusals(Recorded(observations)) /\ \A i \in DOMAIN calls : ~Ran(i)
<1>1. PICK from : Adds(Recorded(observations), from)
  BY BatchAdds
<1>2. Refusals(Recorded(observations))
  BY <1>1 DEF Adds, Refusals
<1>3. ASSUME NEW i \in DOMAIN calls PROVE ~Ran(i)
  <2>1. results[i] = Refused
    BY DEF CallsInv, BatchDone
  <2> QED BY <2>1 DEF Ran, Refused, Result
<1> QED BY <1>2, <1>3

\* Nothing that a policy weighs is lost or gained.
LEMMA Weighed ==
  ASSUME ObservationsInv, NEW new, Refusals(new)
  PROVE  /\ Sources(new) = Sources(observations) /\ Direct(new) = Direct(observations)
         /\ Of("commit", new) = Of("commit", observations)
         /\ ReadPaths(new) = ReadPaths(observations) /\ PathsOf(new) = PathsOf(observations)
         /\ \A p : FullReads(p, new) = FullReads(p, observations)
         /\ \A S : Unread(S, new) = Unread(S, observations)
         /\ \A S : StrongestUnread(S, new) = StrongestUnread(S, observations)
         /\ \A S \in SUBSET DOMAIN observations :
              /\ PathsAt(S, new) = PathsAt(S, observations)
              /\ S # {} => LastPaths(S, new) = LastPaths(S, observations)
         /\ \A kind : {i \in Of(kind, new) : new[i].full}
                      = {i \in Of(kind, observations) : observations[i].full}
<1>1. \A k \in Added(observations, new) : /\ new[k].kind \in {"grep", "symbol"}
                                          /\ new[k].paths = {} /\ new[k].full = FALSE
  BY DEF Refusals, Observation
<1>2. \A i \in DOMAIN new : \/ i \in DOMAIN observations /\ new[i] = observations[i]
                            \/ i \in Added(observations, new)
  BY DEF Refusals
<1>3. \A i \in DOMAIN observations : i \in DOMAIN new /\ new[i] = observations[i]
  BY DEF Refusals
<1>4. \A kind : kind \notin {"grep", "symbol"} => Of(kind, new) = Of(kind, observations)
  BY <1>1, <1>2, <1>3 DEF Of
<1>5. Sources(new) = Sources(observations) /\ Of("commit", new) = Of("commit", observations)
  BY <1>4 DEF Sources
<1>6. Sources(observations) \in SUBSET DOMAIN observations
  BY DEF Sources, Of
<1>7. Direct(new) = Direct(observations)
  BY <1>3, <1>5, <1>6 DEF Direct
<1>8. \A S \in SUBSET DOMAIN observations : PathsAt(S, new) = PathsAt(S, observations)
  BY <1>3 DEF PathsAt
<1>9. ReadPaths(new) = ReadPaths(observations)
  BY <1>5, <1>6, <1>8 DEF ReadPaths
<1>10. PathsOf(new) = PathsOf(observations)
  BY <1>1, <1>2, <1>3 DEF PathsOf, PathsAt
<1>11. \A p : FullReads(p, new) = FullReads(p, observations)
  <2> SUFFICES ASSUME NEW p PROVE FullReads(p, new) = FullReads(p, observations)
    OBVIOUS
  <2>1. {i \in DOMAIN new : new[i].kind = "source" /\ new[i].full /\ p \in new[i].paths}
        = {i \in DOMAIN observations : observations[i].kind = "source" /\ observations[i].full
                                       /\ p \in observations[i].paths}
    BY <1>1, <1>2, <1>3
  <2> QED BY <2>1 DEF FullReads
<1>12. \A S : Unread(S, new) = Unread(S, observations)
  BY <1>11 DEF Unread
<1>13. \A S : StrongestUnread(S, new) = StrongestUnread(S, observations)
  <2> SUFFICES ASSUME NEW S PROVE StrongestUnread(S, new) = StrongestUnread(S, observations)
    OBVIOUS
  <2>1. {p \in S \cap Impl : FullReads(p, new) < IF p \in Spread THEN 2 ELSE 1}
        = {p \in S \cap Impl : FullReads(p, observations) < IF p \in Spread THEN 2 ELSE 1}
    BY <1>11
  <2> QED BY <2>1 DEF StrongestUnread
<1>14. ASSUME NEW S \in SUBSET DOMAIN observations, S # {}
       PROVE  LastPaths(S, new) = LastPaths(S, observations)
  <2>1. Max(S) \in DOMAIN observations
    BY <1>14, LastIsOne DEF ObservationsInv
  <2> QED BY <1>3, <2>1 DEF LastPaths
<1>15. \A kind : {i \in Of(kind, new) : new[i].full} = {i \in Of(kind, observations) : observations[i].full}
  BY <1>1, <1>2, <1>3 DEF Of
<1> QED BY <1>5, <1>7, <1>8, <1>9, <1>10, <1>11, <1>12, <1>13, <1>14, <1>15

\* A search that was refused is the last one, and matched nothing.
LEMMA LastRefused ==
  ASSUME ObservationsInv, NEW new, Refusals(new),
         NEW A \in SUBSET Greps(observations), NEW B \in SUBSET Greps(new),
         A \subseteq B, \A i \in B : i \in DOMAIN observations => i \in A
  PROVE  \/ A = B
         \/ /\ B # {} /\ LastPaths(B, new) = {}
            /\ A # {} => Cardinality(B) > 1
<1>1. A \subseteq DOMAIN observations /\ B \in SUBSET DOMAIN new /\ new \in Seq(ToSet(new))
  BY DEF Greps, Of, Refusals
<1>2. SUFFICES ASSUME A # B PROVE B # {} /\ LastPaths(B, new) = {} /\ (A # {} => Cardinality(B) > 1)
  OBVIOUS
<1>3. PICK k \in B : k \notin A
  BY <1>2
<1>4. k \in Added(observations, new)
  BY <1>1, <1>3 DEF Refusals
<1>5. Max(B) \in B /\ \A i \in B : i <= Max(B)
  BY <1>1, <1>3, LastIsOne
<1>6. Max(B) \in Added(observations, new)
  <2> SUFFICES ASSUME Max(B) \in DOMAIN observations PROVE FALSE
    BY <1>1, <1>5 DEF Refusals
  <2>1. Max(B) < k /\ k <= Max(B)
    BY <1>4, <1>5 DEF Refusals
  <2>2. Max(B) \in Nat /\ k \in Nat
    BY <1>1, <1>5, Positions
  <2> QED BY <2>1, <2>2
<1>7. LastPaths(B, new) = {}
  BY <1>6 DEF Refusals, Observation, LastPaths
<1>8. ASSUME A # {} PROVE Cardinality(B) > 1
  <2>1. PICK i : i \in A /\ i \in B
    BY <1>8
  <2>2. Cardinality(B) \in Nat /\ Cardinality(B) # 0 /\ IsFiniteSet(B)
    BY <1>1, <1>3, Positions
  <2>3. Cardinality(B) # 1
    BY <1>3, <2>1, <2>2, FS_Singleton
  <2> QED BY <2>2, <2>3
<1> QED BY <1>3, <1>7, <1>8

LEMMA OpenPolicies ==
  /\ \A tool, key : Search(tool, key).tools # {}
  /\ \A tool, key, S : SearchWithin(tool, key, S).tools # {}
  /\ \A S, key : ReadEach(S, key).tools # {} /\ ReadRanges(S, key).tools # {} /\ ReadOne(S, key).tools # {}
  /\ \A why : Finalize(why).tools = {}
  /\ FreePolicy.tools # {}
BY DEF Search, SearchWithin, ReadEach, ReadRanges, ReadOne, Finalize, FreePolicy, Policy, Tools

\* The searches of the new observations: those of the old ones, or one that was
\* refused as the last.
LEMMA SearchesStay ==
  ASSUME ObservationsInv, NEW new, Refusals(new)
  PROVE  /\ \/ Greps(new) = Greps(observations)
            \/ /\ Greps(new) # {} /\ LastPaths(Greps(new), new) = {}
               /\ Greps(observations) # {} => Cardinality(Greps(new)) > 1
         /\ Greps(observations) # {} =>
              LastPaths(Greps(observations), new) = LastPaths(Greps(observations), observations)
<1>1. Greps(observations) \in SUBSET DOMAIN observations
  BY DEF Greps, Of
<1>2. Greps(observations) \subseteq Greps(new) /\ \A i \in Greps(new) : i \in DOMAIN observations => i \in Greps(observations)
  BY DEF Refusals, Greps, Of
<1> QED BY <1>1, <1>2, LastRefused, Weighed

LEMMA LocateStays ==
  ASSUME ObservationsInv, NEW new, Refusals(new), NEW r \in Nat, NEW rr \in Nat, r <= rr,
         LocatePolicy(observations, r).tools = {}
  PROVE  LocatePolicy(new, rr).tools = {}
<1> DEFINE Closed(seq, n) ==
             /\ Greps(seq) # {}
             /\ \/ LastPaths(Greps(seq), seq) = {}
                \/ RankedCandidates(seq, 1, 1) \ ReadPaths(seq) = {}
                \/ n >= MaxReadRounds
<1>1. ASSUME NEW seq, NEW n PROVE LocatePolicy(seq, n).tools = {} <=> Closed(seq, n)
  BY OpenPolicies DEF LocatePolicy
<1>2. Closed(observations, r)
  BY <1>1
<1>3. RankedCandidates(new, 1, 1) \ ReadPaths(new) = RankedCandidates(observations, 1, 1) \ ReadPaths(observations)
  BY Weighed DEF RankedCandidates
<1>4. r >= MaxReadRounds => rr >= MaxReadRounds
  BY DEF MaxReadRounds
<1>5. Closed(new, rr)
  BY <1>2, <1>3, <1>4, SearchesStay
<1> HIDE DEF Closed
<1> QED BY <1>1, <1>5

LEMMA TraceStays ==
  ASSUME ObservationsInv, NEW new, Refusals(new), NEW r \in Nat, NEW rr \in Nat, r <= rr,
         TracePolicy(observations, r).tools = {}
  PROVE  TracePolicy(new, rr).tools = {}
<1> DEFINE Closed(definitions, usages, last, unread, n) ==
             /\ definitions # {} /\ usages # {}
             /\ last = {} \/ unread = {} \/ n >= MaxReadRounds
           definitions(seq) == {i \in Of("symbol", seq) : seq[i].full}
           usages(seq) == {i \in Greps(seq) : seq[i].full}
           last(seq) == LastPaths(usages(seq), seq)
<1>1. ASSUME NEW seq, NEW n
      PROVE  TracePolicy(seq, n).tools = {} <=>
               Closed(definitions(seq), usages(seq), last(seq), Unread(last(seq), seq), n)
  BY OpenPolicies DEF TracePolicy
<1>2. definitions(new) = definitions(observations) /\ usages(new) = usages(observations)
      /\ usages(observations) \in SUBSET DOMAIN observations
  <2>1. definitions(new) = definitions(observations)
    BY Weighed
  <2>2. usages(new) = usages(observations)
    BY Weighed DEF Greps
  <2> QED BY <2>1, <2>2 DEF Greps, Of
<1>3. Closed(definitions(observations), usages(observations), last(observations),
             Unread(last(observations), observations), r)
  BY <1>1
<1>4. last(new) = last(observations)
  <2>1. usages(observations) # {}
    BY <1>3
  <2> HIDE DEF usages
  <2> QED BY <1>2, <2>1, Weighed
<1>5. Unread(last(new), new) = Unread(last(observations), observations)
  BY <1>4, Weighed
<1>6. r >= MaxReadRounds => rr >= MaxReadRounds
  BY DEF MaxReadRounds
<1> HIDE DEF definitions, usages, last
<1>7. Closed(definitions(new), usages(new), last(new), Unread(last(new), new), rr)
  BY <1>2, <1>3, <1>4, <1>5, <1>6
<1> HIDE DEF Closed
<1> QED BY <1>1, <1>7

LEMMA CommitStays ==
  ASSUME ObservationsInv, NEW new, Refusals(new), NEW shown, NEW hunks
  PROVE  ExactCommitPolicy(new, shown, hunks) = ExactCommitPolicy(observations, shown, hunks)
<1>1. Of("commit", new) = Of("commit", observations) /\ Sources(new) = Sources(observations)
  BY Weighed
<1>2. Of("commit", observations) \in SUBSET DOMAIN observations
  BY DEF Of
<1>3. PathsAt(Of("commit", new), new) = PathsAt(Of("commit", observations), observations)
  BY <1>1, <1>2, Weighed
<1> QED BY <1>1, <1>3 DEF ExactCommitPolicy

LEMMA ImpactStays ==
  ASSUME ObservationsInv, NEW new, Refusals(new), NEW r \in Nat, NEW rr \in Nat, r <= rr, NEW fixed,
         ImpactPolicy(observations, r, fixed).tools = {}
  PROVE  ImpactPolicy(new, rr, fixed).tools = {}
<1> DEFINE observed(seq) == ReadPaths(seq) \cap Impl # {}
           several(seq) == Cardinality(Greps(seq)) > 1
           phased(seq) == fixed /\ several(seq) /\ observed(seq)
           candidates(seq) == (RankedCandidates(seq, 3, 1) \ ReadPaths(seq))
                              \ (IF phased(seq) THEN Impl ELSE {})
           more(seq, n) == ~observed(seq) /\ candidates(seq) \cap Impl # {} /\ n < MaxReadRounds
           confirm(seq, n) == /\ ReadSince(seq) /\ ~more(seq, n)
                              /\ Cardinality(Greps(seq)) = 1 /\ ~observed(seq)
           category(seq) == fixed /\ Cardinality(Greps(seq)) = 1 /\ ReadSince(seq)
           finished(seq, n) == /\ ReadSince(seq) /\ ~more(seq, n)
                               /\ candidates(seq) = {} \/ n >= MaxReadRounds
           none(seq) == Greps(seq) # {} /\ LastPaths(Greps(seq), seq) = {}
           first == IF fixed THEN Impl ELSE Paths
           readKey(seq) == IF fixed /\ several(seq) THEN "impact_category_read" ELSE NoKey
           Closed(seq, n) ==
             /\ Greps(seq) # {}
             /\ \/ none(seq)
                \/ ~category(seq) /\ ~confirm(seq, n) /\ (finished(seq, n) \/ candidates(seq) = {})
<1>1. ASSUME NEW seq, NEW n PROVE ImpactPolicy(seq, n, fixed).tools = {} <=> Closed(seq, n)
  <2>1. ImpactPolicy(seq, n, fixed) =
          CASE Greps(seq) = {} -> SearchWithin("grep", NoKey, first)
            [] none(seq) -> Finalize("no candidate")
            [] OTHER ->
                 IF category(seq) THEN SearchWithin("grep", "impact_category_search", Paths \ Impl)
                 ELSE IF confirm(seq, n) THEN Search("grep", NoKey)
                 ELSE IF finished(seq, n) THEN Finalize("done")
                 ELSE IF candidates(seq) = {} THEN Finalize("no candidate")
                 ELSE ReadEach(candidates(seq), readKey(seq))
    BY DEF ImpactPolicy
  <2>2. none(seq) => Greps(seq) # {}
    OBVIOUS
  <2> HIDE DEF none, category, confirm, finished, candidates, first, readKey
  <2>3. CASE Greps(seq) = {}
    BY <2>1, <2>2, <2>3, OpenPolicies
  <2>4. CASE Greps(seq) # {} /\ none(seq)
    BY <2>1, <2>4, OpenPolicies
  <2>5. CASE Greps(seq) # {} /\ ~none(seq)
    BY <2>1, <2>5, OpenPolicies
  <2> QED BY <2>3, <2>4, <2>5
<1> HIDE DEF Closed
<1>2. Closed(observations, r)
  BY <1>1
<1>3. ASSUME Greps(new) # Greps(observations) PROVE Closed(new, rr)
  BY <1>3, SearchesStay DEF Closed
<1>4. ASSUME Greps(new) = Greps(observations) PROVE Closed(new, rr)
  <2>1. /\ observed(new) = observed(observations) /\ ReadPaths(new) = ReadPaths(observations)
        /\ RankedCandidates(new, 3, 1) = RankedCandidates(observations, 3, 1)
        /\ ReadSince(new) = ReadSince(observations)
    BY <1>4, Weighed DEF RankedCandidates, ReadSince
  <2>2. candidates(new) = candidates(observations)
    BY <1>4, <2>1
  <2>3. category(new) = category(observations)
    BY <1>4, <2>1
  <2>4. none(observations) => none(new)
    BY <1>4, SearchesStay
  <2>5. /\ r >= MaxReadRounds => rr >= MaxReadRounds
        /\ rr < MaxReadRounds => r < MaxReadRounds
    BY DEF MaxReadRounds
  <2>6. more(new, rr) => more(observations, r)
    BY <2>1, <2>2, <2>5
  <2>7. CASE none(observations)
    BY <1>2, <1>4, <2>4, <2>7 DEF Closed
  <2>8. CASE ~none(observations)
    <3>1. ~category(observations) /\ ~confirm(observations, r)
          /\ (finished(observations, r) \/ candidates(observations) = {})
      BY <1>2, <2>8 DEF Closed
    <3>2. ~more(observations, r)
      BY <3>1
    <3>3. ~more(new, rr)
      BY <2>6, <3>2
    <3>4. ~confirm(new, rr)
      <4> HIDE DEF more
      <4> QED BY <1>4, <2>1, <3>1, <3>2
    <3>5. finished(observations, r) => finished(new, rr)
      <4> HIDE DEF more, candidates
      <4> QED BY <2>1, <2>2, <2>5, <3>3
    <3> HIDE DEF category, confirm, finished, candidates, none
    <3> QED BY <1>2, <1>4, <2>2, <2>3, <3>1, <3>4, <3>5 DEF Closed
  <2> QED BY <2>7, <2>8
<1> QED BY <1>1, <1>3, <1>4

LEMMA PathStays ==
  ASSUME ObservationsInv, NEW new, Refusals(new), NEW r \in Nat, NEW rr \in Nat, r <= rr, NEW known,
         PathPolicy(observations, r, known).tools = {}
  PROVE  PathPolicy(new, rr, known).tools = {}
<1> DEFINE unread(seq) == Unread(LastPaths(Greps(seq), seq), seq) \cap Impl
           readFirst(seq) == {i \in Sources(seq) : \A j \in Greps(seq) : i < j}
           discoveryFirst(seq) == Greps(seq) # {} /\ PathsAt(readFirst(seq), seq) = {}
           endpoints(seq) == IF discoveryFirst(seq) THEN ReadPaths(seq) ELSE {}
           readKey(seq) == IF Cardinality(Greps(seq)) = 1 THEN "path_anchor_reads" ELSE "path_handoff_reads"
           empty(seq) == Greps(seq) = {} /\ Sources(seq) = {}
           none(seq) == Greps(seq) # {} /\ LastPaths(Greps(seq), seq) = {}
           anchors(seq, n) == Greps(seq) # {} /\ unread(seq) # {} /\ n < MaxPathReadRounds
           bounds(seq) == Cardinality(Greps(seq)) = 1 /\ Cardinality(endpoints(seq)) >= EndpointReads
           follows(seq) == HandoffDue(seq, discoveryFirst(seq))
           Closed(seq, n) ==
             IF empty(seq) THEN known /\ n > 0
             ELSE none(seq) \/ (~anchors(seq, n) /\ (bounds(seq) \/ ~follows(seq)))
<1>1. ASSUME NEW seq, NEW n PROVE PathPolicy(seq, n, known).tools = {} <=> Closed(seq, n)
  <2>1. PathPolicy(seq, n, known) =
          CASE empty(seq) ->
                 IF ~known THEN Search("grep", "path_initial_search")
                 ELSE IF n > 0 THEN Finalize("tried")
                 ELSE ReadEach(Known, "path_known_anchor_reads")
            [] none(seq) -> Finalize("no candidate")
            [] OTHER ->
                 IF anchors(seq, n) THEN ReadRanges(unread(seq), readKey(seq))
                 ELSE IF bounds(seq) THEN Finalize("done")
                 ELSE IF follows(seq) THEN Search("grep", "path_handoff_search")
                 ELSE Finalize("done")
    BY DEF PathPolicy
  <2>2. empty(seq) => ~none(seq)
    OBVIOUS
  <2> HIDE DEF empty, none, anchors, bounds, follows, readKey, unread
  <2>3. CASE empty(seq)
    BY <2>1, <2>2, <2>3, OpenPolicies
  <2>4. CASE ~empty(seq) /\ none(seq)
    BY <2>1, <2>4, OpenPolicies
  <2>5. CASE ~empty(seq) /\ ~none(seq)
    BY <2>1, <2>5, OpenPolicies
  <2> QED BY <2>3, <2>4, <2>5
<1> HIDE DEF Closed
<1>2. Closed(observations, r)
  BY <1>1
<1>3. ASSUME Greps(new) # Greps(observations) PROVE Closed(new, rr)
  BY <1>3, SearchesStay DEF Closed
<1>4. ASSUME Greps(new) = Greps(observations) PROVE Closed(new, rr)
  <2>1. /\ Sources(new) = Sources(observations) /\ ReadPaths(new) = ReadPaths(observations)
        /\ readFirst(new) = readFirst(observations)
        /\ Greps(observations) # {} => unread(new) = unread(observations)
    BY <1>4, Weighed, SearchesStay
  <2>2. discoveryFirst(new) = discoveryFirst(observations)
    <3>1. readFirst(observations) \in SUBSET DOMAIN observations
      BY DEF Sources, Of
    <3>2. PathsAt(readFirst(observations), new) = PathsAt(readFirst(observations), observations)
      BY <3>1, Weighed
    <3> HIDE DEF readFirst
    <3> QED BY <1>4, <2>1, <3>2
  <2> HIDE DEF readFirst, discoveryFirst, unread
  <2>3. bounds(new) = bounds(observations) /\ follows(new) = follows(observations)
        /\ empty(new) = empty(observations)
    BY <1>4, <2>1, <2>2 DEF HandoffDue
  <2>4. none(observations) => none(new)
    BY <1>4, SearchesStay
  <2>5. /\ rr < MaxPathReadRounds => r < MaxPathReadRounds
        /\ r > 0 => rr > 0
    BY DEF MaxPathReadRounds
  <2>6. anchors(new, rr) => anchors(observations, r)
    BY <1>4, <2>1, <2>5
  <2> HIDE DEF empty, none, anchors, bounds, follows
  <2> QED BY <1>2, <2>3, <2>4, <2>5, <2>6 DEF Closed
<1> QED BY <1>1, <1>3, <1>4

LEMMA DirectStays ==
  ASSUME ObservationsInv, NEW new, Refusals(new), DirectPolicy(observations).tools = {}
  PROVE  DirectPolicy(new).tools = {}
<1> DEFINE candidate(seq) == Top(PathsOf(seq) \cap Impl, 1)
           last(seq) == LastPaths(Greps(seq), seq)
           Closed(seq) ==
             /\ Greps(seq) # {}
             /\ IF last(seq) # {} THEN candidate(seq) = {} ELSE Cardinality(Greps(seq)) # 1
           first == Policy({"grep", "read"}, FALSE, NoKey, {}, "none", Paths, "open")
<1>1. ASSUME NEW seq PROVE DirectPolicy(seq).tools = {} <=> Closed(seq)
  <2>1. DirectPolicy(seq) =
          CASE Greps(seq) = {} -> first
            [] Greps(seq) # {} /\ last(seq) # {} ->
                 IF candidate(seq) = {} THEN Finalize("no candidate")
                 ELSE ReadOne(candidate(seq), NoKey)
            [] OTHER -> IF Cardinality(Greps(seq)) = 1 THEN Search("grep", NoKey)
                        ELSE Finalize("no candidate")
    BY DEF DirectPolicy
  <2>2. first.tools # {}
    BY DEF Policy
  <2> HIDE DEF first, last, candidate
  <2> QED BY <2>1, <2>2, OpenPolicies
<1> HIDE DEF Closed
<1>2. Closed(observations)
  BY <1>1
<1>3. candidate(new) = candidate(observations)
  BY Weighed
<1>4. CASE Greps(new) = Greps(observations)
  BY <1>1, <1>2, <1>3, <1>4, SearchesStay DEF Closed
<1>5. CASE Greps(new) # Greps(observations)
  <2>1. Greps(new) # {} /\ last(new) = {} /\ Cardinality(Greps(new)) # 1
    BY <1>2, <1>5, SearchesStay DEF Closed
  <2> QED BY <1>1, <2>1 DEF Closed
<1> QED BY <1>4, <1>5

LEMMA ClaimStays ==
  ASSUME ObservationsInv, NEW new, Refusals(new), ClaimPolicy(observations).tools = {}
  PROVE  ClaimPolicy(new).tools = {}
<1> DEFINE before(seq) == {i \in Greps(seq) : seq[i].paths # {} /\ \A j \in Direct(seq) : i < j}
           linkage(seq) == IF Cardinality(Direct(seq)) = 1 /\ before(seq) # {}
                           THEN StrongestUnread(LastPaths(before(seq), seq) \cap PathsAt(Direct(seq), seq), seq)
                           ELSE {}
           last(seq) == LastPaths(Counter(seq), seq)
           exception(seq) == StrongestUnread(last(seq), seq)
           Closed(seq) ==
             IF Direct(seq) = {} THEN DirectPolicy(seq).tools = {}
             ELSE /\ linkage(seq) = {} /\ Counter(seq) # {}
                  /\ IF last(seq) # {} /\ ~ReadSince(seq) THEN exception(seq) = {}
                     ELSE ~(Cardinality(Counter(seq)) = 1 /\ last(seq) = {})
<1>1. ASSUME NEW seq PROVE ClaimPolicy(seq).tools = {} <=> Closed(seq)
  <2>1. ClaimPolicy(seq) =
          IF Direct(seq) = {} THEN DirectPolicy(seq)
          ELSE IF linkage(seq) # {} THEN ReadOne(linkage(seq), "claim_direct_linkage_read")
          ELSE IF Counter(seq) = {} THEN Search("grep", NoKey)
          ELSE IF last(seq) # {} /\ ~ReadSince(seq)
          THEN IF exception(seq) = {} THEN Finalize("done") ELSE ReadOne(exception(seq), NoKey)
          ELSE IF Cardinality(Counter(seq)) = 1 /\ last(seq) = {} THEN Search("grep", NoKey)
          ELSE Finalize("done")
    BY DEF ClaimPolicy, Counter
  <2> HIDE DEF linkage, last, exception
  <2> QED BY <2>1, OpenPolicies
<1> HIDE DEF Closed
<1>2. Closed(observations)
  BY <1>1
<1>3. CASE Direct(observations) = {}
  <2>1. Direct(new) = {}
    BY <1>3, Weighed
  <2>2. DirectPolicy(new).tools = {}
    BY <1>2, <1>3, DirectStays DEF Closed
  <2> QED BY <1>1, <2>1, <2>2 DEF Closed
<1>4. CASE Direct(observations) # {}
  <2>1. /\ Direct(new) = Direct(observations) /\ Direct(observations) \in SUBSET DOMAIN observations
        /\ Sources(new) = Sources(observations)
    BY Weighed DEF Direct, Sources, Of
  <2>2. PICK d : d \in Direct(observations)
    BY <1>4
  <2>3. /\ \A i \in Greps(observations) : i \in DOMAIN observations /\ i \in Greps(new) /\ new[i] = observations[i]
        /\ \A i \in Greps(new) : \/ i \in Greps(observations)
                                 \/ i \in Added(observations, new) /\ i \notin DOMAIN observations
    BY DEF Refusals, Greps, Of, Added
  <2>4. before(new) = before(observations) /\ before(observations) \in SUBSET DOMAIN observations
    <3>1. before(observations) \subseteq before(new)
      BY <2>1, <2>3
    <3>2. \A i \in Added(observations, new) : ~(i < d)
      BY <2>1, <2>2 DEF Refusals
    <3>3. before(new) \subseteq before(observations)
      <4> SUFFICES ASSUME NEW i \in before(new) PROVE i \in before(observations)
        OBVIOUS
      <4>1. i \in Greps(new) /\ i < d
        BY <2>1, <2>2
      <4>2. i \in Greps(observations)
        BY <2>3, <3>2, <4>1
      <4> QED BY <2>1, <2>3, <4>2
    <3>4. before(observations) \in SUBSET DOMAIN observations
      BY <2>3
    <3> HIDE DEF before
    <3> QED BY <3>1, <3>3, <3>4
  <2>5. linkage(new) = linkage(observations)
    <3> HIDE DEF before
    <3> QED BY <2>1, <2>4, Weighed
  <2>6. /\ Counter(observations) \in SUBSET Greps(observations) /\ Counter(new) \in SUBSET Greps(new)
        /\ Counter(observations) \subseteq Counter(new)
        /\ \A i \in Counter(new) : i \in DOMAIN observations => i \in Counter(observations)
    <3>1. Counter(observations) \subseteq Counter(new)
      BY <2>1, <2>3 DEF Counter
    <3>2. \A i \in Counter(new) : i \in DOMAIN observations => i \in Counter(observations)
      BY <2>1, <2>3 DEF Counter
    <3> QED BY <3>1, <3>2 DEF Counter
  <2>7. linkage(observations) = {} /\ Counter(observations) # {}
        /\ IF last(observations) # {} /\ ~ReadSince(observations) THEN exception(observations) = {}
           ELSE ~(Cardinality(Counter(observations)) = 1 /\ last(observations) = {})
    BY <1>2, <1>4 DEF Closed
  <2>8. CASE Counter(new) = Counter(observations)
    <3>1. last(new) = last(observations)
      <4>1. Counter(observations) \in SUBSET DOMAIN observations
        BY <2>3, <2>6
      <4> QED BY <2>7, <2>8, <4>1, Weighed
    <3>2. exception(new) = exception(observations)
      <4> HIDE DEF last
      <4> QED BY <3>1, Weighed
    <3>3. ReadSince(new) = ReadSince(observations)
      <4>1. ASSUME NEW i \in Sources(observations)
            PROVE  (\A j \in Greps(new) : j < i) <=> (\A j \in Greps(observations) : j < i)
        <5>1. ASSUME NEW j \in Greps(new), j \notin Greps(observations) PROVE FALSE
          <6>1. j \in Added(observations, new)
            BY <2>3, <5>1
          <6>2. d < j
            BY <2>1, <2>2, <6>1 DEF Refusals
          <6>3. j \in Counter(new)
            BY <2>1, <2>2, <6>2 DEF Counter
          <6> QED BY <2>6, <2>8, <5>1, <6>3
        <5> QED BY <2>3, <5>1
      <4> QED BY <2>1, <4>1 DEF ReadSince
    <3> HIDE DEF linkage, last, exception
    <3>4. Closed(new)
      BY <1>4, <2>1, <2>5, <2>7, <2>8, <3>1, <3>2, <3>3 DEF Closed
    <3> QED BY <1>1, <3>4
  <2>9. CASE Counter(new) # Counter(observations)
    <3>1. Counter(new) # {} /\ last(new) = {} /\ Cardinality(Counter(new)) > 1
      BY <2>6, <2>7, <2>9, LastRefused
    <3>2. Cardinality(Counter(new)) # 1
      BY <3>1
    <3> HIDE DEF linkage, last, exception
    <3>3. Closed(new)
      BY <1>4, <2>1, <2>5, <2>7, <3>1, <3>2 DEF Closed
    <3> QED BY <1>1, <3>3
  <2> QED BY <2>8, <2>9
<1> QED BY <1>3, <1>4

LEMMA TurnStays ==
  ASSUME ObservationsInv, NEW new, Refusals(new), observations' = new,
         readRounds \in Nat, readRounds' \in Nat, readRounds <= readRounds',
         UNCHANGED <<mode, attempted>>, TurnPolicy.tools = {}
  PROVE  TurnPolicy'.tools = {}
<1>1. CASE mode = "locate"
  <2>1. TurnPolicy = LocatePolicy(observations, readRounds) /\ TurnPolicy' = LocatePolicy(new, readRounds')
    BY <1>1 DEF TurnPolicy
  <2> QED BY <2>1, LocateStays
<1>2. CASE mode = "trace"
  <2>1. TurnPolicy = TracePolicy(observations, readRounds) /\ TurnPolicy' = TracePolicy(new, readRounds')
    BY <1>2 DEF TurnPolicy
  <2> QED BY <2>1, TraceStays
<1>3. CASE mode \in {"impact", "structured"}
  <2>1. \E fixed : /\ TurnPolicy = ImpactPolicy(observations, readRounds, fixed)
                   /\ TurnPolicy' = ImpactPolicy(new, readRounds', fixed)
    BY <1>3 DEF TurnPolicy
  <2> QED BY <2>1, ImpactStays
<1>4. CASE mode \in {"path", "anchored"}
  <2>1. \E known : /\ TurnPolicy = PathPolicy(observations, readRounds, known)
                   /\ TurnPolicy' = PathPolicy(new, readRounds', known)
    BY <1>4 DEF TurnPolicy
  <2> QED BY <2>1, PathStays
<1>5. CASE mode \in {"commit", "metadata"}
  <2>1. \E shown, hunks : /\ TurnPolicy = ExactCommitPolicy(observations, shown, hunks)
                          /\ TurnPolicy' = ExactCommitPolicy(new, shown, hunks)
    BY <1>5 DEF TurnPolicy
  <2> QED BY <2>1, CommitStays
<1>6. CASE mode = "claim"
  <2>1. TurnPolicy = ClaimPolicy(observations) /\ TurnPolicy' = ClaimPolicy(new)
    BY <1>6 DEF TurnPolicy
  <2> QED BY <2>1, ClaimStays
<1>7. CASE mode \notin AllModes \ {"free"}
  <2>1. TurnPolicy = FreePolicy
    BY <1>7 DEF TurnPolicy, AllModes
  <2> QED BY <2>1, OpenPolicies
<1> QED BY <1>1, <1>2, <1>3, <1>4, <1>5, <1>6, <1>7 DEF AllModes

LEMMA InitClosed == Init => ClosedInv
BY OpenPolicies DEF Init, ClosedInv

LEMMA NextClosed == BatchInv /\ BudgetInv /\ ClosedInv /\ [Next]_vars => ClosedInv'
<1> SUFFICES ASSUME BatchInv, BudgetInv, ClosedInv, [Next]_vars PROVE ClosedInv'
  OBVIOUS
<1>0. ObservationsInv /\ CallsInv /\ readRounds \in Nat
  BY DEF BudgetInv, RoundsInv
<1>1. CASE BeginTurn
  <2>1. /\ UNCHANGED <<mode, observations, readRounds, attempted>> /\ phase' \in {"asked", "closing"}
        /\ phase' = "asked" => policy' = TurnPolicy
        /\ phase' # "asked" => policy' = policy
    BY <1>1 DEF BeginTurn, Leave
  <2>2. TurnPolicy' = TurnPolicy
    BY <2>1 DEF TurnPolicy
  <2>3. mode = "free" => TurnPolicy = FreePolicy
    BY DEF TurnPolicy
  <2> QED BY <2>1, <2>2, <2>3, OpenPolicies DEF ClosedInv
<1>2. CASE \E reply \in Replies : ToolReply(reply)
  <2>1. /\ UNCHANGED <<mode, observations, attempted, policy>> /\ phase = "asked"
        /\ readRounds' \in Nat /\ readRounds <= readRounds'
    BY <1>0, <1>2 DEF ToolReply
  <2>2. policy.tools = {} => TurnPolicy'.tools = {}
    BY <1>0, <2>1, NoRefusal, TurnStays DEF ClosedInv
  <2> QED BY <2>1, <2>2 DEF ClosedInv
<1>3. CASE RecordBatch
  <2>1. /\ UNCHANGED <<mode, readRounds, policy>> /\ phase = "batch" /\ BatchDone
        /\ observations' = IF mode = "free" THEN observations ELSE Recorded(observations)
        /\ attempted' = (attempted \/ \E i \in DOMAIN calls : calls[i].tool = "show" /\ Ran(i))
    BY <1>3 DEF RecordBatch, BatchDone
  <2>3. ASSUME policy.tools = {} PROVE TurnPolicy'.tools = {}
    <3>1. PICK new : new = Recorded(observations)
      OBVIOUS
    <3>2. Refusals(new) /\ \A i \in DOMAIN calls : ~Ran(i)
      BY <1>0, <2>1, <2>3, <3>1, RefusalsLeft
    <3>3. observations' = new /\ TurnPolicy.tools = {}
      BY <2>1, <2>3, <3>1, <3>2 DEF ClosedInv
    <3>5. UNCHANGED attempted
      BY <2>1, <3>2 DEF ClosedInv
    <3>4. readRounds' \in Nat /\ readRounds <= readRounds'
      BY <1>0, <2>1
    <3> QED BY <1>0, <2>1, <3>2, <3>3, <3>4, <3>5, TurnStays
  <2>4. attempted' \in BOOLEAN
    BY <2>1 DEF ClosedInv
  <2> QED BY <2>1, <2>3, <2>4 DEF ClosedInv
<1>4. ASSUME \/ TurnLimit \/ TextReply \/ StartCall
             \/ \E i \in active : \E result \in Outcomes(calls[i]) : FinishCall(i, result)
             \/ \E parsed \in BOOLEAN : Synthesized(parsed)
             \/ RequestFails \/ Commit \/ Abort \/ UNCHANGED vars
      PROVE  ClosedInv'
  <2>1. UNCHANGED <<mode, observations, readRounds, attempted, policy>>
    BY <1>4 DEF TurnLimit, TextReply, StartCall, FinishCall, Synthesized, RequestFails, Commit, Abort,
                vars, loopVars
  <2>2. phase' \in {"head", "asked", "batch"} => phase \in {"head", "asked", "batch"}
    BY <1>4 DEF TurnLimit, TextReply, StartCall, FinishCall, Synthesized, RequestFails, Commit, Abort,
                vars, Leave
  <2>3. TurnPolicy' = TurnPolicy
    BY <2>1 DEF TurnPolicy
  <2> QED BY <2>1, <2>2, <2>3 DEF ClosedInv
<1> QED BY <1>1, <1>2, <1>3, <1>4 DEF Next, Step

\* A policy that withdrew the tools is not asked again before its turn is over, and
\* what it is asked then has not changed.
LEMMA ClosedStays ==
  ClosedInv /\ [Next]_vars => [policy.tools = {} => policy'.tools = {}]_vars
<1> SUFFICES ASSUME ClosedInv, Next, policy.tools = {} PROVE policy'.tools = {}
  OBVIOUS
<1>1. CASE BeginTurn
  BY <1>1 DEF BeginTurn, Leave, ClosedInv
<1>2. CASE ~BeginTurn
  <2>1. policy' = policy
    BY <1>2 DEF Next, Step, TurnLimit, ToolReply, TextReply, StartCall, FinishCall, RecordBatch,
                Synthesized, RequestFails, Commit, Abort, loopVars
  <2> QED BY <2>1
<1> QED BY <1>1, <1>2

\* Tools that a bounded policy has withdrawn are never offered again, although the
\* calls made in spite of it are recorded as searches (allowedTools of the turn and
\* the observations of rejected calls).
THEOREM ToolsStayWithdrawn == Spec => ClosedStaysClosed
<1>1. Init => BatchInv /\ BudgetInv /\ ClosedInv
  BY InitBatch, InitBudget, InitClosed
<1>2. BatchInv /\ BudgetInv /\ ClosedInv /\ [Next]_vars => BatchInv' /\ BudgetInv' /\ ClosedInv'
  BY NextBatch, NextBudget, NextClosed
<1> QED BY <1>1, <1>2, ClosedStays, PTL DEF Spec, ClosedStaysClosed
-----------------------------------------------------------------------------
(* The end.  A turn is a request, a start and a finish of each of its calls *)
(* and the record of what they left.                                        *)

StepsPerTurn == 2 * MaxCalls + 3

\* The steps left in a phase, where n turns have not been recorded, and waiting calls
\* are queued and running ones have not returned.
StepsAt(where, n, waiting, running) ==
  CASE where = "head" -> n * StepsPerTurn + 4
    [] where = "asked" -> n * StepsPerTurn + 3
    [] where = "batch" -> (n - 1) * StepsPerTurn + 5 + 2 * waiting + running
    [] where = "synthesis" -> 3
    [] where = "repair" -> 2
    [] where = "closing" -> 1
    [] OTHER -> 0

\* The steps an exploration can still take, at most.
StepsLeft ==
  StepsAt(phase, MaxTurns[mode] - turn, Cardinality(queued), Cardinality(active))
  + (IF aborted THEN 0 ELSE 1)

\* Every request, reply, tool, repair or abort leaves fewer steps: no reminder,
\* rejected call or warning gives a turn back.
EveryStepComesCloser == [][0 <= StepsLeft' /\ StepsLeft' < StepsLeft]_vars

\* A turn begins only before the limit.
TurnsInv ==
  /\ mode \in Modes /\ turn \in Nat /\ turn <= MaxTurns[mode]
  /\ phase \in {"asked", "batch"} => turn < MaxTurns[mode]
  /\ phase \in {"head", "asked", "batch", "synthesis", "repair", "closing", "ended"}

LEMMA InitTurns == Init => TurnsInv
BY TurnLoopAssumption DEF Init, TurnsInv, TurnLoopAssumption

LEMMA NextTurns == TurnsInv /\ [Next]_vars => TurnsInv'
<1> SUFFICES ASSUME TurnsInv, [Next]_vars PROVE TurnsInv'
  OBVIOUS
<1>1. PICK m \in Nat : m = MaxTurns[mode] /\ turn <= m
  BY TurnLoopAssumption DEF TurnsInv, TurnLoopAssumption
<1>2. mode' = mode
  BY DEF Next, Step, BeginTurn, TurnLimit, ToolReply, TextReply, StartCall, FinishCall, RecordBatch,
         Synthesized, RequestFails, Commit, Abort, vars, loopVars
<1>3. CASE BeginTurn
  BY <1>1, <1>2, <1>3 DEF BeginTurn, Leave, TurnsInv
<1>4. CASE TextReply
  BY <1>1, <1>2, <1>4 DEF TextReply, TurnsInv
<1>5. CASE RecordBatch
  BY <1>1, <1>2, <1>5 DEF RecordBatch, BatchDone, Leave, TurnsInv
<1>6. CASE TurnLimit \/ (\E reply \in Replies : ToolReply(reply)) \/ StartCall
           \/ (\E i \in active : \E result \in Outcomes(calls[i]) : FinishCall(i, result))
           \/ (\E parsed \in BOOLEAN : Synthesized(parsed)) \/ RequestFails \/ Commit
           \/ Abort \/ UNCHANGED vars
  <2>1. /\ turn' = turn
        /\ phase' = phase \/ (phase = "asked" /\ phase' = "batch")
           \/ phase' \in {"synthesis", "repair", "closing", "ended"}
    BY <1>6 DEF TurnLimit, ToolReply, StartCall, FinishCall, Synthesized, RequestFails, Commit, Abort,
                vars, loopVars, Leave
  <2> QED BY <1>1, <1>2, <2>1 DEF TurnsInv
<1> QED BY <1>3, <1>4, <1>5, <1>6 DEF Next, Step

\* One turn less.
LEMMA OneTurnLess ==
  ASSUME NEW n \in Nat
  PROVE  /\ StepsPerTurn \in Nat /\ StepsPerTurn >= 5
         /\ n * StepsPerTurn \in Nat
         /\ n > 0 => /\ (n - 1) * StepsPerTurn \in Nat
                     /\ n * StepsPerTurn = (n - 1) * StepsPerTurn + StepsPerTurn
<1>1. PICK s \in Nat : s = StepsPerTurn /\ s >= 5
  BY TurnLoopAssumption DEF TurnLoopAssumption, StepsPerTurn
<1>2. n * s \in Nat
  OBVIOUS
<1>3. ASSUME n > 0 PROVE (n - 1) * s \in Nat /\ n * s = (n - 1) * s + s
  <2>1. PICK k \in Nat : k = n - 1 /\ n = k + 1
    BY <1>3
  <2>2. (k + 1) * s = k * s + s /\ k * s \in Nat
    OBVIOUS
  <2> QED BY <2>1, <2>2
<1> QED BY <1>1, <1>2, <1>3

\* What the batch still holds.
LEMMA BatchIsFinite ==
  ASSUME BatchInv
  PROVE  /\ IsFiniteSet(queued) /\ IsFiniteSet(active)
         /\ Cardinality(queued) \in Nat /\ Cardinality(active) \in Nat
<1>1. PICK n \in Nat : DOMAIN calls = 1 .. n
  BY DEF BatchInv, QueueInv
<1>2. queued \in SUBSET DOMAIN calls /\ active \in SUBSET DOMAIN calls
  <2>1. PICK k \in Nat \ {0}, m \in Nat : DOMAIN calls = 1 .. m /\ queued = k .. m
    BY DEF BatchInv, QueueInv
  <2> QED BY <2>1 DEF BatchInv
<1>3. IsFiniteSet(queued) /\ IsFiniteSet(active)
  BY <1>1, <1>2, PositionsAreFinite
<1> QED BY <1>3, FS_CardinalityType

\* A reply asks for MaxCalls calls at most.
LEMMA RepliesAreShort ==
  ASSUME NEW reply \in Replies
  PROVE  /\ IsFiniteSet(DOMAIN reply)
         /\ Cardinality(DOMAIN reply) \in Nat /\ Cardinality(DOMAIN reply) <= MaxCalls
<1>1. PICK n \in 0 .. (IF policy.parallelToolCalls THEN MaxCalls ELSE 1) : DOMAIN reply = 1 .. n
  BY DEF Replies
<1>2. n \in Nat /\ n <= MaxCalls
  BY TurnLoopAssumption DEF TurnLoopAssumption
<1> QED BY <1>1, <1>2, PositionsAreFinite

LEMMA StepComesCloser ==
  ASSUME TurnsInv, BatchInv, TurnsInv', BatchInv', Next
  PROVE  StepsLeft \in Nat /\ StepsLeft' \in Nat /\ StepsLeft' < StepsLeft
<1>1. PICK n \in Nat, c \in {0, 1}, q \in Nat, a \in Nat :
        /\ n = MaxTurns[mode] - turn /\ c = IF aborted THEN 0 ELSE 1
        /\ q = Cardinality(queued) /\ a = Cardinality(active)
        /\ phase \in {"asked", "batch"} => n > 0
  BY BatchIsFinite, TurnLoopAssumption DEF TurnsInv, TurnLoopAssumption
<1>2. PICK n1 \in Nat, c1 \in {0, 1}, q1 \in Nat, a1 \in Nat :
        /\ n1 = MaxTurns[mode'] - turn' /\ c1 = IF aborted' THEN 0 ELSE 1
        /\ q1 = Cardinality(queued') /\ a1 = Cardinality(active')
        /\ phase' \in {"asked", "batch"} => n1 > 0
  <2>1. IsFiniteSet(queued') /\ IsFiniteSet(active')
    <3>1. PICK k \in Nat \ {0}, m \in Nat : DOMAIN calls' = 1 .. m /\ queued' = k .. m
      BY DEF BatchInv, QueueInv
    <3>2. queued' \in SUBSET DOMAIN calls' /\ active' \in SUBSET DOMAIN calls'
      BY <3>1 DEF BatchInv
    <3> QED BY <3>1, <3>2, PositionsAreFinite
  <2>2. Cardinality(queued') \in Nat /\ Cardinality(active') \in Nat
    BY <2>1, FS_CardinalityType
  <2>3. MaxTurns[mode'] \in Nat /\ turn' \in Nat /\ turn' <= MaxTurns[mode']
        /\ (phase' \in {"asked", "batch"} => turn' < MaxTurns[mode'])
    BY TurnLoopAssumption DEF TurnsInv, TurnLoopAssumption
  <2> QED BY <2>2, <2>3
<1>3. /\ StepsLeft = StepsAt(phase, n, q, a) + c
      /\ StepsLeft' = StepsAt(phase', n1, q1, a1) + c1
  BY <1>1, <1>2 DEF StepsLeft
<1>4. PICK w \in Nat, s \in Nat, s1 \in Nat :
        w = StepsPerTurn /\ w >= 5 /\ s = n * w /\ s1 = n1 * w
  BY OneTurnLess
<1>5. PICK r \in Int : r = (n - 1) * w /\ (n > 0 => r \in Nat /\ s = r + w)
  BY <1>4, OneTurnLess
<1>6. mode' = mode
  BY DEF Next, Step, BeginTurn, TurnLimit, ToolReply, TextReply, StartCall, FinishCall, RecordBatch,
         Synthesized, RequestFails, Commit, Abort, loopVars
<1>7. /\ turn' = turn => n1 = n /\ s1 = s
      /\ turn' = turn + 1 => n1 = n - 1 /\ s1 = r
  BY <1>1, <1>2, <1>4, <1>5, <1>6, TurnLoopAssumption DEF TurnsInv, TurnLoopAssumption
<1>8. CASE BeginTurn
  <2>1. phase = "head" /\ phase' \in {"asked", "closing"} /\ turn' = turn /\ c1 = c
    BY <1>1, <1>2, <1>8 DEF BeginTurn, Leave
  <2>2. StepsLeft = s + 4 + c
    BY <1>3, <1>4, <2>1 DEF StepsAt
  <2>3. StepsLeft' \in {s + 3 + c, 1 + c}
    BY <1>3, <1>4, <1>7, <2>1 DEF StepsAt
  <2> QED BY <2>2, <2>3
<1>9. CASE TurnLimit
  <2>1. phase = "head" /\ phase' = "synthesis" /\ c1 = c
    BY <1>1, <1>2, <1>9 DEF TurnLimit
  <2> QED BY <1>3, <1>4, <2>1 DEF StepsAt
<1>10. ASSUME NEW reply \in Replies, ToolReply(reply) PROVE 0 <= StepsLeft' /\ StepsLeft' < StepsLeft
  <2>1. phase = "asked" /\ phase' = "batch" /\ turn' = turn /\ c1 = c
    BY <1>1, <1>2, <1>10 DEF ToolReply
  <2>2. queued' = DOMAIN reply /\ active' = {}
    BY <1>10 DEF ToolReply
  <2>3. q1 <= MaxCalls /\ a1 = 0
    BY <1>2, <2>2, RepliesAreShort, FS_EmptySet
  <2>4. w = 2 * MaxCalls + 3 /\ MaxCalls \in Nat
    BY <1>4, TurnLoopAssumption DEF TurnLoopAssumption, StepsPerTurn
  <2>5. StepsLeft = s + 3 + c /\ s = r + w /\ r \in Nat
    BY <1>1, <1>3, <1>4, <1>5, <2>1 DEF StepsAt
  <2>6. StepsLeft' = r + 5 + 2 * q1 + a1 + c
    BY <1>3, <1>4, <1>5, <1>7, <2>1 DEF StepsAt
  <2> QED BY <2>3, <2>4, <2>5, <2>6
<1>11. CASE TextReply
  <2>1. /\ phase = "asked" /\ c1 = c
        /\ phase' = "synthesis" \/ (phase' = "head" /\ turn' = turn + 1)
    BY <1>1, <1>2, <1>11 DEF TextReply
  <2>2. StepsLeft = s + 3 + c /\ s = r + w /\ r \in Nat
    BY <1>1, <1>3, <1>4, <1>5, <2>1 DEF StepsAt
  <2>3. StepsLeft' \in {r + 4 + c, 3 + c}
    BY <1>3, <1>4, <1>7, <2>1 DEF StepsAt
  <2> QED BY <1>4, <2>2, <2>3
<1>12. CASE StartCall
  <2>1. phase = "batch" /\ phase' = "batch" /\ turn' = turn /\ c1 = c
    BY <1>1, <1>2, <1>12 DEF StartCall, loopVars
  <2>2. PICK i : /\ i \in queued /\ queued' = queued \ {i}
                 /\ active' = active \/ active' = active \cup {i}
    BY <1>12, NextIsFirst DEF StartCall, MayStart
  <2>3. q1 = q - 1
    BY <1>1, <1>2, <2>2, BatchIsFinite, FS_RemoveElement
  <2>5. a1 <= a + 1
    <3>1. Cardinality(active \cup {i}) = a \/ Cardinality(active \cup {i}) = a + 1
      BY <1>1, BatchIsFinite, FS_AddElement
    <3>2. a1 = Cardinality(active) \/ a1 = Cardinality(active \cup {i})
      BY Zenon, <1>2, <2>2
    <3> QED BY <1>1, <3>1, <3>2
  <2>4. r \in Nat /\ StepsLeft = r + 5 + 2 * q + a + c /\ StepsLeft' = r + 5 + 2 * q1 + a1 + c
    BY <1>1, <1>3, <1>4, <1>5, <1>7, <2>1 DEF StepsAt
  <2> QED BY <2>3, <2>4, <2>5
<1>13. ASSUME NEW i \in active, NEW result, FinishCall(i, result)
       PROVE  0 <= StepsLeft' /\ StepsLeft' < StepsLeft
  <2>1. phase = "batch" /\ phase' = "batch" /\ turn' = turn /\ c1 = c
    BY <1>1, <1>2, <1>13 DEF FinishCall, loopVars
  <2>2. queued' = queued /\ active' = active \ {i}
    BY <1>13 DEF FinishCall
  <2>3. q1 = q /\ a1 = a - 1
    BY <1>1, <1>2, <1>13, <2>2, BatchIsFinite, FS_RemoveElement
  <2>4. r \in Nat /\ StepsLeft = r + 5 + 2 * q + a + c /\ StepsLeft' = r + 5 + 2 * q1 + a1 + c
    BY <1>1, <1>3, <1>4, <1>5, <1>7, <2>1 DEF StepsAt
  <2> QED BY <2>3, <2>4
<1>14. CASE RecordBatch
  <2>1. /\ phase = "batch" /\ c1 = c
        /\ phase' = "closing" \/ (phase' = "head" /\ turn' = turn + 1)
    BY <1>1, <1>2, <1>14 DEF RecordBatch, BatchDone, Leave
  <2>2. r \in Nat /\ StepsLeft = r + 5 + 2 * q + a + c
    BY <1>1, <1>3, <1>4, <1>5, <2>1 DEF StepsAt
  <2>3. StepsLeft' \in {r + 4 + c, 1 + c}
    BY <1>3, <1>4, <1>7, <2>1 DEF StepsAt
  <2> QED BY <2>2, <2>3
<1>15. CASE RequestFails \/ Commit \/ \E parsed \in BOOLEAN : Synthesized(parsed)
  <2>1. /\ c1 = c
        /\ \/ phase = "asked" /\ phase' = "closing"
           \/ phase = "synthesis" /\ phase' \in {"repair", "closing"}
           \/ phase = "repair" /\ phase' = "closing"
           \/ phase = "closing" /\ phase' = "ended"
    BY <1>1, <1>2, <1>15 DEF RequestFails, Commit, Synthesized, Leave
  <2> QED BY <1>3, <1>4, <2>1 DEF StepsAt
<1>16. CASE Abort
  <2>1. phase' = phase /\ c = 1 /\ c1 = 0 /\ turn' = turn /\ q1 = q /\ a1 = a
    BY <1>1, <1>2, <1>16 DEF Abort, loopVars, batchVars
  <2>2. PICK m \in Nat : m = StepsAt(phase, n, q, a)
    BY <1>1, <1>4, <1>5 DEF StepsAt
  <2> QED BY <1>3, <1>7, <2>1, <2>2
<1>17. StepsLeft \in Int /\ StepsLeft' \in Int
  <2>1. PICK u \in Int : u = (n1 - 1) * w
    OBVIOUS
  <2>2. StepsAt(phase, n, q, a) \in Int
    BY <1>4, <1>5 DEF StepsAt
  <2>3. StepsAt(phase', n1, q1, a1) \in Int
    BY <1>4, <2>1 DEF StepsAt
  <2> QED BY <1>3, <2>2, <2>3
<1>18. 0 <= StepsLeft' /\ StepsLeft' < StepsLeft
  BY <1>8, <1>9, <1>10, <1>11, <1>12, <1>13, <1>14, <1>15, <1>16 DEF Next, Step
<1>19. PICK u \in Int, v \in Int : u = StepsLeft /\ v = StepsLeft'
  BY <1>17
<1> QED BY <1>18, <1>19

\* Whatever the model asks for, whichever calls fail and whenever the caller aborts, an
\* exploration takes at most MaxTurns * (2 * MaxCalls + 3) + 5 steps: what Returns asks
\* for, short of the fairness that makes it take them (the turn loop of runtime.mjs).
THEOREM ExplorationsAreBounded ==
  Spec => [](StepsLeft <= MaxTurns[mode] * StepsPerTurn + 5) /\ EveryStepComesCloser
<1> DEFINE Bounded == StepsLeft <= MaxTurns[mode] * StepsPerTurn + 5
<1>1. Init => TurnsInv /\ BatchInv
  BY InitTurns, InitBatch
<1>2. TurnsInv /\ BatchInv /\ [Next]_vars => TurnsInv' /\ BatchInv'
  BY NextTurns, NextBatch
<1>3. TurnsInv /\ BatchInv /\ [Next]_vars => [0 <= StepsLeft' /\ StepsLeft' < StepsLeft]_vars
  BY <1>2, StepComesCloser
<1>4. Spec => EveryStepComesCloser
  BY <1>1, <1>2, <1>3, PTL DEF Spec, EveryStepComesCloser
<1>5. Init => Bounded
  <2> SUFFICES ASSUME Init PROVE Bounded
    OBVIOUS
  <2>1. /\ phase = "head" /\ turn = 0 /\ ~aborted
        /\ MaxTurns[mode] \in Nat
    BY TurnLoopAssumption DEF Init, TurnLoopAssumption
  <2>2. PICK s \in Nat : s = MaxTurns[mode] * StepsPerTurn
    BY <2>1, OneTurnLess
  <2>3. MaxTurns[mode] - turn = MaxTurns[mode]
    BY <2>1
  <2> QED BY <2>1, <2>2, <2>3 DEF StepsLeft, StepsAt
<1>6. TurnsInv /\ BatchInv /\ Bounded /\ [Next]_vars => Bounded'
  <2> SUFFICES ASSUME TurnsInv, BatchInv, Bounded, [Next]_vars PROVE Bounded'
    OBVIOUS
  <2>1. CASE UNCHANGED vars
    BY <2>1 DEF vars, loopVars, batchVars, StepsLeft
  <2>2. CASE Next
    <3>1. PICK u \in Nat, v \in Nat : u = StepsLeft /\ v = StepsLeft' /\ v < u
      BY <1>2, <2>2, StepComesCloser
    <3>2. mode' = mode
      BY <2>2 DEF Next, Step, BeginTurn, TurnLimit, ToolReply, TextReply, StartCall, FinishCall,
                  RecordBatch, Synthesized, RequestFails, Commit, Abort, loopVars
    <3>3. PICK s \in Nat : s = MaxTurns[mode] * StepsPerTurn
      BY TurnLoopAssumption, OneTurnLess DEF TurnsInv, TurnLoopAssumption
    <3> QED BY <3>1, <3>2, <3>3
  <2> QED BY <2>1, <2>2
<1>7. Spec => []Bounded
  <2> HIDE DEF Bounded
  <2> QED BY <1>1, <1>2, <1>5, <1>6, PTL DEF Spec
<1> QED BY <1>4, <1>7
=============================================================================
