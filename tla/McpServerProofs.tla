-------------------------- MODULE McpServerProofs ---------------------------
(***************************************************************************)
(* The two halves of the server's stdio, each a specification of its own.  *)
(*                                                                         *)
(* McpSession for any number of calls and ids: the controller table is     *)
(* exact, cancellations hit the call they name and output is in order, as  *)
(* long as no client uses an id again before it has read the answer.       *)
(*                                                                         *)
(* StdioFraming for any stream of well-formed frames of one framing: every *)
(* message is dispatched once and in order, and the answer format is the   *)
(* client's, wherever the stream is cut.  For any stream at all: the parse *)
(* loop ends, unless a Content-Length reaches back to the start of the     *)
(* buffer, which stops it for good.                                        *)
(***************************************************************************)
EXTENDS McpSession, StdioFraming, SequenceTheorems, FiniteSetTheorems,
        WellFoundedInduction, TLAPS

\* A server that has just started.
LEMMA InitSession == Init => SessionInv
<1> SUFFICES ASSUME Init PROVE SessionInv
  OBVIOUS
<1>1. TypeOK
  <2>1. ticks \in [Calls -> 0..MaxProgress]
    BY SessionAssumption DEF Init
  <2>2. outbox \in Seq(Chunk) /\ written \in Seq(Chunk)
    BY DEF Init
  <2> QED
    BY <2>1, <2>2 DEF Init, TypeOK
<1>2. /\ \A c \in Calls : phase[c] = "new" /\ id[c] = NoId /\ outcome[c] = "none"
      /\ \A i \in Ids : active[i] = NoCall
      /\ signalled = {} /\ cancels = {} /\ outbox = <<>> /\ written = <<>> /\ writing = FALSE
  BY DEF Init
<1>3. TableIsExact
  BY <1>2, SessionAssumption DEF TableIsExact
<1>4. CancelHitsItsCall /\ Running = {}
  BY <1>2 DEF CancelHitsItsCall, Running
<1>5. AnswersAreDone
  BY <1>2 DEF AnswersAreDone, Sent
<1> QED BY <1>1, <1>2, <1>3, <1>4, <1>5 DEF SessionInv, Alone, Fresh

\* Appending a chunk adds at most the answer it is.
LEMMA SentAppend ==
  ASSUME NEW q \in Seq(Chunk), NEW x \in Chunk, NEW c \in Calls
  PROVE  /\ Append(q, x) \in Seq(Chunk) /\ Append(q, x) # <<>>
         /\ Sent(Append(q, x), c) => Sent(q, c) \/ x = Answer(c)
BY DEF Sent

\* The tail of a queue holds no answer the queue does not hold.
LEMMA SentTail ==
  ASSUME NEW q \in Seq(Chunk), q # <<>>, NEW c \in Calls
  PROVE  /\ Tail(q) \in Seq(Chunk) /\ Head(q) \in Chunk
         /\ Sent(Tail(q), c) => Sent(q, c)
         /\ Head(q) = Answer(c) => Sent(q, c)
BY DEF Sent

\* The chunks a call sends are its own.
LEMMA Chunks ==
  ASSUME NEW c \in Calls
  PROVE  /\ Progress(c) \in Chunk /\ Answer(c) \in Chunk
         /\ \A d \in Calls : Progress(c) # Answer(d) /\ (Answer(c) = Answer(d) => c = d)
BY DEF Progress, Answer, Chunk

\* A new call takes an id that no running call has.
LEMMA CallToolInv ==
  ASSUME SessionInv, NEW c \in Calls, CallTool(c)
  PROVE  SessionInv'
<1>0. TypeOK /\ TableIsExact /\ CancelHitsItsCall /\ AnswersAreDone /\ Alone /\ Fresh
  BY DEF SessionInv
<1>1. PICK i \in Ids \union {NoId} :
        /\ i # NoId => Unused(i)
        /\ id' = [id EXCEPT ![c] = i]
        /\ active' = IF i # NoId THEN [active EXCEPT ![i] = c] ELSE active
  BY DEF CallTool
<1>2. /\ phase[c] = "new" /\ phase' = [phase EXCEPT ![c] = "running"]
      /\ UNCHANGED <<signalled, outcome, ticks, outbox, writing, written, server, cancels>>
  BY DEF CallTool
<1>3. TypeOK'
  BY <1>0, <1>1, <1>2 DEF TypeOK
<1>4. c \notin signalled /\ c \notin cancels /\ outcome[c] = "none"
  BY <1>0, <1>2 DEF CancelHitsItsCall, Fresh
<1>5. i # NoId => \A d \in Running : id[d] # i
  BY <1>0, <1>1 DEF Unused, AnswersAreDone, Running
<1>6. TableIsExact'
  <2> SUFFICES ASSUME NEW j \in Ids, NEW d \in Calls
               PROVE  active'[j] = d <=> id'[d] = j /\ phase'[d] = "running" /\ d \notin signalled'
    BY DEF TableIsExact
  <2>1. active[j] = d <=> id[d] = j /\ phase[d] = "running" /\ d \notin signalled
    BY <1>0 DEF TableIsExact
  <2>2. j # NoId
    BY SessionAssumption
  <2>3. CASE d = c
    BY <1>0, <1>1, <1>2, <1>4, <2>1, <2>2, <2>3 DEF TypeOK
  <2>4. CASE d # c
    BY <1>0, <1>1, <1>2, <1>5, <2>1, <2>2, <2>4 DEF TypeOK, Running
  <2> QED BY <2>3, <2>4
<1>7. CancelHitsItsCall'
  BY <1>0, <1>1, <1>2, <1>4 DEF CancelHitsItsCall, TypeOK
<1>8. AnswersAreDone'
  BY <1>0, <1>2 DEF AnswersAreDone, Sent, TypeOK
<1>9. Alone'
  BY <1>0, <1>1, <1>2, <1>5 DEF Alone, Running, TypeOK
<1>10. Fresh'
  BY <1>0, <1>2 DEF Fresh, TypeOK
<1> QED BY <1>3, <1>6, <1>7, <1>8, <1>9, <1>10 DEF SessionInv

\* An answered-at-once request changes nothing about the calls that run.
LEMMA AnswerAtOnceInv ==
  ASSUME SessionInv, NEW c \in Calls, AnswerAtOnce(c)
  PROVE  SessionInv'
<1>0. TypeOK /\ TableIsExact /\ CancelHitsItsCall /\ AnswersAreDone /\ Alone /\ Fresh
  BY DEF SessionInv
<1>1. PICK i \in Ids : Unused(i) /\ id' = [id EXCEPT ![c] = i]
  BY DEF AnswerAtOnce
<1>2. /\ phase[c] = "new" /\ phase' = [phase EXCEPT ![c] = "done"]
      /\ outbox' = Append(outbox, Answer(c))
      /\ UNCHANGED <<active, signalled, outcome, ticks, writing, written, server, cancels>>
  BY DEF AnswerAtOnce
<1>3. TypeOK'
  BY <1>0, <1>1, <1>2, SentAppend, Chunks DEF TypeOK
<1>4. TableIsExact'
  BY <1>0, <1>1, <1>2 DEF TableIsExact, TypeOK
<1>5. CancelHitsItsCall' /\ Fresh' /\ Alone'
  BY <1>0, <1>1, <1>2 DEF CancelHitsItsCall, Fresh, Alone, Running, TypeOK
<1>6. AnswersAreDone'
  <2>1. ASSUME NEW d \in Calls, Sent(written', d) \/ Sent(outbox', d) PROVE phase'[d] = "done"
    BY <1>0, <1>2, <2>1, SentAppend, Chunks DEF AnswersAreDone, Sent, TypeOK
  <2> QED BY <1>0, <1>2, <2>1, SentAppend, Chunks DEF AnswersAreDone, TypeOK
<1> QED BY <1>3, <1>4, <1>5, <1>6 DEF SessionInv

\* Progress is not an answer.
LEMMA ReportInv ==
  ASSUME SessionInv, NEW c \in Calls, Report(c)
  PROVE  SessionInv'
<1>0. TypeOK /\ TableIsExact /\ CancelHitsItsCall /\ AnswersAreDone /\ Alone /\ Fresh
  BY DEF SessionInv
<1>1. /\ ticks[c] < MaxProgress /\ ticks' = [ticks EXCEPT ![c] = @ + 1]
      /\ outbox' = Append(outbox, Progress(c))
      /\ UNCHANGED <<phase, id, outcome, active, signalled, writing, written, server, cancels>>
  BY DEF Report
<1>2. ticks' \in [Calls -> 0..MaxProgress]
  BY <1>0, <1>1, SessionAssumption DEF TypeOK
<1>3. TypeOK'
  BY <1>0, <1>1, <1>2, SentAppend, Chunks DEF TypeOK
<1>4. TableIsExact' /\ CancelHitsItsCall' /\ Alone' /\ Fresh'
  BY <1>0, <1>1 DEF TableIsExact, CancelHitsItsCall, Alone, Fresh, Running
<1>5. AnswersAreDone'
  <2>1. ASSUME NEW d \in Calls, Sent(written', d) \/ Sent(outbox', d) PROVE phase'[d] = "done"
    BY <1>0, <1>1, <2>1, SentAppend, Chunks DEF AnswersAreDone, Sent, TypeOK
  <2> QED BY <1>0, <1>1, <2>1, SentAppend, Chunks DEF AnswersAreDone, TypeOK
<1> QED BY <1>3, <1>4, <1>5 DEF SessionInv

\* A call is reported as aborted only if its signal was raised.
LEMMA CommitInv ==
  ASSUME SessionInv, NEW c \in Calls, Commit(c)
  PROVE  SessionInv'
<1>0. TypeOK /\ TableIsExact /\ CancelHitsItsCall /\ AnswersAreDone /\ Alone /\ Fresh
  BY DEF SessionInv
<1>1. PICK o \in IF c \in signalled THEN {"aborted"} ELSE {"result", "failed"} :
        outcome' = [outcome EXCEPT ![c] = o]
  BY DEF Commit
<1>2. /\ phase[c] = "running"
      /\ UNCHANGED <<phase, id, ticks, active, signalled, outbox, writing, written, server, cancels>>
  BY DEF Commit
<1>3. TypeOK'
  BY <1>0, <1>1, <1>2 DEF TypeOK
<1>4. TableIsExact' /\ Alone' /\ AnswersAreDone'
  BY <1>0, <1>2 DEF TableIsExact, Alone, Running, AnswersAreDone, Sent
<1>5. CancelHitsItsCall' /\ Fresh'
  BY <1>0, <1>1, <1>2 DEF CancelHitsItsCall, Fresh, TypeOK
<1> QED BY <1>3, <1>4, <1>5 DEF SessionInv

\* The entry a finished call deletes is its own, or nobody's.
LEMMA ReturnInv ==
  ASSUME SessionInv, NEW c \in Calls, Return(c)
  PROVE  SessionInv'
<1>0. TypeOK /\ TableIsExact /\ CancelHitsItsCall /\ AnswersAreDone /\ Alone /\ Fresh
  BY DEF SessionInv
<1>1. /\ phase[c] = "running" /\ phase' = [phase EXCEPT ![c] = "done"]
      /\ active' = IF id[c] # NoId THEN [active EXCEPT ![id[c]] = NoCall] ELSE active
      /\ outbox' = Append(outbox, Answer(c))
      /\ UNCHANGED <<id, outcome, ticks, signalled, writing, written, server, cancels>>
  BY DEF Return, DeleteEntry
<1>2. TypeOK'
  BY <1>0, <1>1, SentAppend, Chunks DEF TypeOK
<1>3. TableIsExact'
  <2> SUFFICES ASSUME NEW j \in Ids, NEW d \in Calls
               PROVE  active'[j] = d <=> id'[d] = j /\ phase'[d] = "running" /\ d \notin signalled'
    BY DEF TableIsExact
  <2>1. active[j] = d <=> id[d] = j /\ phase[d] = "running" /\ d \notin signalled
    BY <1>0 DEF TableIsExact
  <2>2. j # NoId /\ d # NoCall
    BY SessionAssumption
  <2>3. CASE d = c
    BY <1>0, <1>1, <2>1, <2>2, <2>3 DEF TypeOK
  <2>4. CASE d # c
    <3>1. id[d] = j /\ phase[d] = "running" => id[c] # j
      BY <1>0, <1>1, <2>2, <2>4 DEF Alone, Running
    <3> QED BY <1>0, <1>1, <2>1, <2>2, <2>4, <3>1 DEF TypeOK
  <2> QED BY <2>3, <2>4
<1>4. CancelHitsItsCall' /\ Alone' /\ Fresh'
  BY <1>0, <1>1 DEF CancelHitsItsCall, Alone, Fresh, Running, TypeOK
<1>5. AnswersAreDone'
  <2>1. ASSUME NEW d \in Calls, Sent(written', d) \/ Sent(outbox', d) PROVE phase'[d] = "done"
    BY <1>0, <1>1, <2>1, SentAppend, Chunks DEF AnswersAreDone, Sent, TypeOK
  <2> QED BY <1>0, <1>1, <2>1, SentAppend, Chunks DEF AnswersAreDone, TypeOK
<1> QED BY <1>2, <1>3, <1>4, <1>5 DEF SessionInv

\* A cancellation moves the running call of its id from the table to the signalled.
LEMMA CancelInv ==
  ASSUME SessionInv, NEW i \in Ids, Cancel(i)
  PROVE  SessionInv'
<1>0. TypeOK /\ TableIsExact /\ CancelHitsItsCall /\ AnswersAreDone /\ Alone /\ Fresh
  BY DEF SessionInv
<1> DEFINE named == {c \in Calls : phase[c] # "new" /\ id[c] = i /\ ~Sent(written, c)}
<1>1. /\ cancels' = cancels \union named
      /\ UNCHANGED <<phase, id, outcome, ticks, outbox, writing, written, server>>
  BY DEF Cancel, call
<1>2. i # NoId
  BY SessionAssumption
<1>3. CASE active[i] # NoCall
  <2>1. PICK c \in Calls : active[i] = c /\ id[c] = i /\ phase[c] = "running" /\ c \notin signalled
    BY <1>0, <1>3 DEF TypeOK, TableIsExact
  <2>2. signalled' = signalled \union {c} /\ active' = [active EXCEPT ![i] = NoCall]
    BY <1>2, <1>3, <2>1 DEF Cancel, AbortEntry, DeleteEntry
  <2>3. c \in named
    BY <1>0, <2>1 DEF AnswersAreDone
  <2>4. \A d \in Calls : phase[d] = "running" /\ id[d] = i => d = c
    BY <1>0, <1>2, <2>1 DEF Alone, Running
  <2>5. TypeOK'
    BY <1>0, <1>1, <2>2 DEF TypeOK
  <2>6. TableIsExact'
    BY <1>0, <1>1, <2>1, <2>2, <2>4, SessionAssumption DEF TableIsExact, TypeOK
  <2>7. CancelHitsItsCall'
    BY <1>0, <1>1, <2>2, <2>3, <2>4 DEF CancelHitsItsCall
  <2>8. AnswersAreDone' /\ Alone' /\ Fresh'
    BY <1>0, <1>1 DEF AnswersAreDone, Sent, Alone, Running, Fresh
  <2> QED BY <2>5, <2>6, <2>7, <2>8 DEF SessionInv
<1>4. CASE active[i] = NoCall
  <2>1. UNCHANGED <<active, signalled>>
    BY <1>4 DEF Cancel
  <2>2. \A d \in Calls : phase[d] = "running" /\ id[d] = i => d \in signalled
    BY <1>0, <1>4, SessionAssumption DEF TableIsExact
  <2>3. TypeOK'
    BY <1>0, <1>1, <2>1 DEF TypeOK
  <2>4. TableIsExact' /\ AnswersAreDone' /\ Alone' /\ Fresh'
    BY <1>0, <1>1, <2>1 DEF TableIsExact, AnswersAreDone, Sent, Alone, Running, Fresh
  <2>5. CancelHitsItsCall'
    BY <1>0, <1>1, <2>1, <2>2 DEF CancelHitsItsCall
  <2> QED BY <2>3, <2>4, <2>5 DEF SessionInv
<1> QED BY <1>3, <1>4

\* A written chunk moves from the queue to the client, or is lost.
LEMMA EndWriteInv ==
  ASSUME SessionInv, EndWrite
  PROVE  SessionInv'
<1>0. TypeOK /\ TableIsExact /\ CancelHitsItsCall /\ AnswersAreDone /\ Alone /\ Fresh
  BY DEF SessionInv
<1>1. /\ outbox' = Tail(outbox) /\ writing' = FALSE
      /\ written' = Append(written, Head(outbox)) \/ written' = written
      /\ UNCHANGED <<phase, id, outcome, ticks, active, signalled, server, cancels>>
  BY DEF EndWrite, call
<1>2. outbox # <<>> /\ outbox \in Seq(Chunk) /\ written \in Seq(Chunk)
  BY <1>0 DEF EndWrite, AnswersAreDone, TypeOK
<1>3. Head(outbox) \in Chunk /\ Tail(outbox) \in Seq(Chunk)
  BY <1>2
<1>4. TypeOK'
  <2>1. Append(written, Head(outbox)) \in Seq(Chunk)
    BY <1>2, <1>3
  <2>2. outbox' \in Seq(Chunk) /\ written' \in Seq(Chunk) /\ writing' \in BOOLEAN
    BY <1>1, <1>2, <1>3, <2>1
  <2> QED BY <1>0, <1>1, <2>2 DEF TypeOK
<1>5. TableIsExact' /\ CancelHitsItsCall' /\ Alone' /\ Fresh'
  BY <1>0, <1>1 DEF TableIsExact, CancelHitsItsCall, Alone, Fresh, Running
<1>6. AnswersAreDone'
  <2>1. ASSUME NEW d \in Calls, Sent(written', d) \/ Sent(outbox', d) PROVE phase'[d] = "done"
    <3>1. Sent(outbox', d) => Sent(outbox, d)
      BY <1>1, <1>2, SentTail DEF Sent
    <3>2. Sent(written', d) => Sent(written, d) \/ Sent(outbox, d)
      BY <1>1, <1>2, <1>3, SentAppend, SentTail DEF Sent
    <3> QED BY <1>0, <1>1, <2>1, <3>1, <3>2 DEF AnswersAreDone
  <2> QED BY <1>1, <2>1 DEF AnswersAreDone
<1> QED BY <1>4, <1>5, <1>6 DEF SessionInv

\* Nothing else touches a call, the table or the chunks.
LEMMA OthersInv ==
  ASSUME SessionInv, StartWrite \/ StdinEnd \/ Shutdown \/ Drain \/ Failsafe \/ UNCHANGED vars
  PROVE  SessionInv'
<1>0. TypeOK /\ TableIsExact /\ CancelHitsItsCall /\ AnswersAreDone /\ Alone /\ Fresh
  BY DEF SessionInv
<1>1. UNCHANGED <<phase, id, outcome, ticks, active, signalled, outbox, written, cancels>>
  BY DEF StartWrite, StdinEnd, Shutdown, Drain, Failsafe, vars, call
<1>2. /\ writing' = writing \/ (writing' = TRUE /\ outbox # <<>>)
      /\ server' = server \/ server' \in {"open", "stopping", "exited"}
  BY DEF StartWrite, StdinEnd, Shutdown, Drain, Failsafe, vars, call
<1>3. TypeOK'
  BY <1>0, <1>1, <1>2 DEF TypeOK
<1>4. TableIsExact' /\ CancelHitsItsCall' /\ Alone' /\ Fresh'
  BY <1>0, <1>1 DEF TableIsExact, CancelHitsItsCall, Alone, Fresh, Running
<1>5. AnswersAreDone'
  BY <1>0, <1>1, <1>2 DEF AnswersAreDone, Sent
<1> QED BY <1>3, <1>4, <1>5 DEF SessionInv

\* The induction step.
LEMMA NextSession == SessionInv /\ [Next]_vars => SessionInv'
BY CallToolInv, AnswerAtOnceInv, ReportInv, CommitInv, ReturnInv, CancelInv, EndWriteInv, OthersInv
DEF Next, Serve

\* SessionInv holds in every run of the server.
THEOREM SessionInvariance == Spec => []SessionInv
BY InitSession, NextSession, PTL DEF Spec

\* For any number of concurrent calls, the controller table holds exactly the
\* running calls not cancelled yet (server.mjs:408-409, 474, 517, 653-656).
THEOREM ControllersAreExact == Spec => []TableIsExact
<1>1. SessionInv => TableIsExact
  BY DEF SessionInv
<1> QED BY <1>1, SessionInvariance, PTL

\* A cancellation reaches the call it names and no other.
THEOREM CancellationsHit == Spec => []CancelHitsItsCall
<1>1. SessionInv => CancelHitsItsCall
  BY DEF SessionInv
<1> QED BY <1>1, SessionInvariance, PTL
-----------------------------------------------------------------------------
(* The order of what a client reads.                                        *)
Stream == written \o outbox
InOrder(s) ==
  \A j, k \in DOMAIN s : j < k /\ s[j].kind = "answer" => s[j].call # s[k].call

\* A chunk keeps the order of a sequence without an answer of its call.
LEMMA AppendKeepsOrder ==
  ASSUME NEW p \in Seq(Chunk), NEW q \in Seq(Chunk), NEW c \in Calls, NEW x \in Chunk,
         x.call = c, ~Sent(p, c), ~Sent(q, c), InOrder(p \o q)
  PROVE  InOrder(p \o Append(q, x))
<1> DEFINE s == p \o q
           t == p \o Append(q, x)
<1>1. s \in Seq(Chunk) /\ Len(s) = Len(p) + Len(q)
  OBVIOUS
<1>2. t \in Seq(Chunk) /\ Len(t) = Len(s) + 1 /\ t[Len(t)] = x
  OBVIOUS
<1>3. \A j \in 1..Len(s) : t[j] = s[j]
  OBVIOUS
<1>4. ASSUME NEW j \in 1..Len(s), s[j].kind = "answer" PROVE s[j].call # c
  <2>1. s[j] \in Chunk
    BY <1>1
  <2>2. s[j].call = c => s[j] = Answer(c)
    BY <1>4, <2>1 DEF Chunk, Answer
  <2>3. CASE j <= Len(p)
    BY <2>2, <2>3 DEF Sent
  <2>4. CASE j > Len(p)
    <3>1. j - Len(p) \in DOMAIN q /\ s[j] = q[j - Len(p)]
      BY <1>1, <2>4
    <3> QED BY <2>2, <3>1 DEF Sent
  <2> QED BY <2>3, <2>4
<1> SUFFICES ASSUME NEW j \in DOMAIN t, NEW k \in DOMAIN t, j < k, t[j].kind = "answer"
             PROVE  t[j].call # t[k].call
  BY DEF InOrder
<1>5. j \in 1..Len(s) /\ t[j] = s[j] /\ k \in 1..(Len(s) + 1)
  BY <1>1, <1>2, <1>3
<1>6. CASE k = Len(s) + 1
  BY <1>2, <1>4, <1>5, <1>6
<1>7. CASE k # Len(s) + 1
  <2>1. k \in DOMAIN s /\ j \in DOMAIN s /\ t[k] = s[k]
    BY <1>1, <1>3, <1>5, <1>7
  <2> QED BY <1>5, <2>1 DEF InOrder
<1> QED BY <1>6, <1>7

\* A written chunk, or one lost by a failed write, keeps the order of the rest.
LEMMA WriteKeepsOrder ==
  ASSUME NEW p \in Seq(Chunk), NEW q \in Seq(Chunk), q # <<>>, InOrder(p \o q)
  PROVE  InOrder(Append(p, Head(q)) \o Tail(q)) /\ InOrder(p \o Tail(q))
<1> DEFINE s == p \o q
           lost == p \o Tail(q)
<1>1. Append(p, Head(q)) \o Tail(q) = s
  OBVIOUS
<1>2. Len(lost) + 1 = Len(s) /\ DOMAIN lost = 1..Len(lost) /\ DOMAIN s = 1..Len(s)
  OBVIOUS
<1>3. \A j \in 1..Len(lost) : lost[j] = s[IF j <= Len(p) THEN j ELSE j + 1]
  OBVIOUS
<1>4. InOrder(lost)
  <2> SUFFICES ASSUME NEW j \in DOMAIN lost, NEW k \in DOMAIN lost, j < k, lost[j].kind = "answer"
               PROVE  lost[j].call # lost[k].call
    BY DEF InOrder
  <2> DEFINE at(n) == IF n <= Len(p) THEN n ELSE n + 1
  <2>1. at(j) \in DOMAIN s /\ at(k) \in DOMAIN s /\ at(j) < at(k)
    BY <1>2
  <2>2. lost[j] = s[at(j)] /\ lost[k] = s[at(k)]
    BY <1>2, <1>3
  <2> QED BY <2>1, <2>2 DEF InOrder
<1> QED BY <1>1, <1>4

\* No step puts a chunk behind the answer of its call.
LEMMA NextOrder ==
  ASSUME SessionInv, InOrder(Stream), [Next]_vars
  PROVE  InOrder(Stream)'
<1>0. TypeOK /\ AnswersAreDone
  BY DEF SessionInv
<1>1. outbox \in Seq(Chunk) /\ written \in Seq(Chunk)
  BY <1>0 DEF TypeOK
<1>2. ASSUME NEW c \in Calls, NEW x \in Chunk, x.call = c, phase[c] # "done",
             outbox' = Append(outbox, x), written' = written
      PROVE  InOrder(Stream)'
  <2>1. ~Sent(written, c) /\ ~Sent(outbox, c)
    BY <1>0, <1>2 DEF AnswersAreDone
  <2>2. InOrder(written \o Append(outbox, x))
    BY <1>1, <1>2, <2>1, AppendKeepsOrder DEF Stream
  <2> QED BY <1>2, <2>2 DEF Stream, InOrder
<1>3. ASSUME NEW c \in Calls, AnswerAtOnce(c) \/ Report(c) \/ Return(c) PROVE InOrder(Stream)'
  <2>1. CASE AnswerAtOnce(c)
    BY <1>2, <2>1, Chunks DEF AnswerAtOnce, Answer
  <2>2. CASE Report(c)
    BY <1>2, <2>2, Chunks DEF Report, Progress
  <2>3. CASE Return(c)
    BY <1>2, <2>3, Chunks DEF Return, Answer
  <2> QED BY <1>3, <2>1, <2>2, <2>3
<1>4. CASE EndWrite
  <2>1. outbox # <<>>
    BY <1>0, <1>4 DEF EndWrite, AnswersAreDone
  <2>2. InOrder(Append(written, Head(outbox)) \o Tail(outbox)) /\ InOrder(written \o Tail(outbox))
    BY <1>1, <2>1, WriteKeepsOrder DEF Stream
  <2>3. outbox' = Tail(outbox) /\ (written' = written \/ written' = Append(written, Head(outbox)))
    BY <1>4 DEF EndWrite
  <2>4. InOrder(written' \o outbox')
    BY <2>2, <2>3
  <2> QED BY <2>4 DEF Stream, InOrder
<1>5. CASE UNCHANGED <<written, outbox>>
  BY <1>5 DEF Stream, InOrder
<1>6. ASSUME NEW c \in Calls, CallTool(c) \/ Commit(c) PROVE InOrder(Stream)'
  BY <1>5, <1>6 DEF CallTool, Commit
<1>7. ASSUME NEW i \in Ids, Cancel(i) PROVE InOrder(Stream)'
  BY <1>5, <1>7 DEF Cancel
<1>8. StartWrite \/ StdinEnd \/ Shutdown \/ Drain \/ Failsafe \/ UNCHANGED vars => InOrder(Stream)'
  BY <1>5 DEF StartWrite, StdinEnd, Shutdown, Drain, Failsafe, vars
<1> QED BY <1>3, <1>4, <1>6, <1>7, <1>8 DEF Next, Serve

\* For any number of calls and progress notifications, a client reads the
\* progress of a call before its answer and one answer to it, although writes
\* may fail on the way (server.mjs:418-431, jsonrpc-stdio.mjs:174-186).
THEOREM ProgressComesFirst == Spec => []ProgressPrecedesAnswer
<1>1. Init => InOrder(Stream)
  <2> SUFFICES ASSUME Init PROVE InOrder(Stream)
    OBVIOUS
  <2>1. written = <<>> /\ outbox = <<>>
    BY DEF Init
  <2>2. DOMAIN (written \o outbox) = {}
    BY <2>1
  <2> QED BY <2>2 DEF InOrder, Stream
<1>2. SessionInv /\ InOrder(Stream) /\ [Next]_vars => InOrder(Stream)'
  BY NextOrder
<1>3. InOrder(Stream) => ProgressPrecedesAnswer
  BY DEF InOrder, Stream, ProgressPrecedesAnswer
<1>4. Spec => []InOrder(Stream)
  BY <1>1, <1>2, SessionInvariance, PTL DEF Spec
<1> QED BY <1>3, <1>4, PTL

-----------------------------------------------------------------------------
(* StdioFraming: however a stream is cut into chunks, its frames are read     *)
(* whole and in order.                                                      *)

\* The symbols of a stream from one place to another.
LEMMA WindowOf ==
  ASSUME NEW S, NEW B \in Seq(S), NEW r \in 0 .. Len(B), NEW e \in 0 .. r
  PROVE  /\ SubSeq(B, e + 1, r) \in Seq(S)
         /\ Len(SubSeq(B, e + 1, r)) = r - e
         /\ \A i \in 1 .. r - e : SubSeq(B, e + 1, r)[i] = B[e + i]
<1>1. PICK a \in Int : a = e + 1
  OBVIOUS
<1>2. r \in Int /\ e \in Int /\ Len(B) \in Nat /\ e <= r /\ r <= Len(B) /\ 0 <= e
  OBVIOUS
<1>3. \A i \in a .. r : B[i] \in S
  BY <1>1, <1>2
<1>4. /\ SubSeq(B, a, r) \in Seq(S)
      /\ Len(SubSeq(B, a, r)) = IF a <= r THEN r - a + 1 ELSE 0
      /\ \A i \in 1 .. r - a + 1 : SubSeq(B, a, r)[i] = B[a + i - 1]
  BY <1>2, <1>3, SubSeqProperties
<1>5. Len(SubSeq(B, a, r)) = r - e
  BY <1>1, <1>2, <1>4
<1>6. ASSUME NEW i \in 1 .. r - e PROVE SubSeq(B, a, r)[i] = B[e + i]
  <2>1. a + i - 1 = e + i /\ i \in 1 .. r - a + 1
    BY <1>1, <1>2
  <2> QED BY <1>4, <2>1
<1> QED BY Zenon, <1>1, <1>4, <1>5, <1>6

\* A window of a window is a window of the stream.
LEMMA WindowInWindow ==
  ASSUME NEW S, NEW B \in Seq(S), NEW r \in 0 .. Len(B), NEW e \in 0 .. r,
         NEW m \in 0 .. r - e, NEW l \in 0 .. m
  PROVE  SubSeq(SubSeq(B, e + 1, r), l + 1, m) = SubSeq(B, e + l + 1, e + m)
<1>0. /\ r \in Nat /\ e \in Nat /\ Len(B) \in Nat /\ m \in Nat /\ l \in Nat
      /\ e <= r /\ r <= Len(B) /\ l <= m /\ e + m <= r
  OBVIOUS
<1>1. PICK b : b = SubSeq(B, e + 1, r)
  OBVIOUS
<1>2. b \in Seq(S) /\ Len(b) = r - e /\ \A i \in 1 .. r - e : b[i] = B[e + i]
  BY Zenon, <1>1, WindowOf
<1>3. PICK u : u = SubSeq(b, l + 1, m)
  OBVIOUS
<1>4. u \in Seq(S) /\ Len(u) = m - l /\ \A i \in 1 .. m - l : u[i] = b[l + i]
  <2>1. m \in 0 .. Len(b) /\ l \in 0 .. m
    BY <1>0, <1>2
  <2> QED BY Zenon, <1>2, <1>3, <2>1, WindowOf
<1>5. PICK p : p = e + l
  OBVIOUS
<1>6. PICK q : q = e + m
  OBVIOUS
<1>7. q \in 0 .. Len(B) /\ p \in 0 .. q /\ q - p = m - l
  BY <1>0, <1>5, <1>6
<1>8. PICK v : v = SubSeq(B, p + 1, q)
  OBVIOUS
<1>9. v \in Seq(S) /\ Len(v) = q - p /\ \A i \in 1 .. q - p : v[i] = B[p + i]
  BY Zenon, <1>7, <1>8, WindowOf
<1>10. ASSUME NEW i \in 1 .. Len(u) PROVE u[i] = v[i]
  <2>1. i \in 1 .. m - l /\ i \in 1 .. q - p
    BY <1>4, <1>7, <1>10
  <2>2. l + i \in 1 .. r - e /\ e + (l + i) = p + i
    BY <1>0, <1>5, <2>1
  <2>3. u[i] = b[l + i] /\ v[i] = B[p + i]
    BY <1>4, <1>9, <2>1
  <2> QED BY <1>2, <2>2, <2>3
<1>11. u = v
  <2>1. Len(u) = Len(v)
    BY <1>4, <1>7, <1>9
  <2> QED BY Zenon, <1>4, <1>9, <1>10, <2>1, SeqEqual
<1> QED BY Zenon, <1>1, <1>3, <1>5, <1>6, <1>8, <1>11

\* Adjacent windows make one.
LEMMA WindowsJoin ==
  ASSUME NEW S, NEW B \in Seq(S), NEW q \in 0 .. Len(B), NEW r \in 0 .. q, NEW e \in 0 .. r
  PROVE  SubSeq(B, e + 1, r) \o SubSeq(B, r + 1, q) = SubSeq(B, e + 1, q)
<1>1. PICK a \in Int : a = e + 1
  OBVIOUS
<1>2. a \in 1 .. Len(B) + 1 /\ r \in a - 1 .. Len(B) /\ q \in r .. Len(B)
  BY <1>1
<1>3. SubSeq(B, a, r) \o SubSeq(B, r + 1, q) = SubSeq(B, a, q)
  BY <1>2, ConcatAdjacentSubSeq
<1> QED BY Zenon, <1>1, <1>3

\* The rest of a window.
LEMMA WindowAfter ==
  ASSUME NEW S, NEW B \in Seq(S), NEW r \in 0 .. Len(B), NEW e \in 0 .. r, NEW m \in 0 .. r - e
  PROVE  After(SubSeq(B, e + 1, r), m) = SubSeq(B, e + m + 1, r)
<1>1. Len(SubSeq(B, e + 1, r)) = r - e
  BY Zenon, WindowOf
<1>2. PICK n : n = r - e
  OBVIOUS
<1>3. n \in 0 .. r - e /\ m \in 0 .. n /\ e + n = r
  BY <1>2
<1>4. SubSeq(SubSeq(B, e + 1, r), m + 1, n) = SubSeq(B, e + m + 1, e + n)
  BY Zenon, <1>3, WindowInWindow
<1> QED BY Zenon, <1>1, <1>2, <1>3, <1>4 DEF After

LEMMA WindowHead ==
  ASSUME NEW S, NEW B \in Seq(S), NEW r \in 0 .. Len(B), NEW e \in 0 .. r, NEW m \in 0 .. r - e
  PROVE  SubSeq(SubSeq(B, e + 1, r), 1, m) = SubSeq(B, e + 1, e + m)
<1>1. PICK l : l = 0
  OBVIOUS
<1>2. l \in 0 .. m /\ l + 1 = 1 /\ e + l + 1 = e + 1
  BY <1>1
<1>3. SubSeq(SubSeq(B, e + 1, r), l + 1, m) = SubSeq(B, e + l + 1, e + m)
  BY Zenon, <1>2, WindowInWindow
<1> QED BY Zenon, <1>2, <1>3

LEMMA MinIs ==
  ASSUME NEW T \in SUBSET Nat, NEW m \in T, \A j \in T : m <= j
  PROVE  Min(T) = m
<1>1. \A x \in T : (\A j \in T : x <= j) => x = m
  OBVIOUS
<1> QED BY <1>1 DEF Min

LEMMA MaxIs ==
  ASSUME NEW T \in SUBSET Nat, NEW m \in T, \A j \in T : j <= m
  PROVE  Max(T) = m
<1>1. \A x \in T : (\A j \in T : x >= j) => x = m
  OBVIOUS
<1> QED BY <1>1 DEF Max

\* Two sequences agree as far as both go: a frame of the stream and what was
\* received of the stream from there on.
Agree(f, b) ==
  /\ f \in Seq(Symbol) /\ b \in Seq(Symbol)
  /\ \A i \in 1 .. Len(f) : i <= Len(b) => b[i] = f[i]

LEMMA WindowsAgree ==
  ASSUME NEW B \in Seq(Symbol), NEW g \in 0 .. Len(B), NEW r \in 0 .. Len(B),
         NEW e \in Nat, e <= g, e <= r
  PROVE  /\ Agree(SubSeq(B, e + 1, g), SubSeq(B, e + 1, r))
         /\ Len(SubSeq(B, e + 1, g)) = g - e /\ Len(SubSeq(B, e + 1, r)) = r - e
<1>0. e \in 0 .. g /\ e \in 0 .. r
  OBVIOUS
<1>1. PICK f : f = SubSeq(B, e + 1, g)
  OBVIOUS
<1>2. PICK b : b = SubSeq(B, e + 1, r)
  OBVIOUS
<1>3. f \in Seq(Symbol) /\ Len(f) = g - e /\ \A i \in 1 .. g - e : f[i] = B[e + i]
  BY <1>0, <1>1, WindowOf
<1>4. b \in Seq(Symbol) /\ Len(b) = r - e /\ \A i \in 1 .. r - e : b[i] = B[e + i]
  BY <1>0, <1>2, WindowOf
<1>5. ASSUME NEW i \in 1 .. Len(f), i <= Len(b) PROVE b[i] = f[i]
  <2>1. i \in 1 .. g - e /\ i \in 1 .. r - e
    BY <1>3, <1>4, <1>5
  <2> QED BY <1>3, <1>4, <2>1
<1>6. Agree(f, b)
  BY <1>3, <1>4, <1>5 DEF Agree
<1> QED BY Zenon, <1>1, <1>2, <1>3, <1>4, <1>6

LEMMA AgreeingParts ==
  ASSUME NEW f, NEW b, Agree(f, b),
         NEW l \in Nat, l > 0, NEW m \in Nat, m <= Len(f), m <= Len(b)
  PROVE  SubSeq(b, l, m) = SubSeq(f, l, m)
<1>1. f \in Seq(Symbol) /\ b \in Seq(Symbol) /\ \A i \in l .. m : b[i] = f[i]
  BY DEF Agree
<1>2. (\A i \in l .. m : f[i] \in Symbol) /\ (\A i \in l .. m : b[i] \in Symbol)
  <2>1. \A i \in l .. m : i \in 1 .. Len(f) /\ i \in 1 .. Len(b)
    BY <1>1
  <2> QED BY <1>1, <2>1, ElementOfSeq
<1>3. m \in Int /\ l \in Int
  OBVIOUS
<1>4. /\ SubSeq(f, l, m) \in Seq(Symbol)
      /\ Len(SubSeq(f, l, m)) = IF l <= m THEN m - l + 1 ELSE 0
      /\ \A i \in 1 .. m - l + 1 : SubSeq(f, l, m)[i] = f[l + i - 1]
  BY <1>2, <1>3, SubSeqProperties
<1>5. /\ SubSeq(b, l, m) \in Seq(Symbol)
      /\ Len(SubSeq(b, l, m)) = IF l <= m THEN m - l + 1 ELSE 0
      /\ \A i \in 1 .. m - l + 1 : SubSeq(b, l, m)[i] = b[l + i - 1]
  BY <1>2, <1>3, SubSeqProperties
<1>6. ASSUME NEW i \in 1 .. Len(SubSeq(b, l, m)) PROVE SubSeq(b, l, m)[i] = SubSeq(f, l, m)[i]
  <2>1. i \in 1 .. m - l + 1 /\ l + i - 1 \in l .. m
    BY <1>3, <1>5
  <2> QED BY <1>1, <1>4, <1>5, <2>1
<1>7. Len(SubSeq(b, l, m)) = Len(SubSeq(f, l, m))
  BY <1>4, <1>5
<1> QED BY Zenon, <1>4, <1>5, <1>6, <1>7, SeqEqual

LEMMA AgreeingHeads ==
  ASSUME NEW f, NEW b, Agree(f, b), NEW m \in Nat, m <= Len(f), m <= Len(b)
  PROVE  SubSeq(b, 1, m) = SubSeq(f, 1, m)
<1>1. 1 \in Nat /\ 1 > 0
  OBVIOUS
<1> QED BY Zenon, <1>1, AgreeingParts

\* A line at the head of the buffer ends where the client ended it, and is
\* incomplete until then.
LineSeen(f, b) ==
  /\ b # <<>> => StartsWithBrace(b)
  /\ Len(b) < Len(f) => Has(b, "newline") = {}
  /\ Len(b) >= Len(f) =>
       /\ StartsWithBrace(b) /\ Has(b, "newline") # {}
       /\ Min(Has(b, "newline")) = Len(f)
       /\ SubSeq(b, 1, Len(f) - 1) = SubSeq(f, 1, Len(f) - 1)

LEMMA LineInBuffer ==
  ASSUME NEW f, NEW b, Agree(f, b), f # <<>>, NEW sent, IsLine(f, sent)
  PROVE  LineSeen(f, b)
<1>1. PICK n : n = Len(f)
  OBVIOUS
<1>2. PICK l : l = Len(b)
  OBVIOUS
<1>0. /\ n \in Nat /\ l \in Nat /\ n > 0 /\ f \in Seq(Symbol) /\ b \in Seq(Symbol)
      /\ \A i \in 1 .. n : i <= l => b[i] = f[i]
  BY <1>1, <1>2 DEF Agree
<1>3. DOMAIN f = 1 .. n /\ DOMAIN b = 1 .. l
  BY <1>1, <1>2
<1>4. \A i \in 1 .. n : f[i].kind = "newline" <=> i = n
  <2>1. {i \in 1 .. n : f[i].kind = "newline"} = {n}
    BY <1>1, <1>3 DEF IsLine, Has
  <2> QED BY <2>1
<1>5. f[1].kind = "open"
  BY DEF IsLine
<1>6. \A i \in 1 .. l : i <= n => b[i] = f[i]
  <2> SUFFICES ASSUME NEW i \in 1 .. l, i <= n PROVE b[i] = f[i]
    OBVIOUS
  <2>1. i \in 1 .. n
    BY <1>0
  <2> QED BY <1>0, <2>1
<1>7. b # <<>> => StartsWithBrace(b)
  <2> SUFFICES ASSUME b # <<>> PROVE b[1].kind = "open"
    BY DEF StartsWithBrace
  <2>1. 1 \in 1 .. l /\ 1 <= n
    BY <1>0, <1>2
  <2> QED BY <1>5, <1>6, <2>1
<1>8. ASSUME l < n PROVE Has(b, "newline") = {}
  <2>1. \A i \in 1 .. l : i \in 1 .. n /\ i # n /\ i <= n
    BY <1>0, <1>8
  <2>2. \A i \in 1 .. l : b[i].kind # "newline"
    BY <1>4, <1>6, <2>1
  <2> QED BY <1>3, <2>2 DEF Has
<1>9. ASSUME l >= n
      PROVE  /\ Has(b, "newline") # {} /\ Min(Has(b, "newline")) = n
             /\ SubSeq(b, 1, n - 1) = SubSeq(f, 1, Len(f) - 1)
  <2>1. n \in 1 .. l /\ n \in 1 .. n /\ n <= n
    BY <1>0, <1>9
  <2>2. n \in Has(b, "newline")
    <3>1. b[n].kind = "newline"
      BY <1>4, <1>6, <2>1
    <3> QED BY <1>3, <2>1, <3>1 DEF Has
  <2>3. \A i \in Has(b, "newline") : i \in Nat /\ n <= i
    <3> SUFFICES ASSUME NEW i \in Has(b, "newline") PROVE i \in Nat /\ n <= i
      OBVIOUS
    <3>1. i \in 1 .. l /\ b[i].kind = "newline"
      BY <1>3 DEF Has
    <3>2. i < n => i \in 1 .. n /\ i <= n /\ i # n
      BY <1>0, <3>1
    <3>3. ~(i < n)
      BY <1>4, <1>6, <3>1, <3>2
    <3> QED BY <1>0, <3>1, <3>3
  <2>4. Min(Has(b, "newline")) = n
    <3>1. Has(b, "newline") \in SUBSET Nat
      BY <2>3
    <3> QED BY Zenon, <2>2, <2>3, <3>1, MinIs
  <2>5. PICK m : m = n - 1
    OBVIOUS
  <2>6. m \in 0 .. l /\ m \in 0 .. n /\ Len(f) - 1 = m
    BY <1>0, <1>1, <1>9, <2>5
  <2>7. m \in Nat /\ m <= Len(f) /\ m <= Len(b)
    BY <1>0, <1>1, <1>2, <2>6
  <2>8. SubSeq(b, 1, m) = SubSeq(f, 1, m)
    BY Zenon, <2>7, AgreeingHeads
  <2>9. Len(f) - 1 = m
    BY <2>6
  <2>10. SubSeq(b, 1, n - 1) = SubSeq(f, 1, Len(f) - 1)
    BY Zenon, <2>5, <2>8, <2>9
  <2>11. Has(b, "newline") # {}
    BY <2>2
  <2> QED BY Zenon, <2>4, <2>10, <2>11
<1>10. l >= n => StartsWithBrace(b)
  BY <1>0, <1>2, <1>7
<1> QED BY <1>0, <1>1, <1>2, <1>7, <1>8, <1>9, <1>10 DEF LineSeen

\* A frame with a header block of h symbols at the head of the buffer: the block
\* is found where the client ended it, and not before.
HeaderSeen(f, b, h) ==
  /\ ~StartsWithBrace(b)
  /\ Len(b) < h + 2 => EmptyLines(b) = {}
  /\ Len(b) >= h + 2 => /\ EmptyLines(b) # {} /\ Min(EmptyLines(b)) = h + 1
                        /\ Header(b) = SubSeq(f, 1, h)

LEMMA HeaderInBuffer ==
  ASSUME NEW f, NEW b, Agree(f, b), f # <<>>,
         NEW h \in 0 .. Len(f) - 2, HeaderBlock(f, h)
  PROVE  HeaderSeen(f, b, h)
<1>1. PICK n : n = Len(f)
  OBVIOUS
<1>2. PICK l : l = Len(b)
  OBVIOUS
<1>0. /\ n \in Nat /\ l \in Nat /\ n > 0 /\ f \in Seq(Symbol) /\ b \in Seq(Symbol)
      /\ \A i \in 1 .. n : i <= l => b[i] = f[i]
  BY <1>1, <1>2 DEF Agree
<1>3. DOMAIN f = 1 .. n /\ DOMAIN b = 1 .. l
  BY <1>1, <1>2
<1>4. h \in Nat /\ h + 2 <= n
  BY <1>1, <1>0
<1>5. f[h + 1].kind = "newline" /\ f[h + 2].kind = "newline"
  BY DEF Has, HeaderBlock
<1>6. \A i \in 1 .. h : ~(f[i].kind = "newline" /\ f[i + 1].kind = "newline")
  <2> SUFFICES ASSUME NEW i \in 1 .. h PROVE ~(f[i].kind = "newline" /\ f[i + 1].kind = "newline")
    OBVIOUS
  <2>1. i \in DOMAIN f /\ i + 1 \in DOMAIN f
    BY <1>0, <1>3, <1>4
  <2>2. ~(i \in Has(f, "newline") /\ i + 1 \in Has(f, "newline"))
    BY DEF HeaderBlock
  <2> QED BY <2>1, <2>2 DEF Has
<1>7. \A i \in 1 .. l : i <= h + 2 => b[i] = f[i]
  <2> SUFFICES ASSUME NEW i \in 1 .. l, i <= h + 2 PROVE b[i] = f[i]
    OBVIOUS
  <2>1. i \in 1 .. n
    BY <1>0, <1>4
  <2> QED BY <1>0, <2>1
<1>8. ~StartsWithBrace(b)
  <2> SUFFICES ASSUME b # <<>> PROVE b[1].kind # "open"
    BY DEF StartsWithBrace
  <2>2. f[1].kind # "open"
    BY DEF HeaderBlock
  <2>1. 1 \in 1 .. l /\ 1 <= h + 2
    BY <1>0, <1>2, <1>4
  <2> QED BY <1>7, <2>1, <2>2
<1>9. \A i \in EmptyLines(b) : /\ i \in 1 .. l /\ i + 1 \in 1 .. l
                               /\ b[i].kind = "newline" /\ b[i + 1].kind = "newline"
  BY <1>3 DEF EmptyLines, Has
<1>10. \A i \in EmptyLines(b) : i \in Nat /\ h + 1 <= i
  <2> SUFFICES ASSUME NEW i \in EmptyLines(b) PROVE i \in Nat /\ h + 1 <= i
    OBVIOUS
  <2>1. /\ i \in 1 .. l /\ i + 1 \in 1 .. l
        /\ b[i].kind = "newline" /\ b[i + 1].kind = "newline"
    BY <1>9
  <2>2. i < h + 1 => i \in 1 .. h /\ i <= h + 2 /\ i + 1 <= h + 2
    BY <1>0, <1>4, <2>1
  <2>3. ~(i < h + 1)
    BY <1>6, <1>7, <2>1, <2>2
  <2> QED BY <1>0, <1>4, <2>1, <2>3
<1>11. ASSUME l < h + 2 PROVE EmptyLines(b) = {}
  <2>1. \A i \in EmptyLines(b) : i + 1 <= l /\ h + 1 <= i /\ i \in Nat
    BY <1>0, <1>9, <1>10
  <2> QED BY <1>0, <1>4, <1>11, <2>1
<1>12. ASSUME l >= h + 2
       PROVE  /\ EmptyLines(b) # {} /\ Min(EmptyLines(b)) = h + 1
              /\ Header(b) = SubSeq(f, 1, h)
  <2>1. /\ h + 1 \in 1 .. l /\ h + 2 \in 1 .. l /\ h + 1 <= h + 2 /\ h + 2 <= h + 2
        /\ (h + 1) + 1 = h + 2 /\ (h + 1) - 1 = h
    BY <1>0, <1>4, <1>12
  <2>2. b[h + 1].kind = "newline" /\ b[h + 2].kind = "newline"
    BY <1>5, <1>7, <2>1
  <2>3. h + 1 \in EmptyLines(b)
    BY <1>3, <2>1, <2>2 DEF EmptyLines, Has
  <2>4. Min(EmptyLines(b)) = h + 1
    <3>1. EmptyLines(b) \in SUBSET Nat
      BY <1>10
    <3> QED BY Zenon, <1>10, <2>3, <3>1, MinIs
  <2>5. h \in 0 .. l /\ h \in 0 .. n
    BY <1>0, <1>4, <1>12
  <2>6. SubSeq(b, 1, h) = SubSeq(f, 1, h)
    <3>1. h \in Nat /\ h <= Len(f) /\ h <= Len(b)
      BY <1>0, <1>1, <1>2, <1>4, <2>5
    <3> QED BY Zenon, <3>1, AgreeingHeads
  <2>7. Header(b) = SubSeq(b, 1, h)
    BY Zenon, <2>1, <2>4 DEF Header
  <2>8. EmptyLines(b) # {}
    BY <2>3
  <2> QED BY Zenon, <2>4, <2>6, <2>7, <2>8
<1> QED BY <1>0, <1>2, <1>4, <1>8, <1>11, <1>12 DEF HeaderSeen

\* What the assumption on streams says of the frame the parser stands in.
LEMMA CurrentFrame ==
  ASSUME WellFramed(client), NEW k \in 0 .. client.frames, k < client.frames
  PROVE  /\ k + 1 \in 0 .. client.frames
         /\ client.bytes \in Seq(Symbol) /\ client.messages \in Seq(Nat)
         /\ client.ends[k] \in Nat /\ client.ends[k + 1] \in 0 .. Len(client.bytes)
         /\ client.ends[k] < client.ends[k + 1]
         /\ client.sent[k] \in 0 .. client.sent[k + 1]
         /\ client.sent[k + 1] \in 0 .. Len(client.messages)
         /\ Frame(client, k + 1) = SubSeq(client.bytes, client.ends[k] + 1, client.ends[k + 1])
         /\ Messages(client, k + 1) =
              SubSeq(client.messages, client.sent[k] + 1, client.sent[k + 1])
         /\ client.lines => IsLine(Frame(client, k + 1), Messages(client, k + 1))
         /\ ~client.lines => IsHeaderFrame(Frame(client, k + 1), Messages(client, k + 1))
<1>1. PICK i : i = k + 1
  OBVIOUS
<1>2. client.frames \in Nat /\ i \in 1 .. client.frames /\ i - 1 = k /\ i \in 0 .. client.frames
  BY <1>1 DEF WellFramed
<1>3. /\ client.ends[k] \in 0 .. Len(client.bytes) /\ client.ends[i] \in 0 .. Len(client.bytes)
      /\ client.sent[k] \in 0 .. Len(client.messages)
      /\ client.sent[i] \in 0 .. Len(client.messages)
  BY <1>2 DEF WellFramed
<1>4. /\ client.ends[i - 1] < client.ends[i]
      /\ client.sent[i - 1] <= client.sent[i]
      /\ client.lines => IsLine(Frame(client, i), Messages(client, i))
      /\ ~client.lines => IsHeaderFrame(Frame(client, i), Messages(client, i))
  BY <1>2 DEF WellFramed
<1>5. client.bytes \in Seq(Symbol) /\ client.messages \in Seq(Nat)
  BY DEF WellFramed
<1>6. Len(client.bytes) \in Nat /\ Len(client.messages) \in Nat
  BY <1>5
<1>7. /\ client.ends[k] \in Nat /\ client.ends[k] < client.ends[i]
      /\ client.sent[k] \in 0 .. client.sent[i]
  BY <1>2, <1>3, <1>4, <1>6
<1>8. /\ Frame(client, i) = SubSeq(client.bytes, client.ends[k] + 1, client.ends[i])
      /\ Messages(client, i) = SubSeq(client.messages, client.sent[k] + 1, client.sent[i])
  BY <1>2 DEF Frame, Messages
<1> QED BY Zenon, <1>1, <1>2, <1>3, <1>4, <1>5, <1>7, <1>8

\* The parser is past the last frame only when nothing is left.
LEMMA NothingLeft ==
  ASSUME WellFramed(client), NEW k \in 0 .. client.frames,
         NEW r \in 0 .. Len(client.bytes), AtFrame(k, r), ~(k < client.frames)
  PROVE  /\ buffer = <<>> /\ r = Len(client.bytes) /\ wire = <<>>
         /\ delivered = client.messages
<1>1. /\ client.frames \in Nat /\ k = client.frames
      /\ client.bytes \in Seq(Symbol) /\ client.messages \in Seq(Nat)
  BY DEF WellFramed
<1>2. client.ends[k] = Len(client.bytes) /\ client.sent[k] = Len(client.messages)
  BY <1>1 DEF WellFramed
<1>3. r = Len(client.bytes)
  BY <1>1, <1>2 DEF AtFrame
<1>4. buffer = SubSeq(client.bytes, r + 1, r) /\ wire = SubSeq(client.bytes, r + 1, r)
      /\ delivered = SubSeq(client.messages, 1, Len(client.messages))
  BY Zenon, <1>2, <1>3 DEF AtFrame, After
<1>5. r + 1 \in Int /\ r \in Int /\ r < r + 1
  BY <1>1
<1>6. SubSeq(client.bytes, r + 1, r) = <<>>
  BY <1>5, SubSeqEmpty
<1>7. SubSeq(client.messages, 1, Len(client.messages)) = client.messages
  BY <1>1, SubSeqFull
<1> QED BY Zenon, <1>3, <1>4, <1>6, <1>7

\* The parser moves on to the next frame.
LEMMA Advance ==
  ASSUME WellFramed(client), NEW k \in 0 .. client.frames, NEW r \in 0 .. Len(client.bytes),
         AtFrame(k, r), k < client.frames, client.ends[k + 1] <= r,
         buffer' = SubSeq(client.bytes, client.ends[k + 1] + 1, r),
         delivered' = delivered \o Messages(client, k + 1),
         wire' = wire, client' = client, parsing' = TRUE,
         useNdjson' = client.lines
  PROVE  AtFrame(k + 1, r)'
<1>1. /\ client.messages \in Seq(Nat)
      /\ client.sent[k] \in 0 .. client.sent[k + 1]
      /\ client.sent[k + 1] \in 0 .. Len(client.messages)
      /\ Messages(client, k + 1) =
           SubSeq(client.messages, client.sent[k] + 1, client.sent[k + 1])
  BY Zenon, CurrentFrame
<1>2. delivered = SubSeq(client.messages, 1, client.sent[k]) /\ wire = After(client.bytes, r)
  BY DEF AtFrame
<1>3. delivered' = SubSeq(client.messages, 1, client.sent[k + 1])
  <2>1. PICK z : z = 0
    OBVIOUS
  <2>2. z \in 0 .. client.sent[k] /\ z + 1 = 1
    BY <1>1, <2>1
  <2>3. SubSeq(client.messages, z + 1, client.sent[k])
          \o SubSeq(client.messages, client.sent[k] + 1, client.sent[k + 1])
        = SubSeq(client.messages, z + 1, client.sent[k + 1])
    BY <1>1, <2>2, WindowsJoin
  <2> QED BY Zenon, <1>1, <1>2, <2>2, <2>3
<1> QED BY <1>2, <1>3 DEF AtFrame

\* The frame the parser stands in and what it has of it.
LEMMA FrameAndBuffer ==
  ASSUME WellFramed(client), NEW k \in 0 .. client.frames, NEW r \in 0 .. Len(client.bytes),
         AtFrame(k, r), k < client.frames
  PROVE  /\ Agree(Frame(client, k + 1), buffer)
         /\ Frame(client, k + 1) # <<>> /\ Len(Frame(client, k + 1)) \in Nat
         /\ Len(buffer) \in Nat
         /\ r >= client.ends[k + 1] <=> Len(buffer) >= Len(Frame(client, k + 1))
         /\ r >= client.ends[k + 1] =>
              After(buffer, Len(Frame(client, k + 1)))
                = SubSeq(client.bytes, client.ends[k + 1] + 1, r)
<1>1. PICK B : B = client.bytes
  OBVIOUS
<1>2. PICK e : e = client.ends[k]
  OBVIOUS
<1>3. PICK g : g = client.ends[k + 1]
  OBVIOUS
<1>4. /\ B \in Seq(Symbol) /\ e \in Nat /\ g \in 0 .. Len(B) /\ e < g
      /\ Frame(client, k + 1) = SubSeq(B, e + 1, g)
  BY Zenon, <1>1, <1>2, <1>3, CurrentFrame
<1>5. buffer = SubSeq(B, e + 1, r) /\ e <= r /\ r \in 0 .. Len(B)
  BY Zenon, <1>1, <1>2 DEF AtFrame
<1>6. e <= g /\ r \in Nat /\ g \in Nat /\ e \in 0 .. r
  BY <1>4, <1>5
<1>7. /\ Agree(SubSeq(B, e + 1, g), SubSeq(B, e + 1, r))
      /\ Len(SubSeq(B, e + 1, g)) = g - e /\ Len(SubSeq(B, e + 1, r)) = r - e
  BY Zenon, <1>4, <1>5, <1>6, WindowsAgree
<1>8. /\ Agree(Frame(client, k + 1), buffer)
      /\ Len(Frame(client, k + 1)) = g - e /\ Len(buffer) = r - e
  BY Zenon, <1>4, <1>5, <1>7
<1>9. Frame(client, k + 1) # <<>>
  BY <1>4, <1>6, <1>8
<1>10. /\ g - e \in Nat /\ r - e \in Nat /\ (r >= g <=> r - e >= g - e)
       /\ r >= g => g - e \in 0 .. r - e
       /\ e + (g - e) + 1 = g + 1
  BY <1>4, <1>5, <1>6
<1>11. ASSUME r >= g PROVE After(buffer, g - e) = SubSeq(B, g + 1, r)
  <2>1. PICK d : d = g - e
    OBVIOUS
  <2>2. d \in 0 .. r - e /\ e + d + 1 = g + 1
    BY <1>10, <1>11, <2>1
  <2>3. After(SubSeq(B, e + 1, r), d) = SubSeq(B, e + d + 1, r)
    BY Zenon, <1>4, <1>5, <1>6, <2>2, WindowAfter
  <2> QED BY Zenon, <1>5, <2>1, <2>2, <2>3
<1> QED BY Zenon, <1>1, <1>3, <1>8, <1>9, <1>10, <1>11

\* What the parser sees of a line.
LEMMA LineFrame ==
  ASSUME WellFramed(client), NEW k \in 0 .. client.frames, NEW r \in 0 .. Len(client.bytes),
         AtFrame(k, r), k < client.frames, client.lines
  PROVE  /\ buffer # <<>> => StartsWithBrace(buffer)
         /\ HasLine(buffer) <=> r >= client.ends[k + 1]
         /\ HasLine(buffer) =>
              LET end == Min(Has(buffer, "newline")) IN
              /\ After(buffer, end) = SubSeq(client.bytes, client.ends[k + 1] + 1, r)
              /\ Parsed(SubSeq(buffer, 1, end - 1)) = Messages(client, k + 1)
<1>1. PICK f : f = Frame(client, k + 1)
  OBVIOUS
<1>2. PICK m : m = Messages(client, k + 1)
  OBVIOUS
<1>3. /\ Agree(f, buffer) /\ f # <<>> /\ Len(f) \in Nat /\ Len(buffer) \in Nat
      /\ r >= client.ends[k + 1] <=> Len(buffer) >= Len(f)
      /\ r >= client.ends[k + 1] =>
           After(buffer, Len(f)) = SubSeq(client.bytes, client.ends[k + 1] + 1, r)
  BY Zenon, <1>1, FrameAndBuffer
<1>4. IsLine(f, m)
  BY Zenon, <1>1, <1>2, CurrentFrame
<1>5. LineSeen(f, buffer)
  BY Zenon, <1>3, <1>4, LineInBuffer
<1>6. Len(buffer) < Len(f) <=> ~(Len(buffer) >= Len(f))
  BY <1>3
<1>7. HasLine(buffer) <=> Len(buffer) >= Len(f)
  BY Zenon, <1>5, <1>6 DEF LineSeen, HasLine
<1>8. Len(buffer) >= Len(f) =>
        /\ Min(Has(buffer, "newline")) = Len(f)
        /\ SubSeq(buffer, 1, Len(f) - 1) = SubSeq(f, 1, Len(f) - 1)
  BY Zenon, <1>5 DEF LineSeen
<1>9. Parsed(SubSeq(f, 1, Len(f) - 1)) = m
  BY Zenon, <1>4 DEF IsLine
<1>10. buffer # <<>> => StartsWithBrace(buffer)
  BY Zenon, <1>5 DEF LineSeen
<1> QED BY Zenon, <1>2, <1>3, <1>7, <1>8, <1>9, <1>10

\* The header block is found where the client ended it; the frame is complete when
\* all of it was received.
BlockRead(f, b, sent) ==
  /\ HasHeader(b)
  /\ Lengths(Header(b)) = {}
  /\ BodyStart(b) - 1 = Len(f)
  /\ sent = <<>>

FrameRead(f, b, sent) ==
  /\ HasHeader(b)
  /\ Lengths(Header(b)) # {}
  /\ BodyEnd(b) = Len(f)
  /\ Len(b) >= Len(f) => sent = Parsed(SubSeq(b, BodyStart(b), BodyEnd(b)))

LEMMA HeaderFrameRead ==
  ASSUME NEW f, NEW b, Agree(f, b), f # <<>>, NEW sent, IsHeaderFrame(f, sent)
  PROVE  /\ ~StartsWithBrace(b)
         /\ HasHeader(b) => \/ BlockRead(f, b, sent) /\ Len(b) >= Len(f)
                            \/ FrameRead(f, b, sent)
         /\ Len(b) >= Len(f) => HasHeader(b)
<1>1. PICK h \in 0 .. Len(f) - 2 :
        /\ HeaderBlock(f, h)
        /\ \/ /\ Lengths(SubSeq(f, 1, h)) = {}
              /\ Len(f) = h + 2
              /\ sent = <<>>
           \/ \E i \in Lengths(SubSeq(f, 1, h)) :
                /\ \A j \in Lengths(SubSeq(f, 1, h)) : j <= i
                /\ Len(f) = h + 2 + f[i].n
                /\ sent = Parsed(SubSeq(f, h + 3, Len(f)))
  BY Zenon DEF IsHeaderFrame
<1>2. HeaderSeen(f, b, h)
  BY Zenon, <1>1, HeaderInBuffer
<1>3. f \in Seq(Symbol) /\ b \in Seq(Symbol)
  BY DEF Agree
<1>4. Len(f) \in Nat /\ Len(b) \in Nat /\ h \in Nat /\ h + 2 <= Len(f)
  BY <1>1, <1>3
<1>5. ~StartsWithBrace(b)
  BY Zenon, <1>2 DEF HeaderSeen
<1>6. HasHeader(b) <=> Len(b) >= h + 2
  <2>1. Len(b) < h + 2 <=> ~(Len(b) >= h + 2)
    BY <1>4
  <2> QED BY Zenon, <1>2, <2>1 DEF HeaderSeen, HasHeader
<1>7. ASSUME HasHeader(b)
      PROVE  Header(b) = SubSeq(f, 1, h) /\ BodyStart(b) = h + 3
  <2>1. Header(b) = SubSeq(f, 1, h) /\ Min(EmptyLines(b)) = h + 1
    BY Zenon, <1>2, <1>6, <1>7 DEF HeaderSeen
  <2>2. (h + 1) + 2 = h + 3
    BY <1>4
  <2> QED BY Zenon, <2>1, <2>2 DEF BodyStart
<1>8. CASE Lengths(SubSeq(f, 1, h)) = {} /\ Len(f) = h + 2 /\ sent = <<>>
  <2>1. ASSUME HasHeader(b) PROVE BlockRead(f, b, sent) /\ Len(b) >= Len(f)
    <3>1. (h + 3) - 1 = Len(f)
      BY <1>4, <1>8
    <3> QED BY Zenon, <1>6, <1>7, <1>8, <2>1, <3>1 DEF BlockRead
  <2> QED BY Zenon, <1>5, <1>6, <1>8, <2>1
<1>9. ASSUME NEW i \in Lengths(SubSeq(f, 1, h)),
             \A j \in Lengths(SubSeq(f, 1, h)) : j <= i,
             Len(f) = h + 2 + f[i].n,
             sent = Parsed(SubSeq(f, h + 3, Len(f)))
      PROVE  /\ HasHeader(b) => FrameRead(f, b, sent)
             /\ Len(b) >= Len(f) => HasHeader(b)
  <2>1. PICK a : a = SubSeq(f, 1, h)
    OBVIOUS
  <2>2. a \in Seq(Symbol) /\ Len(a) = h /\ \A j \in 1 .. h : a[j] = f[j]
    <3>1. \A j \in 1 .. h : f[j] \in Symbol
      <4>1. \A j \in 1 .. h : j \in 1 .. Len(f)
        BY <1>4
      <4> QED BY <1>3, <4>1, ElementOfSeq
    <3>2. 1 \in Int /\ h \in Int
      BY <1>4
    <3> QED BY <1>4, <2>1, <3>1, <3>2, SubSeqProperties
  <2>3. i \in 1 .. h /\ Lengths(a) \in SUBSET Nat /\ i \in Lengths(a)
        /\ \A j \in Lengths(a) : j <= i
    <3>1. DOMAIN a = 1 .. h
      BY <2>2, LenProperties
    <3>2. Lengths(a) \subseteq 1 .. h
      BY <3>1 DEF Lengths, Has
    <3> QED BY <1>4, <1>9, <2>1, <3>2
  <2>4. Max(Lengths(a)) = i
    BY Zenon, <2>3, MaxIs
  <2>5. a[i] = f[i] /\ a[i].n \in Int
    <3>1. a[i] \in Symbol
      BY <2>2, <2>3, ElementOfSeq
    <3>2. a[i].n \in Int
      BY <3>1 DEF Symbol
    <3> QED BY <2>2, <2>3, <3>2
  <2>6. ASSUME HasHeader(b) PROVE FrameRead(f, b, sent)
    <3>1. Header(b) = a /\ BodyStart(b) = h + 3
      BY Zenon, <1>7, <2>1, <2>6
    <3>2. ContentLength(Header(b)) = f[i].n
      BY Zenon, <2>4, <2>5, <3>1 DEF ContentLength
    <3>3. h + 3 + f[i].n - 1 = Len(f)
      BY <1>4, <1>9, <2>5
    <3>4. BodyEnd(b) = Len(f)
      BY Zenon, <3>1, <3>2, <3>3 DEF BodyEnd
    <3>5. ASSUME Len(b) >= Len(f) PROVE SubSeq(b, h + 3, Len(f)) = SubSeq(f, h + 3, Len(f))
      <4>1. PICK l : l = h + 3
        OBVIOUS
      <4>2. /\ l \in Nat /\ l > 0
            /\ Len(f) \in Nat /\ Len(f) <= Len(f) /\ Len(f) <= Len(b)
        BY <1>4, <3>5, <4>1
      <4>3. SubSeq(b, l, Len(f)) = SubSeq(f, l, Len(f))
        BY Zenon, <4>2, AgreeingParts
      <4> QED BY Zenon, <4>1, <4>3
    <3>6. Lengths(Header(b)) # {}
      BY <2>3, <3>1
    <3> QED BY Zenon, <1>9, <2>6, <3>1, <3>4, <3>5, <3>6 DEF FrameRead
  <2>7. Len(b) >= Len(f) => Len(b) >= h + 2
    BY <1>4
  <2> QED BY Zenon, <1>6, <2>6, <2>7
<1> QED BY Zenon, <1>1, <1>5, <1>8, <1>9

\* The lengths of what is on the wire and in the buffer.
LEMMA Received ==
  ASSUME NEW k \in 0 .. client.frames, NEW r \in 0 .. Len(client.bytes),
         WellFramed(client), AtFrame(k, r)
  PROVE  /\ Len(client.bytes) \in Nat /\ client.ends[k] \in 0 .. r
         /\ Len(wire) = Len(client.bytes) - r
         /\ Len(buffer) = r - client.ends[k]
<1>1. PICK B : B = client.bytes
  OBVIOUS
<1>2. PICK n : n = Len(B)
  OBVIOUS
<1>3. PICK e : e = client.ends[k]
  OBVIOUS
<1>4. B \in Seq(Symbol) /\ e \in 0 .. n
  BY <1>1, <1>2, <1>3 DEF WellFramed
<1>5. e <= r /\ buffer = SubSeq(B, e + 1, r) /\ wire = SubSeq(B, r + 1, n)
  BY Zenon, <1>1, <1>2, <1>3 DEF AtFrame, After
<1>6. n \in Nat /\ r \in 0 .. n /\ e \in 0 .. r /\ n \in 0 .. Len(B) /\ r \in 0 .. Len(B)
  BY <1>1, <1>2, <1>4, <1>5
<1>7. Len(SubSeq(B, e + 1, r)) = r - e
  BY Zenon, <1>4, <1>6, WindowOf
<1>8. Len(SubSeq(B, r + 1, n)) = n - r
  BY Zenon, <1>4, <1>6, WindowOf
<1> QED BY <1>1, <1>2, <1>3, <1>5, <1>6, <1>7, <1>8

\* A frame that was read leaves less in the buffer.
BufferShrinks == Len(buffer') \in Nat /\ Len(buffer) \in Nat /\ Len(buffer') < Len(buffer)

LEMMA LaterIsShorter ==
  \A r, e, f \in Nat : e < f /\ f \in 0 .. r => r - f \in Nat /\ r - e \in Nat /\ r - f < r - e
OBVIOUS

LEMMA FrameConsumed ==
  ASSUME NEW k \in 0 .. client.frames, NEW r \in 0 .. Len(client.bytes),
         WellFramed(client), AtFrame(k, r), k < client.frames, client.ends[k + 1] <= r,
         buffer' = SubSeq(client.bytes, client.ends[k + 1] + 1, r)
  PROVE  BufferShrinks
<1>1. PICK B : B = client.bytes
  OBVIOUS
<1>2. PICK e \in Nat, f \in Nat : e = client.ends[k] /\ f = client.ends[k + 1] /\ e < f
  BY CurrentFrame
<1>3. B \in Seq(Symbol) /\ Len(B) \in Nat /\ r \in 0 .. Len(B) /\ f \in 0 .. r
  BY <1>1, <1>2, CurrentFrame
<1>4. Len(SubSeq(B, f + 1, r)) = r - f
  BY Zenon, <1>3, WindowOf
<1>5. Len(buffer') = r - f
  BY Zenon, <1>1, <1>2, <1>4
<1>6. Len(buffer) = r - client.ends[k]
  BY Zenon, Received
<1>7. PICK m \in Nat, n \in Nat : m = r - f /\ n = r - e /\ m < n
  <2>1. r \in Nat /\ f \in 0 .. r
    BY <1>3
  <2>2. e < f /\ r \in Nat /\ f \in 0 .. r /\ e \in Nat /\ f \in Nat
    BY <1>2, <2>1
  <2>3. r - f \in Nat /\ r - e \in Nat /\ r - f < r - e
    BY Zenon, <2>2, LaterIsShorter
  <2> QED BY Zenon, <2>3
<1>8. Len(buffer') = m /\ Len(buffer) = n
  BY Zenon, <1>2, <1>5, <1>6, <1>7
<1> QED BY <1>7, <1>8 DEF BufferShrinks

\* A chunk moves some of the wire to the buffer.
ChunkReceived ==
  /\ Len(wire) \in Nat /\ Len(wire') \in Nat /\ Len(buffer) \in Nat /\ Len(buffer') \in Nat
  /\ Len(wire') < Len(wire)
  /\ Len(wire') + Len(buffer') = Len(wire) + Len(buffer)

\* One event of the input stream: whatever part of the wire arrives.
LEMMA ReceiveInv ==
  ASSUME FramingInv, Receive
  PROVE  FramingInv' /\ ChunkReceived
<1>1. WellFramed(client)
  BY DEF FramingInv
<1>2. PICK k \in 0 .. client.frames, r \in Nat :
        r \in 0 .. Len(client.bytes) /\ AtFrame(k, r)
  BY DEF FramingInv
<1>3. PICK n \in 1 .. Len(wire) :
        buffer' = buffer \o SubSeq(wire, 1, n) /\ wire' = After(wire, n)
  BY DEF Receive
<1>4. parsing' = TRUE /\ useNdjson' = useNdjson /\ delivered' = delivered /\ client' = client
  BY DEF Receive
<1>5. PICK B : B = client.bytes
  OBVIOUS
<1>6. PICK L : L = Len(B)
  OBVIOUS
<1>7. PICK e : e = client.ends[k]
  OBVIOUS
<1>8. /\ B \in Seq(Symbol) /\ L \in Nat /\ r \in 0 .. L /\ e \in 0 .. r
      /\ buffer = SubSeq(B, e + 1, r) /\ wire = SubSeq(B, r + 1, L)
  <2>1. B \in Seq(Symbol) /\ e \in 0 .. L
    BY <1>1, <1>5, <1>6, <1>7 DEF WellFramed
  <2>2. L \in Nat /\ r \in 0 .. L
    BY <1>2, <1>5, <1>6, <2>1
  <2>3. e <= r /\ buffer = SubSeq(B, e + 1, r) /\ wire = SubSeq(B, r + 1, L)
    BY Zenon, <1>2, <1>5, <1>6, <1>7 DEF AtFrame, After
  <2> QED BY <2>1, <2>2, <2>3
<1>9. Len(wire) = L - r
  BY <1>6, <1>8, WindowOf
<1>10. PICK q : q = r + n
  OBVIOUS
<1>11. /\ q \in 0 .. L /\ r \in 0 .. q /\ n \in 0 .. L - r /\ r <= q /\ e <= q
       /\ L \in 0 .. Len(B) /\ r \in 0 .. L
  BY <1>3, <1>6, <1>8, <1>9, <1>10
<1>12. SubSeq(wire, 1, n) = SubSeq(B, r + 1, q)
  <2>1. SubSeq(SubSeq(B, r + 1, L), 1, n) = SubSeq(B, r + 1, r + n)
    BY Zenon, <1>8, <1>11, WindowHead
  <2> QED BY Zenon, <1>8, <1>10, <2>1
<1>13. buffer' = SubSeq(B, e + 1, q)
  <2>1. SubSeq(B, e + 1, r) \o SubSeq(B, r + 1, q) = SubSeq(B, e + 1, q)
    BY <1>6, <1>8, <1>11, WindowsJoin
  <2> QED BY Zenon, <1>3, <1>8, <1>12, <2>1
<1>14. wire' = After(B, q)
  <2>1. After(SubSeq(B, r + 1, L), n) = SubSeq(B, r + n + 1, L)
    BY Zenon, <1>8, <1>11, WindowAfter
  <2> QED BY Zenon, <1>3, <1>6, <1>8, <1>10, <2>1 DEF After
<1>15. /\ delivered = SubSeq(client.messages, 1, client.sent[k])
       /\ useNdjson => client.lines
       /\ client.lines /\ k > 0 => useNdjson
  BY Zenon, <1>2 DEF AtFrame
<1>16. AtFrame(k, q)'
  BY Zenon, <1>4, <1>5, <1>7, <1>11, <1>13, <1>14, <1>15 DEF AtFrame
<1>17. WellFramed(client') /\ parsing' \in BOOLEAN /\ useNdjson' \in BOOLEAN
  BY <1>1, <1>4 DEF FramingInv
<1>18. k \in 0 .. client'.frames /\ q \in 0 .. Len(client'.bytes)
  BY Zenon, <1>2, <1>4, <1>5, <1>6, <1>11
<1>19. ChunkReceived
  <2>1. Len(wire') = L - q /\ Len(buffer') = q - e /\ Len(buffer) = r - e
    <3>1. Len(SubSeq(B, q + 1, L)) = L - q /\ Len(SubSeq(B, e + 1, r)) = r - e
      BY <1>8, <1>11, WindowOf
    <3>2. q \in 0 .. Len(B) /\ e \in 0 .. q
      BY <1>6, <1>8, <1>11
    <3>3. Len(SubSeq(B, e + 1, q)) = q - e
      BY Zenon, <1>8, <3>2, WindowOf
    <3>4. wire' = SubSeq(B, q + 1, L)
      BY Zenon, <1>6, <1>14 DEF After
    <3> QED BY Zenon, <1>8, <1>13, <3>1, <3>3, <3>4
  <2>2. L \in Nat /\ r \in Nat /\ q \in Nat /\ e \in Nat /\ r < q
    BY <1>3, <1>8, <1>9, <1>10, <1>11
  <2>3. PICK a \in Nat, b \in Nat, c \in Nat, d \in Nat :
          a = L - r /\ b = r - e /\ c = L - q /\ d = q - e
    BY <1>8, <1>11, <2>2
  <2>4. Len(wire) = a /\ Len(buffer) = b /\ Len(wire') = c /\ Len(buffer') = d
    BY Zenon, <1>9, <2>1, <2>3
  <2> QED BY <2>2, <2>3, <2>4 DEF ChunkReceived
<1> QED BY Zenon, <1>16, <1>17, <1>18, <1>19 DEF FramingInv

\* What every step of the parse loop starts from.
LEMMA ParsingAt ==
  ASSUME FramingInv
  PROVE  \E k \in 0 .. client.frames, r \in 0 .. Len(client.bytes) :
           /\ WellFramed(client) /\ AtFrame(k, r)
           /\ k + 1 \in 0 .. client.frames \/ ~(k < client.frames)
           /\ buffer # <<>> => k < client.frames
<1>1. WellFramed(client)
  BY DEF FramingInv
<1>2. PICK k \in 0 .. client.frames, r \in Nat :
        r \in 0 .. Len(client.bytes) /\ AtFrame(k, r)
  BY DEF FramingInv
<1>3. buffer # <<>> => k < client.frames
  BY Zenon, <1>1, <1>2, NothingLeft
<1>4. k + 1 \in 0 .. client.frames \/ ~(k < client.frames)
  BY Zenon, <1>1, CurrentFrame
<1> QED BY Zenon, <1>1, <1>2, <1>3, <1>4

\* A whole line was there: the next frame is behind it.
LEMMA ReadLineInv ==
  ASSUME FramingInv, ReadLine
  PROVE  FramingInv' /\ BufferShrinks
<1>1. PICK k \in 0 .. client.frames, r \in Nat :
        /\ r \in 0 .. Len(client.bytes)
        /\ WellFramed(client) /\ AtFrame(k, r)
        /\ k + 1 \in 0 .. client.frames \/ ~(k < client.frames)
        /\ buffer # <<>> => k < client.frames
  BY ParsingAt
<1>2. /\ HasLine(buffer)
      /\ delivered' = delivered \o Parsed(SubSeq(buffer, 1, Min(Has(buffer, "newline")) - 1))
      /\ buffer' = After(buffer, Min(Has(buffer, "newline")))
      /\ useNdjson' = TRUE
      /\ wire' = wire /\ parsing' = TRUE /\ client' = client
  BY Zenon DEF ReadLine
<1>3. buffer # <<>> /\ StartsWithBrace(buffer)
  BY Zenon, <1>2 DEF HasLine, StartsWithBrace
<1>4. k < client.frames /\ k + 1 \in 0 .. client.frames
  BY Zenon, <1>1, <1>3
<1>5. client.lines
  <2> SUFFICES ASSUME ~client.lines PROVE FALSE
    OBVIOUS
  <2>1. PICK f : f = Frame(client, k + 1)
    OBVIOUS
  <2>2. Agree(f, buffer) /\ f # <<>>
    BY Zenon, <1>1, <1>4, <2>1, FrameAndBuffer
  <2>3. IsHeaderFrame(f, Messages(client, k + 1))
    BY Zenon, <1>1, <1>4, <2>1, CurrentFrame
  <2> QED BY Zenon, <1>3, <2>2, <2>3, HeaderFrameRead
<1>6. /\ HasLine(buffer) <=> r >= client.ends[k + 1]
      /\ After(buffer, Min(Has(buffer, "newline")))
           = SubSeq(client.bytes, client.ends[k + 1] + 1, r)
      /\ Parsed(SubSeq(buffer, 1, Min(Has(buffer, "newline")) - 1)) = Messages(client, k + 1)
  BY Zenon, <1>1, <1>2, <1>4, <1>5, LineFrame
<1>7. client.ends[k + 1] <= r
  <2>1. client.ends[k + 1] \in 0 .. Len(client.bytes) /\ client.bytes \in Seq(Symbol)
    BY Zenon, <1>1, <1>4, CurrentFrame
  <2> QED BY <1>1, <1>2, <1>6, <2>1
<1>8. AtFrame(k + 1, r)'
  <2>1. useNdjson' = client.lines
    BY <1>1, <1>2, <1>5 DEF WellFramed
  <2>2. /\ buffer' = SubSeq(client.bytes, client.ends[k + 1] + 1, r)
        /\ delivered' = delivered \o Messages(client, k + 1)
    BY Zenon, <1>2, <1>6
  <2> QED BY Zenon, <1>1, <1>2, <1>4, <1>7, <2>1, <2>2, Advance
<1>9. BufferShrinks
  BY Zenon, <1>1, <1>2, <1>4, <1>6, <1>7, FrameConsumed
<1> QED BY Zenon, <1>1, <1>2, <1>4, <1>8, <1>9 DEF FramingInv

\* A header block was there: the client uses header blocks, and the parser stands
\* in one of its frames.
LEMMA HeaderAt ==
  ASSUME FramingInv, HasHeader(buffer)
  PROVE  \E k \in 0 .. client.frames, r \in 0 .. Len(client.bytes) :
           /\ WellFramed(client) /\ AtFrame(k, r)
           /\ k < client.frames /\ k + 1 \in 0 .. client.frames
           /\ ~client.lines /\ useNdjson = client.lines
           /\ \/ /\ BlockRead(Frame(client, k + 1), buffer, Messages(client, k + 1))
                 /\ Len(buffer) >= Len(Frame(client, k + 1))
              \/ FrameRead(Frame(client, k + 1), buffer, Messages(client, k + 1))
<1>1. PICK k \in 0 .. client.frames, r \in Nat :
        /\ r \in 0 .. Len(client.bytes)
        /\ WellFramed(client) /\ AtFrame(k, r)
        /\ k + 1 \in 0 .. client.frames \/ ~(k < client.frames)
        /\ buffer # <<>> => k < client.frames
  BY ParsingAt
<1>2. buffer # <<>> /\ ~StartsWithBrace(buffer)
  BY DEF HasHeader, EmptyLines, Has
<1>3. k < client.frames /\ k + 1 \in 0 .. client.frames
  BY Zenon, <1>1, <1>2
<1>4. ~client.lines
  BY Zenon, <1>1, <1>2, <1>3, LineFrame
<1>5. useNdjson = client.lines
  <2>1. ~useNdjson
    BY Zenon, <1>1, <1>4 DEF AtFrame
  <2>2. useNdjson \in BOOLEAN /\ client.lines \in BOOLEAN
    BY <1>1 DEF FramingInv, WellFramed
  <2> QED BY <1>4, <2>1, <2>2
<1>6. PICK f : f = Frame(client, k + 1)
  OBVIOUS
<1>7. Agree(f, buffer) /\ f # <<>>
  BY Zenon, <1>1, <1>3, <1>6, FrameAndBuffer
<1>8. IsHeaderFrame(f, Messages(client, k + 1))
  BY Zenon, <1>1, <1>3, <1>4, <1>6, CurrentFrame
<1>9. \/ BlockRead(f, buffer, Messages(client, k + 1)) /\ Len(buffer) >= Len(f)
      \/ FrameRead(f, buffer, Messages(client, k + 1))
  BY Zenon, <1>7, <1>8, HeaderFrameRead
<1> QED BY Zenon, <1>1, <1>3, <1>4, <1>5, <1>6, <1>9

\* A header block without a length is passed over, and the client sent no body.
LEMMA SkipHeaderInv ==
  ASSUME FramingInv, SkipHeader
  PROVE  FramingInv' /\ BufferShrinks
<1>1. /\ HasHeader(buffer) /\ Lengths(Header(buffer)) = {}
      /\ buffer' = After(buffer, BodyStart(buffer) - 1)
      /\ useNdjson' = useNdjson /\ delivered' = delivered
      /\ wire' = wire /\ parsing' = TRUE /\ client' = client
  BY DEF SkipHeader
<1>2. PICK k \in 0 .. client.frames, r \in Nat :
        /\ r \in 0 .. Len(client.bytes)
        /\ WellFramed(client) /\ AtFrame(k, r)
        /\ k < client.frames /\ k + 1 \in 0 .. client.frames
        /\ useNdjson = client.lines
        /\ BlockRead(Frame(client, k + 1), buffer, Messages(client, k + 1))
        /\ Len(buffer) >= Len(Frame(client, k + 1))
  <2>1. PICK k \in 0 .. client.frames, r \in 0 .. Len(client.bytes) :
           /\ WellFramed(client) /\ AtFrame(k, r)
           /\ k < client.frames /\ k + 1 \in 0 .. client.frames
           /\ ~client.lines /\ useNdjson = client.lines
           /\ \/ /\ BlockRead(Frame(client, k + 1), buffer, Messages(client, k + 1))
                 /\ Len(buffer) >= Len(Frame(client, k + 1))
              \/ FrameRead(Frame(client, k + 1), buffer, Messages(client, k + 1))
    BY Zenon, <1>1, HeaderAt
  <2>2. ~FrameRead(Frame(client, k + 1), buffer, Messages(client, k + 1))
    BY Zenon, <1>1 DEF FrameRead
  <2>3. r \in Nat
    OBVIOUS
  <2> QED BY Zenon, <2>1, <2>2, <2>3
<1>3. r >= client.ends[k + 1]
      /\ After(buffer, Len(Frame(client, k + 1)))
           = SubSeq(client.bytes, client.ends[k + 1] + 1, r)
  BY Zenon, <1>2, FrameAndBuffer
<1>4. client.ends[k + 1] <= r
  <2>1. client.ends[k + 1] \in 0 .. Len(client.bytes) /\ client.bytes \in Seq(Symbol)
    BY Zenon, <1>2, CurrentFrame
  <2> QED BY <1>2, <1>3, <2>1
<1>5. buffer' = SubSeq(client.bytes, client.ends[k + 1] + 1, r)
  BY Zenon, <1>1, <1>2, <1>3 DEF BlockRead
<1>6. delivered' = delivered \o Messages(client, k + 1)
  <2>1. delivered \in Seq(Nat)
    <3>1. client.messages \in Seq(Nat) /\ client.sent[k] \in 0 .. Len(client.messages)
      BY <1>2 DEF WellFramed
    <3>2. PICK n \in Nat : n = client.sent[k] /\ n <= Len(client.messages)
      BY <3>1
    <3>3. (\A i \in 1 .. n : client.messages[i] \in Nat) /\ 1 \in Int /\ n \in Int
      BY <3>1, <3>2, ElementOfSeq
    <3>4. SubSeq(client.messages, 1, n) \in Seq(Nat)
      BY <3>3, SubSeqProperties
    <3> QED BY Zenon, <1>2, <3>2, <3>4 DEF AtFrame
  <2>2. Messages(client, k + 1) = <<>>
    BY Zenon, <1>2 DEF BlockRead
  <2>3. delivered \o <<>> = delivered
    BY <2>1
  <2> QED BY Zenon, <1>1, <2>2, <2>3
<1>7. AtFrame(k + 1, r)'
  BY Zenon, <1>1, <1>2, <1>4, <1>5, <1>6, Advance
<1>8. useNdjson' \in BOOLEAN
  BY Zenon, <1>1 DEF FramingInv
<1>9. BufferShrinks
  BY Zenon, <1>2, <1>4, <1>5, FrameConsumed
<1> QED BY Zenon, <1>1, <1>2, <1>7, <1>8, <1>9 DEF FramingInv

\* A frame has at least one symbol.
LEMMA FrameLength ==
  ASSUME NEW k \in 0 .. client.frames, NEW r \in 0 .. Len(client.bytes),
         WellFramed(client), AtFrame(k, r), k < client.frames
  PROVE  /\ Len(Frame(client, k + 1)) \in Nat /\ Len(Frame(client, k + 1)) # 0
         /\ ~(Len(Frame(client, k + 1)) < 0)
<1>1. PICK f : f = Frame(client, k + 1)
  OBVIOUS
<1>2. Agree(f, buffer) /\ f # <<>>
  BY Zenon, <1>1, FrameAndBuffer
<1>3. Len(f) \in Nat /\ Len(f) # 0 /\ ~(Len(f) < 0)
  BY <1>2 DEF Agree
<1> QED BY Zenon, <1>1, <1>3

\* A whole body was there.
LEMMA ReadFrameInv ==
  ASSUME FramingInv, ReadFrame
  PROVE  FramingInv' /\ BufferShrinks
<1>1. /\ HasHeader(buffer) /\ Lengths(Header(buffer)) # {} /\ BodyComplete(buffer)
      /\ delivered' = delivered
           \o Parsed(SubSeq(buffer, BodyStart(buffer), FrameEnd(buffer)))
      /\ buffer' = After(buffer, FrameEnd(buffer))
      /\ useNdjson' = useNdjson
      /\ wire' = wire /\ parsing' = TRUE /\ client' = client
  BY Zenon DEF ReadFrame
<1>2. PICK k \in 0 .. client.frames, r \in Nat :
        /\ r \in 0 .. Len(client.bytes)
        /\ WellFramed(client) /\ AtFrame(k, r)
        /\ k < client.frames /\ k + 1 \in 0 .. client.frames
        /\ useNdjson = client.lines
        /\ FrameRead(Frame(client, k + 1), buffer, Messages(client, k + 1))
  <2>1. PICK k \in 0 .. client.frames, r \in 0 .. Len(client.bytes) :
           /\ WellFramed(client) /\ AtFrame(k, r)
           /\ k < client.frames /\ k + 1 \in 0 .. client.frames
           /\ ~client.lines /\ useNdjson = client.lines
           /\ \/ /\ BlockRead(Frame(client, k + 1), buffer, Messages(client, k + 1))
                 /\ Len(buffer) >= Len(Frame(client, k + 1))
              \/ FrameRead(Frame(client, k + 1), buffer, Messages(client, k + 1))
    BY Zenon, <1>1, HeaderAt
  <2>2. ~BlockRead(Frame(client, k + 1), buffer, Messages(client, k + 1))
    BY Zenon, <1>1 DEF BlockRead
  <2>3. r \in Nat
    OBVIOUS
  <2> QED BY Zenon, <2>1, <2>2, <2>3
<1>3. /\ BodyEnd(buffer) = Len(Frame(client, k + 1))
      /\ FrameEnd(buffer) = Len(Frame(client, k + 1))
      /\ Len(buffer) >= Len(Frame(client, k + 1))
  <2>1. /\ BodyEnd(buffer) = Len(Frame(client, k + 1))
        /\ Len(buffer) >= Len(Frame(client, k + 1))
    BY Zenon, <1>1, <1>2 DEF FrameRead, BodyComplete
  <2>2. ~(Len(Frame(client, k + 1)) < 0)
    BY Zenon, <1>2, FrameLength
  <2> QED BY Zenon, <2>1, <2>2 DEF FrameEnd
<1>4. r >= client.ends[k + 1]
      /\ After(buffer, Len(Frame(client, k + 1)))
           = SubSeq(client.bytes, client.ends[k + 1] + 1, r)
  BY Zenon, <1>2, <1>3, FrameAndBuffer
<1>5. client.ends[k + 1] <= r
  <2>1. client.ends[k + 1] \in 0 .. Len(client.bytes) /\ client.bytes \in Seq(Symbol)
    BY Zenon, <1>2, CurrentFrame
  <2> QED BY <1>2, <1>4, <2>1
<1>6. buffer' = SubSeq(client.bytes, client.ends[k + 1] + 1, r)
  BY Zenon, <1>1, <1>3, <1>4
<1>7. delivered' = delivered \o Messages(client, k + 1)
  BY Zenon, <1>1, <1>2, <1>3 DEF FrameRead
<1>8. AtFrame(k + 1, r)'
  BY Zenon, <1>1, <1>2, <1>5, <1>6, <1>7, Advance
<1>9. useNdjson' \in BOOLEAN
  BY Zenon, <1>1 DEF FramingInv
<1>10. BufferShrinks
  BY Zenon, <1>2, <1>5, <1>6, FrameConsumed
<1> QED BY Zenon, <1>1, <1>2, <1>8, <1>9, <1>10 DEF FramingInv

\* The parser rests only where a frame is not complete, and by then it has seen
\* which framing the client uses.
LEMMA WaitForDataInv ==
  ASSUME FramingInv, WaitForData
  PROVE  FramingInv'
<1>1. PICK k \in 0 .. client.frames, r \in Nat :
        /\ r \in 0 .. Len(client.bytes)
        /\ WellFramed(client) /\ AtFrame(k, r)
        /\ k + 1 \in 0 .. client.frames \/ ~(k < client.frames)
        /\ buffer # <<>> => k < client.frames
  BY ParsingAt
<1>2. /\ ~HasLine(buffer)
      /\ ~(HasHeader(buffer) /\ (Lengths(Header(buffer)) = {} \/ BodyComplete(buffer)))
      /\ useNdjson' = (useNdjson \/ StartsWithBrace(buffer))
      /\ parsing' = FALSE
      /\ wire' = wire /\ buffer' = buffer /\ delivered' = delivered /\ client' = client
  BY Zenon DEF WaitForData
<1>3. /\ client.ends[k] <= r
      /\ buffer = SubSeq(client.bytes, client.ends[k] + 1, r)
      /\ wire = After(client.bytes, r)
      /\ delivered = SubSeq(client.messages, 1, client.sent[k])
      /\ useNdjson => client.lines
      /\ client.lines /\ k > 0 => useNdjson
  BY Zenon, <1>1 DEF AtFrame
<1>4. /\ useNdjson \in BOOLEAN /\ client.lines \in BOOLEAN /\ StartsWithBrace(buffer) \in BOOLEAN
      /\ client.bytes \in Seq(Symbol) /\ client.frames \in Nat /\ client.ends[0] = 0
  BY <1>1 DEF FramingInv, WellFramed, StartsWithBrace
<1>5. ASSUME k < client.frames PROVE r < client.ends[k + 1]
  <2>1. client.ends[k + 1] \in 0 .. Len(client.bytes)
    BY Zenon, <1>1, <1>5, CurrentFrame
  <2> SUFFICES ASSUME r >= client.ends[k + 1] PROVE FALSE
    BY <1>1, <1>4, <2>1
  <2>2. CASE client.lines
    BY Zenon, <1>1, <1>2, <1>5, <2>2, LineFrame
  <2>3. CASE ~client.lines
    <3>1. PICK f : f = Frame(client, k + 1)
      OBVIOUS
    <3>2. Agree(f, buffer) /\ f # <<>> /\ Len(buffer) >= Len(f)
      BY Zenon, <1>1, <1>5, <3>1, FrameAndBuffer
    <3>3. IsHeaderFrame(f, Messages(client, k + 1))
      BY Zenon, <1>1, <1>5, <2>3, <3>1, CurrentFrame
    <3>4. HasHeader(buffer)
      BY Zenon, <3>2, <3>3, HeaderFrameRead
    <3>5. \/ BlockRead(f, buffer, Messages(client, k + 1))
          \/ FrameRead(f, buffer, Messages(client, k + 1))
      BY Zenon, <3>2, <3>3, <3>4, HeaderFrameRead
    <3> QED BY Zenon, <1>2, <3>2, <3>4, <3>5 DEF BlockRead, FrameRead, BodyComplete
  <2> QED BY <2>2, <2>3
<1>6. ASSUME ~client.lines PROVE ~StartsWithBrace(buffer)
  <2>1. CASE buffer = <<>>
    BY Zenon, <2>1 DEF StartsWithBrace
  <2>2. CASE buffer # <<>>
    <3>1. k < client.frames
      BY Zenon, <1>1, <2>2
    <3>2. PICK f : f = Frame(client, k + 1)
      OBVIOUS
    <3>3. Agree(f, buffer) /\ f # <<>>
      BY Zenon, <1>1, <3>1, <3>2, FrameAndBuffer
    <3>4. IsHeaderFrame(f, Messages(client, k + 1))
      BY Zenon, <1>1, <1>6, <3>1, <3>2, CurrentFrame
    <3> QED BY Zenon, <3>3, <3>4, HeaderFrameRead
  <2> QED BY <2>1, <2>2
<1>7. ASSUME client.lines, r > 0 PROVE useNdjson \/ StartsWithBrace(buffer)
  <2>1. CASE buffer # <<>>
    BY Zenon, <1>1, <1>7, <2>1, LineFrame
  <2>2. CASE buffer = <<>>
    <3>1. client.ends[k] \in Nat
      <4>1. client.ends \in [0 .. client.frames -> 0 .. Len(client.bytes)]
        BY <1>1 DEF WellFramed
      <4>2. client.ends[k] \in 0 .. Len(client.bytes)
        BY <4>1
      <4> QED BY <4>2
    <3>2. PICK e \in Nat : e = client.ends[k]
      BY <3>1
    <3>3. e \in 0 .. r /\ r \in Nat
      BY <1>1, <1>3, <3>2
    <3>4. Len(SubSeq(client.bytes, e + 1, r)) = r - e
      BY <1>1, <1>4, <3>3, WindowOf
    <3>5. Len(buffer) = r - e
      BY Zenon, <1>3, <3>2, <3>4
    <3>6. Len(buffer) = 0
      BY <2>2
    <3>7. e > 0
      BY <1>7, <3>3, <3>5, <3>6
    <3>8. k # 0
      <4> SUFFICES ASSUME k = 0 PROVE FALSE
        OBVIOUS
      <4>1. e = 0
        BY Zenon, <1>4, <3>2
      <4> QED BY <3>7, <4>1
    <3>9. k > 0
      BY <1>4, <3>8
    <3> QED BY Zenon, <1>3, <1>7, <3>9
  <2> QED BY <2>1, <2>2
<1>8. useNdjson' => client.lines
  BY <1>2, <1>3, <1>6
<1>9. client.lines /\ k > 0 => useNdjson'
  BY <1>2, <1>3
<1>10. r > 0 => useNdjson' = client.lines
  <2>1. client.lines /\ r > 0 => useNdjson'
    BY <1>2, <1>7
  <2>2. useNdjson' \in BOOLEAN
    BY <1>2, <1>4
  <2> QED BY <1>4, <1>8, <2>1, <2>2
<1>11. AtFrame(k, r)'
  BY Zenon, <1>2, <1>3, <1>5, <1>8, <1>9, <1>10 DEF AtFrame
<1>12. useNdjson' \in BOOLEAN /\ parsing' \in BOOLEAN
  BY <1>2, <1>4
<1> QED BY Zenon, <1>1, <1>2, <1>11, <1>12 DEF FramingInv

\* The parser before the first byte.
LEMMA InitFraming == FramingInit /\ WellFramed(client) => FramingInv
<1> SUFFICES ASSUME FramingInit, WellFramed(client) PROVE FramingInv
  OBVIOUS
<1>1. WellFramed(client)
  OBVIOUS
<1>2. PICK z : z = 0
  OBVIOUS
<1>3. /\ client.bytes \in Seq(Symbol) /\ client.messages \in Seq(Nat)
      /\ client.frames \in Nat /\ client.ends[z] = 0 /\ client.sent[z] = 0
      /\ client.frames > 0 => client.ends[z] < client.ends[z + 1]
  <2>1. client.frames > 0 => 1 \in 1 .. client.frames /\ 1 - 1 = z /\ 1 = z + 1
    BY <1>1, <1>2 DEF WellFramed
  <2>2. client.frames > 0 => client.ends[1 - 1] < client.ends[1]
    BY <1>1, <2>1 DEF WellFramed
  <2>3. client.frames > 0 => client.ends[z] < client.ends[z + 1]
    BY Zenon, <2>1, <2>2
  <2> QED BY <1>1, <1>2, <2>3 DEF WellFramed
<1>4. /\ client.ends[z] <= z
      /\ buffer = SubSeq(client.bytes, client.ends[z] + 1, z)
      /\ delivered = SubSeq(client.messages, 1, client.sent[z])
  <2>1. buffer = <<>> /\ delivered = <<>>
    BY DEF FramingInit
  <2>2. SubSeq(client.bytes, 1, 0) = <<>> /\ SubSeq(client.messages, 1, 0) = <<>>
    BY SubSeqEmpty
  <2> QED BY <1>2, <1>3, <2>1, <2>2
<1>5. wire = After(client.bytes, z)
  <2>1. SubSeq(client.bytes, 1, Len(client.bytes)) = client.bytes
    BY <1>3, SubSeqFull
  <2>2. z + 1 = 1
    BY <1>2
  <2> QED BY Zenon, <2>1, <2>2 DEF FramingInit, After
<1>6. parsing = FALSE /\ useNdjson = FALSE
  BY DEF FramingInit
<1>7. z < client.frames => z < client.ends[z + 1]
  BY <1>2, <1>3
<1>8. ~(z > 0)
  BY <1>2
<1>9. AtFrame(z, z)
  BY Zenon, <1>4, <1>5, <1>6, <1>7, <1>8 DEF AtFrame
<1>10. z \in 0 .. client.frames /\ z \in 0 .. Len(client.bytes)
  BY <1>2, <1>3
<1>11. parsing \in BOOLEAN /\ useNdjson \in BOOLEAN
  BY <1>6
<1> QED BY Zenon, <1>1, <1>9, <1>10, <1>11 DEF FramingInv

LEMMA FramingInvariance == FramingSpec => [](WellFramed(client) => FramingInv)
<1> DEFINE Framed == WellFramed(client) => FramingInv
<1>1. FramingInv /\ [FramingNext]_framingVars => FramingInv'
  <2> SUFFICES ASSUME FramingInv, [FramingNext]_framingVars PROVE FramingInv'
    OBVIOUS
  <2>1. CASE Receive
    BY Zenon, <2>1, ReceiveInv
  <2>2. CASE ReadLine
    BY Zenon, <2>2, ReadLineInv
  <2>3. CASE SkipHeader
    BY Zenon, <2>3, SkipHeaderInv
  <2>4. CASE ReadFrame
    BY Zenon, <2>4, ReadFrameInv
  <2>5. CASE WaitForData
    BY Zenon, <2>5, WaitForDataInv
  <2>6. CASE UNCHANGED framingVars
    BY <2>6 DEF framingVars, FramingInv, AtFrame
  <2> QED BY Zenon, <2>1, <2>2, <2>3, <2>4, <2>5, <2>6 DEF FramingNext, Parse
<1>2. FramingInit => Framed
  BY InitFraming
<1>3. Framed /\ [FramingNext]_framingVars => Framed'
  <2> SUFFICES ASSUME Framed, [FramingNext]_framingVars, WellFramed(client') PROVE FramingInv'
    OBVIOUS
  <2>1. client' = client
    BY DEF FramingNext, Receive, Parse, ReadLine, SkipHeader, ReadFrame, WaitForData, framingVars
  <2>2. WellFramed(client)
    BY Zenon, <2>1
  <2> QED BY <1>1, <2>2
<1>4. FramingSpec => []Framed
  <2> HIDE DEF Framed
  <2> QED BY <1>2, <1>3, PTL DEF FramingSpec
<1> QED BY <1>4

\* For every stream of well-formed frames, of any number and length, and however it
\* is cut into chunks, each message is dispatched once and in order, and none stays
\* in the buffer when the parser waits (jsonrpc-stdio.mjs:56-131).
THEOREM FramesAreRead == FramingSpec => []DeliversAllInOrder
<1>1. (WellFramed(client) => FramingInv) => DeliversAllInOrder
  <2> SUFFICES ASSUME FramingInv PROVE DeliversAllInOrder
    BY DEF DeliversAllInOrder
  <2>1. PICK k \in 0 .. client.frames, r \in Nat :
          /\ r \in 0 .. Len(client.bytes)
          /\ WellFramed(client) /\ AtFrame(k, r)
    BY ParsingAt
  <2>2. /\ client.bytes \in Seq(Symbol) /\ client.messages \in Seq(Nat)
        /\ client.frames \in Nat
    BY <2>1 DEF WellFramed
  <2>3. IsPrefix(delivered, client.messages)
    <3>1. PICK n : n = client.sent[k]
      OBVIOUS
    <3>2. n \in 0 .. Len(client.messages) /\ n \in Nat
      BY <2>1, <2>2, <3>1 DEF WellFramed
    <3>3. delivered = SubSeq(client.messages, 1, n)
      BY Zenon, <2>1, <3>1 DEF AtFrame
    <3>4. (\A i \in 1 .. n : client.messages[i] \in Nat) /\ 1 \in Int /\ n \in Int
      BY <2>2, <3>2, ElementOfSeq
    <3>5. delivered \in Seq(Nat) /\ Len(delivered) = n
      BY <3>2, <3>3, <3>4, SubSeqProperties
    <3>6. SubSeq(delivered, 1, Len(delivered)) = delivered
      BY Zenon, <3>5, SubSeqFull
    <3>7. Len(delivered) <= Len(client.messages)
      BY <3>2, <3>5
    <3> QED BY Zenon, <3>3, <3>5, <3>6, <3>7 DEF IsPrefix
  <2>4. ASSUME ~parsing, wire = <<>> PROVE delivered = client.messages /\ buffer = <<>>
    <3>1. r = Len(client.bytes)
      <4>1. PICK L : L = Len(client.bytes)
        OBVIOUS
      <4>2. L \in 0 .. Len(client.bytes) /\ r \in 0 .. L /\ L \in Nat
        BY <2>1, <2>2, <4>1
      <4>3. Len(SubSeq(client.bytes, r + 1, L)) = L - r
        BY <2>2, <4>2, WindowOf
      <4>4. wire = SubSeq(client.bytes, r + 1, L)
        BY Zenon, <2>1, <4>1 DEF AtFrame, After
      <4>5. Len(wire) = 0
        BY <2>4
      <4> QED BY <4>1, <4>2, <4>3, <4>4, <4>5
    <3>2. ~(k < client.frames)
      <4> SUFFICES ASSUME k < client.frames PROVE FALSE
        OBVIOUS
      <4>1. r < client.ends[k + 1]
        BY Zenon, <2>1, <2>4 DEF AtFrame
      <4>2. client.ends[k + 1] \in 0 .. Len(client.bytes)
        BY Zenon, <2>1, CurrentFrame
      <4> QED BY <2>2, <3>1, <4>1, <4>2
    <3> QED BY Zenon, <2>1, <3>2, NothingLeft
  <2> QED BY Zenon, <2>3, <2>4 DEF DeliversAllInOrder
<1> QED BY <1>1, FramingInvariance, PTL

\* Whatever was received of a stream, the answer format is the framing the client
\* uses: even an unfinished line decides it, and nothing inside a body does
\* (jsonrpc-stdio.mjs:59-62, 167-172).
THEOREM AnswersMatchTheClient == FramingSpec => []AnswersInClientFormat
<1>1. (WellFramed(client) => FramingInv) => AnswersInClientFormat
  <2> SUFFICES ASSUME FramingInv PROVE AnswersInClientFormat
    BY DEF AnswersInClientFormat
  <2>1. PICK k \in 0 .. client.frames, r \in Nat :
          /\ r \in 0 .. Len(client.bytes)
          /\ WellFramed(client) /\ AtFrame(k, r)
    BY ParsingAt
  <2>2. wire # client.bytes => r > 0
    <3> SUFFICES ASSUME r = 0 PROVE wire = client.bytes
      BY <2>1
    <3>1. client.bytes \in Seq(Symbol)
      BY <2>1 DEF WellFramed
    <3>2. SubSeq(client.bytes, 1, Len(client.bytes)) = client.bytes
      BY Zenon, <3>1, SubSeqFull
    <3>3. r + 1 = 1
      OBVIOUS
    <3> QED BY Zenon, <2>1, <3>2, <3>3 DEF AtFrame, After
  <2> QED BY Zenon, <2>1, <2>2 DEF AtFrame, AnswersInClientFormat
<1> QED BY <1>1, FramingInvariance, PTL

-----------------------------------------------------------------------------
(* The end of the parse loop, for any stream of symbols: what clients frame   *)
(* well, what they do not, and lengths of either sign.  What is on the wire   *)
(* costs three steps a symbol at most: the event that brings it, the step     *)
(* that consumes it, and the one in which processBuffer returns.             *)

StepsLeft == 3 * Len(wire) + Len(buffer) + (IF parsing THEN 1 ELSE 0)

FramingTyped ==
  /\ client \in Streams
  /\ wire \in Seq(Symbol) /\ buffer \in Seq(Symbol)
  /\ parsing \in BOOLEAN

LEMMA LeastNatural ==
  ASSUME NEW T \in SUBSET Nat, T # {}
  PROVE  \E m \in T : \A k \in T : m <= k
<1> DEFINE Up == {0 .. n : n \in T}
<1>1. Up \subseteq FiniteSubsetsOf(Nat)
  <2>1. \A n \in T : IsFiniteSet(0 .. n) /\ 0 .. n \in SUBSET Nat
    BY FS_Interval
  <2> QED BY <2>1 DEF FiniteSubsetsOf
<1>2. Up # {}
  OBVIOUS
<1>3. IsWellFoundedOn(StrictSubsetOrdering(Nat), FiniteSubsetsOf(Nat))
  BY FS_StrictSubsetOrderingWellFounded
<1> HIDE DEF Up
<1>4. PICK x \in Up : \A y \in Up : ~ (<<y, x>> \in StrictSubsetOrdering(Nat))
  BY <1>1, <1>2, <1>3, WFMin
<1>5. PICK m \in T : x = 0 .. m
  BY DEF Up
<1>6. ASSUME NEW k \in T, ~(m <= k) PROVE FALSE
  <2>1. 0 .. k \in Up
    BY DEF Up
  <2>2. 0 .. k \subseteq 0 .. m /\ 0 .. k # 0 .. m
    BY <1>6
  <2>3. <<0 .. k, x>> \in StrictSubsetOrdering(Nat)
    BY <1>5, <2>2 DEF StrictSubsetOrdering
  <2> QED BY <2>1, <2>3, <1>4
<1> QED BY <1>6

\* The first and the last of some positions of a sequence.
LEMMA FirstAndLast ==
  ASSUME NEW n \in Nat, NEW T \in SUBSET (1 .. n), T # {}
  PROVE  Min(T) \in T /\ Max(T) \in T
<1>1. \E x \in T : \A y \in T : x <= y
  <2>1. T \in SUBSET Nat
    OBVIOUS
  <2> QED BY <2>1, LeastNatural
<1>2. \E x \in T : \A y \in T : x >= y
  <2> DEFINE U == {n - x : x \in T}
  <2>1. U \in SUBSET Nat /\ U # {}
    <3>1. \A x \in T : x \in Nat /\ x <= n
      OBVIOUS
    <3>2. \A x \in T : n - x \in Nat
      BY <3>1
    <3>3. PICK x \in T : TRUE
      OBVIOUS
    <3>4. n - x \in U
      OBVIOUS
    <3> QED BY <3>2, <3>4
  <2>2. PICK u \in U : \A v \in U : u <= v
    <3> HIDE DEF U
    <3> QED BY <2>1, LeastNatural
  <2>3. PICK x \in T : u = n - x
    BY <2>2
  <2>4. ASSUME NEW y \in T PROVE x >= y
    <3>1. n - y \in U
      OBVIOUS
    <3>2. n - x <= n - y
      BY <2>2, <2>3, <3>1
    <3>3. x \in 1 .. n /\ y \in 1 .. n
      OBVIOUS
    <3> QED BY <3>2, <3>3
  <2> QED BY <2>4
<1> QED BY <1>1, <1>2 DEF Min, Max

\* Where a line, a header block and a body end, in any buffer.
LEMMA LineEnds ==
  ASSUME NEW b \in Seq(Symbol), HasLine(b)
  PROVE  Min(Has(b, "newline")) \in 1 .. Len(b)
<1>1. PICK n \in Nat : n = Len(b) /\ DOMAIN b = 1 .. n
  OBVIOUS
<1>2. Has(b, "newline") \in SUBSET (1 .. n) /\ Has(b, "newline") # {}
  BY <1>1 DEF HasLine, Has
<1>3. Min(Has(b, "newline")) \in Has(b, "newline")
  BY Zenon, <1>2, FirstAndLast
<1> QED BY <1>1, <1>2, <1>3

LEMMA HeaderEnds ==
  ASSUME NEW b \in Seq(Symbol), HasHeader(b)
  PROVE  /\ BodyStart(b) \in Int /\ BodyStart(b) - 1 \in 2 .. Len(b)
         /\ Header(b) \in Seq(Symbol)
<1>1. PICK n \in Nat : n = Len(b) /\ DOMAIN b = 1 .. n
  OBVIOUS
<1>2. EmptyLines(b) \in SUBSET (1 .. n) /\ EmptyLines(b) # {}
      /\ \A i \in EmptyLines(b) : i + 1 \in 1 .. n
  BY <1>1 DEF HasHeader, EmptyLines, Has
<1>3. Min(EmptyLines(b)) \in EmptyLines(b)
  BY Zenon, <1>1, <1>2, FirstAndLast
<1>4. PICK m \in Nat : m = Min(EmptyLines(b)) /\ m \in 1 .. n /\ m + 1 \in 1 .. n
  BY <1>2, <1>3
<1>5. BodyStart(b) = m + 2
  BY Zenon, <1>4 DEF BodyStart
<1>6. BodyStart(b) \in Int /\ BodyStart(b) - 1 \in 2 .. Len(b)
  BY <1>1, <1>4, <1>5
<1>7. SubSeq(b, 1, m - 1) \in Seq(Symbol)
  <2>1. \A i \in 1 .. m - 1 : i \in 1 .. Len(b)
    BY <1>1, <1>4
  <2>2. \A i \in 1 .. m - 1 : b[i] \in Symbol
    BY <2>1, ElementOfSeq
  <2>3. 1 \in Int /\ m - 1 \in Int
    BY <1>4
  <2> QED BY <2>2, <2>3, SubSeqProperties
<1>8. Header(b) \in Seq(Symbol)
  BY Zenon, <1>4, <1>7 DEF Header
<1> QED BY <1>6, <1>8

LEMMA LengthIsInteger ==
  ASSUME NEW h \in Seq(Symbol), Lengths(h) # {}
  PROVE  ContentLength(h) \in Int
<1>1. PICK n \in Nat : n = Len(h) /\ DOMAIN h = 1 .. n
  OBVIOUS
<1>2. Lengths(h) \in SUBSET (1 .. n)
  BY <1>1 DEF Lengths, Has
<1>3. PICK i : i = Max(Lengths(h)) /\ i \in 1 .. n
  BY <1>2, FirstAndLast
<1>4. h[i] \in Symbol
  BY <1>1, <1>3, ElementOfSeq
<1>5. h[i].n \in Int
  BY <1>4 DEF Symbol
<1> QED BY Zenon, <1>3, <1>5 DEF ContentLength

\* Where a complete body is cut off, in a buffer of l symbols and at messageEnd e.
LEMMA CutPoint ==
  ASSUME NEW l \in Nat, NEW e \in Int, e <= l
  PROVE  /\ (IF e < 0 THEN Max({l + e, 0}) ELSE e) \in 0 .. l
         /\ e > 0 => (IF e < 0 THEN Max({l + e, 0}) ELSE e) # 0
<1>1. CASE e < 0
  <2>1. CASE l + e >= 0
    <3>1. {l + e, 0} \in SUBSET Nat /\ l + e \in {l + e, 0} /\ \A j \in {l + e, 0} : j <= l + e
      BY <2>1
    <3>2. Max({l + e, 0}) = l + e
      BY <3>1, MaxIs
    <3> QED BY <1>1, <2>1, <3>2
  <2>2. CASE l + e < 0
    <3>1. \A x \in {l + e, 0} : (\A y \in {l + e, 0} : x >= y) <=> x = 0
      BY <2>2
    <3>2. Max({l + e, 0}) = 0
      BY <3>1 DEF Max
    <3> QED BY <1>1, <3>2
  <2> QED BY <2>1, <2>2
<1>2. CASE ~(e < 0)
  BY <1>2
<1> QED BY <1>1, <1>2

\* A header block with a length: messageEnd is an integer.
LEMMA BodyEndIsInteger ==
  ASSUME NEW b \in Seq(Symbol), HasHeader(b), Lengths(Header(b)) # {}
  PROVE  BodyEnd(b) \in Int
<1>1. PICK s \in Int : s = BodyStart(b)
  BY HeaderEnds
<1>2. PICK c \in Int : c = ContentLength(Header(b))
  BY HeaderEnds, LengthIsInteger
<1>3. s + c - 1 \in Int
  OBVIOUS
<1> QED BY Zenon, <1>1, <1>2, <1>3 DEF BodyEnd

\* A complete body ends behind at least one symbol, unless its length overreaches.
LEMMA FrameEnds ==
  ASSUME NEW b \in Seq(Symbol), HasHeader(b), Lengths(Header(b)) # {}, BodyComplete(b),
         ~Overreaches(b)
  PROVE  FrameEnd(b) \in 1 .. Len(b)
<1>1. PICK l \in Nat : l = Len(b)
  OBVIOUS
<1>2. PICK e \in Int : e = BodyEnd(b)
  BY BodyEndIsInteger
<1>3. e <= l
  BY <1>1, <1>2 DEF BodyComplete
<1>4. PICK x : x = FrameEnd(b) /\ x = (IF e < 0 THEN Max({l + e, 0}) ELSE e)
  BY Zenon, <1>1, <1>2 DEF FrameEnd
<1>5. x \in 0 .. l
  BY Zenon, <1>3, <1>4, CutPoint
<1>6. x # 0
  BY Zenon, <1>4 DEF Overreaches
<1> QED BY <1>1, <1>4, <1>5, <1>6

\* An overreaching body is complete, whatever is in the buffer.
LEMMA OverreachIsComplete ==
  ASSUME NEW b \in Seq(Symbol), Overreaches(b)
  PROVE  BodyComplete(b)
<1>1. PICK l \in Nat : l = Len(b)
  OBVIOUS
<1>2. PICK e \in Int : e = BodyEnd(b)
  BY BodyEndIsInteger DEF Overreaches
<1>3. SUFFICES ASSUME e > l PROVE FALSE
  BY <1>1, <1>2 DEF BodyComplete
<1>4. FrameEnd(b) = e
  <2>1. ~(e < 0)
    BY <1>3
  <2> QED BY Zenon, <1>2, <2>1 DEF FrameEnd
<1>5. e = 0
  BY Zenon, <1>4 DEF Overreaches
<1> QED BY <1>3, <1>5

\* What is behind a position of a sequence is shorter than it.
LEMMA AfterIsShorter ==
  ASSUME NEW b \in Seq(Symbol), NEW m \in 1 .. Len(b)
  PROVE  After(b, m) \in Seq(Symbol) /\ Len(After(b, m)) = Len(b) - m
<1>1. PICK l \in Nat : l = Len(b) /\ m \in 1 .. l
  OBVIOUS
<1>2. \A i \in m + 1 .. l : i \in 1 .. Len(b)
  BY <1>1
<1>3. \A i \in m + 1 .. l : b[i] \in Symbol
  BY <1>2, ElementOfSeq
<1>4. m + 1 \in Int /\ l \in Int
  BY <1>1
<1>5. /\ SubSeq(b, m + 1, l) \in Seq(Symbol)
      /\ Len(SubSeq(b, m + 1, l)) = IF m + 1 <= l THEN l - (m + 1) + 1 ELSE 0
  BY <1>3, <1>4, SubSeqProperties
<1>6. Len(SubSeq(b, m + 1, l)) = l - m
  BY <1>1, <1>5
<1> QED BY Zenon, <1>1, <1>5, <1>6 DEF After

\* A round that cuts something off leaves a shorter buffer.
LEMMA RoundShrinks ==
  ASSUME FramingTyped, ReadLine \/ SkipHeader \/ ReadFrame, ~Overreaches(buffer)
  PROVE  buffer' \in Seq(Symbol) /\ BufferShrinks
<1>0. buffer \in Seq(Symbol)
  BY DEF FramingTyped
<1>1. PICK m \in 1 .. Len(buffer) : buffer' = After(buffer, m)
  <2>1. CASE ReadLine
    <3>1. HasLine(buffer) /\ buffer' = After(buffer, Min(Has(buffer, "newline")))
      BY Zenon, <2>1 DEF ReadLine
    <3> QED BY Zenon, <1>0, <3>1, LineEnds
  <2>2. CASE SkipHeader
    <3>1. HasHeader(buffer) /\ buffer' = After(buffer, BodyStart(buffer) - 1)
      BY Zenon, <2>2 DEF SkipHeader
    <3>2. BodyStart(buffer) - 1 \in 2 .. Len(buffer)
      BY Zenon, <1>0, <3>1, HeaderEnds
    <3>3. BodyStart(buffer) - 1 \in 1 .. Len(buffer)
      BY <1>0, <3>2
    <3> QED BY Zenon, <3>1, <3>3
  <2>3. CASE ReadFrame
    <3>1. /\ HasHeader(buffer) /\ Lengths(Header(buffer)) # {} /\ BodyComplete(buffer)
          /\ buffer' = After(buffer, FrameEnd(buffer))
      BY Zenon, <2>3 DEF ReadFrame
    <3> QED BY Zenon, <1>0, <3>1, FrameEnds
  <2> QED BY Zenon, <2>1, <2>2, <2>3
<1>2. After(buffer, m) \in Seq(Symbol) /\ Len(After(buffer, m)) = Len(buffer) - m
  BY Zenon, <1>0, AfterIsShorter
<1>3. PICK l \in Nat : l = Len(buffer)
  BY <1>0
<1>4. m \in 1 .. l /\ Len(buffer') = l - m
  BY Zenon, <1>1, <1>2, <1>3
<1>5. l - m \in Nat /\ l - m < l
  BY <1>4
<1>6. BufferShrinks
  BY Zenon, <1>3, <1>4, <1>5 DEF BufferShrinks
<1> QED BY Zenon, <1>1, <1>2, <1>6

\* A round at an overreaching length cuts nothing off.
LEMMA OverreachKeepsBuffer ==
  ASSUME FramingTyped, Overreaches(buffer), ReadLine \/ SkipHeader \/ ReadFrame
  PROVE  buffer' = buffer
<1>0. buffer \in Seq(Symbol)
  BY DEF FramingTyped
<1>1. HasHeader(buffer) /\ Lengths(Header(buffer)) # {} /\ FrameEnd(buffer) = 0
  BY DEF Overreaches
<1>2. ~HasLine(buffer)
  BY Zenon, <1>1 DEF HasHeader, HasLine
<1>3. ReadFrame
  BY Zenon, <1>1, <1>2 DEF ReadLine, SkipHeader
<1>4. buffer' = After(buffer, 0)
  BY Zenon, <1>1, <1>3 DEF ReadFrame
<1>5. SubSeq(buffer, 1, Len(buffer)) = buffer
  BY Zenon, <1>0, SubSeqFull
<1>6. 0 + 1 = 1
  OBVIOUS
<1> QED BY Zenon, <1>4, <1>5, <1>6 DEF After

\* The only step there is at an overreaching length is such a round.
LEMMA WedgedRound ==
  ASSUME FramingTyped, parsing, Overreaches(buffer), FramingNext
  PROVE  buffer' = buffer /\ wire' = wire /\ parsing' = parsing
<1>1. ~Receive
  BY Zenon DEF Receive
<1>2. ~WaitForData
  <2>1. HasHeader(buffer) /\ BodyComplete(buffer)
    BY Zenon, OverreachIsComplete DEF Overreaches, FramingTyped
  <2> QED BY Zenon, <2>1 DEF WaitForData
<1>3. ReadLine \/ SkipHeader \/ ReadFrame
  BY Zenon, <1>1, <1>2 DEF FramingNext, Parse
<1>4. wire' = wire /\ parsing' = parsing
  BY <1>3 DEF ReadLine, SkipHeader, ReadFrame
<1> QED BY Zenon, <1>3, <1>4, OverreachKeepsBuffer

\* One event of any input stream.
LEMMA ChunkIsTyped ==
  ASSUME FramingTyped, Receive
  PROVE  FramingTyped' /\ ChunkReceived
<1>1. /\ client \in Streams /\ client' = client /\ parsing' = TRUE
      /\ wire \in Seq(Symbol) /\ buffer \in Seq(Symbol)
  BY DEF FramingTyped, Receive
<1>2. PICK n \in 1 .. Len(wire) :
        buffer' = buffer \o SubSeq(wire, 1, n) /\ wire' = After(wire, n)
  BY DEF Receive
<1>3. PICK u \in Nat, v \in Nat : u = Len(wire) /\ v = Len(buffer) /\ n \in 1 .. u
  BY <1>1
<1>4. wire' \in Seq(Symbol) /\ Len(wire') = u - n
  BY Zenon, <1>1, <1>2, <1>3, AfterIsShorter
<1>5. SubSeq(wire, 1, n) \in Seq(Symbol) /\ Len(SubSeq(wire, 1, n)) = n
  <2>1. \A i \in 1 .. n : i \in 1 .. Len(wire)
    BY <1>3
  <2>2. \A i \in 1 .. n : wire[i] \in Symbol
    BY <1>1, <2>1, ElementOfSeq
  <2>3. 1 \in Int /\ n \in Int
    BY <1>3
  <2>4. /\ SubSeq(wire, 1, n) \in Seq(Symbol)
        /\ Len(SubSeq(wire, 1, n)) = IF 1 <= n THEN n - 1 + 1 ELSE 0
    BY <2>2, <2>3, SubSeqProperties
  <2> QED BY <1>3, <2>4
<1>6. buffer' \in Seq(Symbol) /\ Len(buffer') = v + n
  BY <1>1, <1>2, <1>3, <1>5, ConcatProperties
<1>7. FramingTyped'
  BY Zenon, <1>1, <1>4, <1>6 DEF FramingTyped
<1>8. ChunkReceived
  BY <1>3, <1>4, <1>6 DEF ChunkReceived
<1> QED BY <1>7, <1>8

LEMMA TypedStep == FramingTyped /\ [FramingNext]_framingVars => FramingTyped'
<1> SUFFICES ASSUME FramingTyped, [FramingNext]_framingVars PROVE FramingTyped'
  OBVIOUS
<1>1. CASE Receive
  BY Zenon, <1>1, ChunkIsTyped
<1>2. CASE ReadLine \/ SkipHeader \/ ReadFrame
  <2>1. /\ wire' = wire /\ parsing' = parsing /\ client' = client
    BY <1>2 DEF ReadLine, SkipHeader, ReadFrame
  <2>2. buffer' \in Seq(Symbol)
    <3>1. CASE Overreaches(buffer)
      BY Zenon, <1>2, <3>1, OverreachKeepsBuffer DEF FramingTyped
    <3>2. CASE ~Overreaches(buffer)
      BY Zenon, <1>2, <3>2, RoundShrinks
    <3> QED BY <3>1, <3>2
  <2> QED BY Zenon, <2>1, <2>2 DEF FramingTyped
<1>3. CASE WaitForData \/ UNCHANGED framingVars
  <2>1. /\ wire' = wire /\ buffer' = buffer /\ client' = client
        /\ parsing' = parsing \/ parsing' = FALSE
    BY <1>3 DEF WaitForData, framingVars
  <2> QED BY <2>1 DEF FramingTyped
<1> QED BY <1>1, <1>2, <1>3 DEF FramingNext, Parse

LEMMA TypedStart == FramingInit => FramingTyped
<1> SUFFICES ASSUME FramingInit PROVE FramingTyped
  OBVIOUS
<1>1. client \in Streams /\ wire = client.bytes /\ buffer = <<>> /\ parsing = FALSE
  BY DEF FramingInit
<1>2. client.bytes \in Seq(Symbol) /\ <<>> \in Seq(Symbol)
  BY <1>1, StreamsAssumption
<1> QED BY <1>1, <1>2 DEF FramingTyped

\* Any step but a round at an overreaching length leaves fewer steps: every chunk,
\* line, header block and body, good or malformed, well framed or not, and whatever
\* the sign of its length (jsonrpc-stdio.mjs:57-131).  A stuttering round would not
\* satisfy it, so a loop that spins without consuming would not.
THEOREM RoundsConsume ==
  ASSUME FramingTyped, FramingNext, ~(parsing /\ Overreaches(buffer))
  PROVE  StepsLeft \in Nat /\ StepsLeft' \in Nat /\ StepsLeft' < StepsLeft
<1>1. PICK m \in Nat, n \in Nat : m = Len(wire) /\ n = Len(buffer)
  BY DEF FramingTyped
<1>2. CASE Receive
  <2>1. ~parsing /\ parsing'
    BY <1>2 DEF Receive
  <2>2. ChunkReceived
    BY Zenon, <1>2, ChunkIsTyped
  <2>3. PICK m1 \in Nat, n1 \in Nat : m1 = Len(wire') /\ n1 = Len(buffer')
    BY <2>2 DEF ChunkReceived
  <2>4. m1 < m /\ m1 + n1 = m + n
    BY Zenon, <1>1, <2>2, <2>3 DEF ChunkReceived
  <2>5. StepsLeft = 3 * m + n /\ StepsLeft' = 3 * m1 + n1 + 1
    BY <1>1, <2>1, <2>3 DEF StepsLeft
  <2> QED BY <2>4, <2>5
<1>3. CASE ReadLine \/ SkipHeader \/ ReadFrame
  <2>1. parsing /\ parsing' /\ wire' = wire
    BY <1>3 DEF ReadLine, SkipHeader, ReadFrame
  <2>2. BufferShrinks
    BY Zenon, <1>3, <2>1, RoundShrinks
  <2>3. PICK n1 \in Nat : n1 = Len(buffer') /\ n1 < n
    BY <1>1, <2>2 DEF BufferShrinks
  <2>4. StepsLeft = 3 * m + n + 1 /\ StepsLeft' = 3 * m + n1 + 1
    BY <1>1, <2>1, <2>3 DEF StepsLeft
  <2> QED BY <2>3, <2>4
<1>4. CASE WaitForData
  <2>1. parsing /\ ~parsing' /\ wire' = wire /\ buffer' = buffer
    BY <1>4 DEF WaitForData
  <2>2. StepsLeft = 3 * m + n + 1 /\ StepsLeft' = 3 * m + n
    BY <1>1, <2>1 DEF StepsLeft
  <2> QED BY <2>2
<1> QED BY <1>2, <1>3, <1>4 DEF FramingNext, Parse

\* A client that frames well never makes a length overreach.
LEMMA GoodFramesEnd == FramingInv => ~Overreaches(buffer)
<1> SUFFICES ASSUME FramingInv, Overreaches(buffer) PROVE FALSE
  OBVIOUS
<1>1. HasHeader(buffer) /\ Lengths(Header(buffer)) # {} /\ FrameEnd(buffer) = 0
  BY DEF Overreaches
<1>2. PICK k \in 0 .. client.frames, r \in 0 .. Len(client.bytes) :
        /\ WellFramed(client) /\ AtFrame(k, r) /\ k < client.frames
        /\ FrameRead(Frame(client, k + 1), buffer, Messages(client, k + 1))
  BY Zenon, <1>1, HeaderAt DEF BlockRead
<1>3. BodyEnd(buffer) = Len(Frame(client, k + 1))
  BY Zenon, <1>2 DEF FrameRead
<1>4. Len(Frame(client, k + 1)) # 0 /\ ~(Len(Frame(client, k + 1)) < 0)
  BY Zenon, <1>2, FrameLength
<1> QED BY Zenon, <1>1, <1>3, <1>4 DEF FrameEnd

\* Every run of the parser over any stream takes at most three steps for a symbol
\* that are not rounds at an overreaching length, and on a well-framed stream there
\* is no such length: with RoundsConsume, what OnlyOverreachWedges and, for clients
\* that frame well, LoopReturns ask for, short of the fairness that makes the loop
\* go on (the while loop of processBuffer, jsonrpc-stdio.mjs:57-131).
THEOREM ParsingIsBounded ==
  FramingSpec => [](/\ FramingTyped
                    /\ StepsLeft <= 3 * Len(client.bytes)
                    /\ WellFramed(client) => ~Overreaches(buffer))
<1> DEFINE Bounded == FramingTyped /\ StepsLeft <= 3 * Len(client.bytes)
           Good == WellFramed(client) => ~Overreaches(buffer)
<1>1. FramingInit => Bounded
  <2> SUFFICES ASSUME FramingInit PROVE StepsLeft <= 3 * Len(client.bytes)
    BY TypedStart
  <2>1. wire = client.bytes /\ buffer = <<>> /\ ~parsing
    BY DEF FramingInit
  <2>2. client.bytes \in Seq(Symbol)
    BY StreamsAssumption DEF FramingInit
  <2>3. PICK n \in Nat : n = Len(client.bytes)
    BY <2>2
  <2> QED BY <2>1, <2>3 DEF StepsLeft
<1>2. Bounded /\ [FramingNext]_framingVars => Bounded'
  <2> SUFFICES ASSUME Bounded, [FramingNext]_framingVars
               PROVE  StepsLeft' <= 3 * Len(client'.bytes)
    BY TypedStep
  <2>1. CASE UNCHANGED framingVars
    BY <2>1 DEF framingVars, StepsLeft
  <2>2. CASE FramingNext
    <3>1. client' = client
      BY <2>2 DEF FramingNext, Receive, Parse, ReadLine, SkipHeader, ReadFrame, WaitForData
    <3>2. PICK n \in Nat : n = Len(client.bytes)
      BY StreamsAssumption DEF FramingTyped
    <3>3. CASE ~(parsing /\ Overreaches(buffer))
      <4>1. PICK u \in Nat, v \in Nat : u = StepsLeft /\ v = StepsLeft' /\ v < u
        BY <2>2, <3>3, RoundsConsume
      <4> QED BY <3>1, <3>2, <4>1
    <3>4. CASE parsing /\ Overreaches(buffer)
      <4>1. StepsLeft' = StepsLeft
        BY Zenon, <2>2, <3>4, WedgedRound DEF StepsLeft
      <4> QED BY Zenon, <3>1, <4>1
    <3> QED BY <3>3, <3>4
  <2> QED BY <2>1, <2>2
<1>3. FramingSpec => []Bounded
  <2> HIDE DEF Bounded
  <2> QED BY <1>1, <1>2, PTL DEF FramingSpec
<1>4. (WellFramed(client) => FramingInv) => Good
  BY GoodFramesEnd
<1>5. FramingSpec => []Good
  <2> HIDE DEF Good
  <2> QED BY <1>4, FramingInvariance, PTL
<1>6. Bounded /\ Good => /\ FramingTyped
                         /\ StepsLeft <= 3 * Len(client.bytes)
                         /\ WellFramed(client) => ~Overreaches(buffer)
  OBVIOUS
<1> HIDE DEF Bounded, Good
<1> QED BY <1>3, <1>5, <1>6, PTL

\* Once a length overreaches, the parser never reads anything again: the buffer is
\* cut at its own start on every round, processBuffer never returns, and nothing more
\* is received (jsonrpc-stdio.mjs:107-121).
THEOREM OverreachIsForGood ==
  FramingSpec => [](parsing /\ Overreaches(buffer) => [](parsing /\ Overreaches(buffer)))
<1> DEFINE Wedged == parsing /\ Overreaches(buffer)
<1>1. FramingTyped /\ Wedged /\ [FramingNext]_framingVars => Wedged'
  <2> SUFFICES ASSUME FramingTyped, Wedged, [FramingNext]_framingVars PROVE Wedged'
    OBVIOUS
  <2>1. buffer' = buffer /\ parsing'
    BY WedgedRound DEF framingVars
  <2> QED BY Zenon, <2>1
<1>2. FramingSpec => []FramingTyped
  BY TypedStart, TypedStep, PTL DEF FramingSpec
<1>3. FramingSpec => [](Wedged => []Wedged)
  <2> HIDE DEF Wedged
  <2> QED BY <1>1, <1>2, PTL DEF FramingSpec
<1> QED BY <1>3
=============================================================================
