----------------------------- MODULE McpSession -----------------------------
(***************************************************************************)
(* One MCP server process: concurrent tool calls and their cancellation    *)
(* (src/mcp/server.mjs), the serialised output of answers and progress     *)
(* notifications (src/mcp/jsonrpc-stdio.mjs) and the two ways the process   *)
(* ends (src/index.mjs).                                                   *)
(*                                                                         *)
(* A call is one tools/call message; its id is what the client put on it.  *)
(* What explore() does is one step here, Commit: GoalLedger shows that a   *)
(* call whose signal is raised before that step is reported as aborted.    *)
(***************************************************************************)
EXTENDS Naturals, Sequences, FiniteSets

CONSTANTS
  Calls,       \* tools/call messages the client may send
  Ids,         \* request ids it may use
  NoId,        \* "id": null
  NoCall,      \* no entry in the controller table
  MaxProgress  \* bound: progress notifications of one call

ASSUME SessionAssumption ==
  NoId \notin Ids /\ NoCall \notin Calls /\ MaxProgress \in Nat

VARIABLES
  phase,      \* of each call: new, running, done
  id,         \* its request id
  active,     \* activeAbortControllers
  signalled,  \* calls whose AbortController has aborted
  outcome,    \* what the call is going to answer
  ticks,      \* progress notifications it has sent
  outbox,     \* _sendQueue: chunks not yet written, the first one first
  writing,    \* process.stdout.write of the first chunk is under way
  written,    \* chunks the client received
  server,     \* open, stopping (signal received) or exited
  cancels     \* calls the client tried to cancel before their answer arrived

vars == <<phase, id, active, signalled, outcome, ticks, outbox, writing,
          written, server, cancels>>
call == <<phase, id, outcome, ticks>>

-----------------------------------------------------------------------------
Chunk == [call : Calls, kind : {"progress", "answer"}]
Progress(c) == [call |-> c, kind |-> "progress"]
Answer(c) == [call |-> c, kind |-> "answer"]

Sent(q, c) == \E k \in DOMAIN q : q[k] = Answer(c)
Running == {c \in Calls : phase[c] = "running"}

\* A client never uses an id again before it has read the answer to it.
Unused(i) == \A c \in Calls : phase[c] # "new" /\ id[c] = i => Sent(written, c)

Init ==
  /\ phase = [c \in Calls |-> "new"]
  /\ id = [c \in Calls |-> NoId]
  /\ active = [i \in Ids |-> NoCall]
  /\ signalled = {}
  /\ outcome = [c \in Calls |-> "none"]
  /\ ticks = [c \in Calls |-> 0]
  /\ outbox = <<>>
  /\ writing = FALSE
  /\ written = <<>>
  /\ server = "open"
  /\ cancels = {}

-----------------------------------------------------------------------------
\* callTool registers the controller before its first await.
CallTool(c) ==
  /\ server = "open"
  /\ phase[c] = "new"
  /\ \E i \in Ids \union {NoId} :
       /\ i # NoId => Unused(i)
       /\ id' = [id EXCEPT ![c] = i]
       /\ active' = IF i # NoId THEN [active EXCEPT ![i] = c] ELSE active
  /\ phase' = [phase EXCEPT ![c] = "running"]
  /\ UNCHANGED <<signalled, outcome, ticks, outbox, writing, written, server, cancels>>

\* ping, tools/list, an unknown method or invalid arguments: answered at once,
\* without a controller.
AnswerAtOnce(c) ==
  /\ server = "open"
  /\ phase[c] = "new"
  /\ \E i \in Ids : Unused(i) /\ id' = [id EXCEPT ![c] = i]
  /\ phase' = [phase EXCEPT ![c] = "done"]
  /\ outbox' = Append(outbox, Answer(c))
  /\ UNCHANGED <<active, signalled, outcome, ticks, writing, written, server, cancels>>

\* Mutant: a progress callback that outlives its call.
ReportLate(c) ==
  /\ server # "exited"
  /\ phase[c] # "new"
  /\ ticks[c] < MaxProgress
  /\ ticks' = [ticks EXCEPT ![c] = @ + 1]
  /\ outbox' = Append(outbox, Progress(c))
  /\ UNCHANGED <<phase, id, outcome, active, signalled, writing, written, server, cancels>>

\* makeProgressCallback
Report(c) ==
  /\ server # "exited"
  /\ phase[c] = "running"
  /\ outcome[c] = "none"
  /\ ticks[c] < MaxProgress
  /\ ticks' = [ticks EXCEPT ![c] = @ + 1]
  /\ outbox' = Append(outbox, Progress(c))
  /\ UNCHANGED <<phase, id, outcome, active, signalled, writing, written, server, cancels>>

\* explore() decides what it returns; a raised signal decides it.
Commit(c) ==
  /\ server # "exited"
  /\ phase[c] = "running"
  /\ outcome[c] = "none"
  /\ \E o \in IF c \in signalled THEN {"aborted"} ELSE {"result", "failed"} :
       outcome' = [outcome EXCEPT ![c] = o]
  /\ UNCHANGED <<phase, id, ticks, active, signalled, outbox, writing, written, server, cancels>>

\* Mutant: the entry of a finished call stays.
KeepEntry(i) == active

\* activeAbortControllers.delete, by id alone.
DeleteEntry(i) == IF i # NoId THEN [active EXCEPT ![i] = NoCall] ELSE active

\* callTool's finally, the mapping of errors to handled results, and send.
Return(c) ==
  /\ server # "exited"
  /\ phase[c] = "running"
  /\ outcome[c] # "none"
  /\ active' = DeleteEntry(id[c])
  /\ phase' = [phase EXCEPT ![c] = "done"]
  /\ outbox' = Append(outbox, Answer(c))
  /\ UNCHANGED <<id, outcome, ticks, signalled, writing, written, server, cancels>>

\* Mutant: the entry is removed without aborting it.
ForgetEntry(i) ==
  /\ active' = DeleteEntry(i)
  /\ UNCHANGED signalled

AbortEntry(i) ==
  /\ signalled' = signalled \union {active[i]}
  /\ active' = DeleteEntry(i)

\* notifications/cancelled: an id without a controller is ignored.
Cancel(i) ==
  /\ server = "open"
  /\ IF active[i] # NoCall THEN AbortEntry(i) ELSE UNCHANGED <<active, signalled>>
  /\ cancels' = cancels \union
       {c \in Calls : phase[c] # "new" /\ id[c] = i /\ ~Sent(written, c)}
  /\ UNCHANGED <<call, outbox, writing, written, server>>

-----------------------------------------------------------------------------
(* Output: one chunk at a time, in the order of send *)

StartWrite ==
  /\ server # "exited"
  /\ outbox # <<>>
  /\ ~writing
  /\ writing' = TRUE
  /\ UNCHANGED <<call, active, signalled, outbox, written, server, cancels>>

\* Mutant: a chunk whose write failed is queued again, for ever if need be.
EndWriteOrRetry ==
  /\ server # "exited"
  /\ writing
  /\ \/ /\ written' = Append(written, Head(outbox))
        /\ outbox' = Tail(outbox)
     \/ /\ UNCHANGED written
        /\ outbox' = Append(Tail(outbox), Head(outbox))
  /\ writing' = FALSE
  /\ UNCHANGED <<call, active, signalled, server, cancels>>

\* A write that fails loses its chunk, and the chain goes on.
EndWrite ==
  /\ server # "exited"
  /\ writing
  /\ \/ written' = Append(written, Head(outbox))
     \/ UNCHANGED written
  /\ outbox' = Tail(outbox)
  /\ writing' = FALSE
  /\ UNCHANGED <<call, active, signalled, server, cancels>>

-----------------------------------------------------------------------------
(* The end of the process *)

\* 'end' on stdin: process.exit(0), whatever is still running.
StdinEnd ==
  /\ server = "open"
  /\ server' = "exited"
  /\ UNCHANGED <<call, active, signalled, outbox, writing, written, cancels>>

\* createShutdownHandler: stop reading, let the process drain.
Shutdown ==
  /\ server = "open"
  /\ server' = "stopping"
  /\ UNCHANGED <<call, active, signalled, outbox, writing, written, cancels>>

\* Nothing keeps the event loop alive any more.
Drain ==
  /\ server = "stopping"
  /\ Running = {}
  /\ outbox = <<>>
  /\ server' = "exited"
  /\ UNCHANGED <<call, active, signalled, outbox, writing, written, cancels>>

\* Mutant: the timer is there for calls that hang only.
FailsafeForCalls ==
  /\ server = "stopping"
  /\ Running # {}
  /\ server' = "exited"
  /\ UNCHANGED <<call, active, signalled, outbox, writing, written, cancels>>

\* The unreferenced timer fires only while something else keeps the process.
Failsafe ==
  /\ server = "stopping"
  /\ Running # {} \/ outbox # <<>>
  /\ server' = "exited"
  /\ UNCHANGED <<call, active, signalled, outbox, writing, written, cancels>>

-----------------------------------------------------------------------------
Serve(c) == CallTool(c) \/ AnswerAtOnce(c) \/ Report(c) \/ Commit(c) \/ Return(c)

Next ==
  \/ \E c \in Calls : Serve(c)
  \/ \E i \in Ids : Cancel(i)
  \/ StartWrite \/ EndWrite
  \/ StdinEnd \/ Shutdown \/ Drain \/ Failsafe

\* explore() returns (Termination of GoalLedger) and the event loop runs what is
\* ready.  The client need not send, cancel or read anything.
Fairness ==
  /\ \A c \in Calls : WF_vars(Commit(c)) /\ WF_vars(Return(c))
  /\ WF_vars(StartWrite)
  /\ WF_vars(Drain \/ Failsafe)

Spec == Init /\ [][Next]_vars /\ Fairness

-----------------------------------------------------------------------------
(* Properties *)

\* Type invariant.
TypeOK ==
  /\ phase \in [Calls -> {"new", "running", "done"}]
  /\ id \in [Calls -> Ids \union {NoId}]
  /\ active \in [Ids -> Calls \union {NoCall}]
  /\ signalled \subseteq Calls
  /\ outcome \in [Calls -> {"none", "result", "failed", "aborted"}]
  /\ ticks \in [Calls -> 0..MaxProgress]
  /\ outbox \in Seq(Chunk)
  /\ writing \in BOOLEAN
  /\ written \in Seq(Chunk)
  /\ server \in {"open", "stopping", "exited"}
  /\ cancels \subseteq Calls

\* The controller table, keyed by id and deleted by id from two places, holds
\* exactly the running calls nobody has cancelled yet: no controller leaks, and
\* none is lost to another call that used the same id.
TableIsExact ==
  \A i \in Ids, c \in Calls :
    active[i] = c <=> id[c] = i /\ phase[c] = "running" /\ c \notin signalled

\* A cancellation reaches the call it names while it runs, and no other call is
\* ever aborted.
CancelHitsItsCall ==
  /\ \A c \in cancels : phase[c] = "running" => c \in signalled
  /\ \A c \in Calls : c \in signalled \/ outcome[c] = "aborted" => c \in cancels

\* An answer on its way belongs to a call that is over.
AnswersAreDone ==
  /\ \A c \in Calls : Sent(written, c) \/ Sent(outbox, c) => phase[c] = "done"
  /\ writing => outbox # <<>>

\* Running calls have ids of their own, and a call not made yet has no history.
Alone == \A c, d \in Running : id[c] = id[d] /\ id[c] # NoId => c = d
Fresh == \A c \in Calls : phase[c] = "new" => c \notin cancels /\ outcome[c] = "none"

\* The inductive invariant behind the theorems of McpServerProofs.
SessionInv ==
  /\ TypeOK
  /\ TableIsExact
  /\ CancelHitsItsCall
  /\ AnswersAreDone
  /\ Alone
  /\ Fresh

\* A client reads the progress of a call before its answer, and one answer.
ProgressPrecedesAnswer ==
  LET stream == written \o outbox IN
  \A j, k \in DOMAIN stream :
    j < k /\ stream[j].kind = "answer" => stream[j].call # stream[k].call

\* If the client keeps reading, every call it made leaves the server, although a
\* write may fail on the way, unless the process ends first.
EveryCallIsAnswered ==
  WF_vars(EndWrite) =>
    \A c \in Calls : phase[c] = "running" ~>
      server = "exited" \/ (phase[c] = "done" /\ ~Sent(outbox, c))

\* A signalled process ends, even when its client has stopped reading.
ShutdownCompletes == server = "stopping" ~> server = "exited"
=============================================================================
