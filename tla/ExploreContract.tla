-------------------------- MODULE ExploreContract ---------------------------
(***************************************************************************)
(* What explore() promises to the agent that called it (DESIGN.md, "State  *)
(* reduction"): the obligations it takes on only grow, they are judged at  *)
(* most twice, a positive outcome means that the last judgement proved     *)
(* every one of them, and an answer is final.                              *)
(***************************************************************************)
EXTENDS Naturals

CONSTANT Goals

VARIABLES
  required,  \* the request parts the run has taken on
  proved,    \* those the last judgement found supported
  judged,    \* judgements so far
  outcome    \* "running", or the state handed to the parent

cvars == <<required, proved, judged, outcome>>

Outcomes == {"complete", "verify_targets", "incomplete", "failed"}

Init == required = {} /\ proved = {} /\ judged = 0 /\ outcome = "running"

Require ==
  /\ outcome = "running"
  /\ \E more \in SUBSET Goals : required' = required \union more
  /\ UNCHANGED <<proved, judged, outcome>>

\* A second judgement may withdraw what the first one granted.
Judge ==
  /\ outcome = "running"
  /\ judged < 2
  /\ proved' \in SUBSET required
  /\ judged' = judged + 1
  /\ UNCHANGED <<required, outcome>>

Answer ==
  /\ outcome = "running"
  /\ required # {}
  /\ outcome' \in {"complete", "verify_targets", "incomplete"}
  /\ outcome' # "incomplete" => judged > 0 /\ proved = required
  /\ UNCHANGED <<required, proved, judged>>

GiveUp ==
  /\ outcome = "running"
  /\ outcome' = "failed"
  /\ UNCHANGED <<required, proved, judged>>

Next == Require \/ Judge \/ Answer \/ GiveUp

Spec == Init /\ [][Next]_cvars
=============================================================================
