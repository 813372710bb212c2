----------------------------- MODULE MCClaimPass -----------------------------
(* One task per kind of proof the pass knows.                               *)
EXTENDS ClaimPass

CONSTANTS s1, s2, t1, t2, f1, z1, n1, v1, l1, h1, p1, p2, pt, g1, g2, g3, c1, c2

Item(kind, path, role) ==
  [kind |-> kind, path |-> path, role |-> role, defines |-> FALSE, complete |-> FALSE,
   matches |-> 0, predicate |-> FALSE, usage |-> FALSE, items |-> {}, count |-> NoCount]
Search(matches, predicate, items, count) ==
  [Item("search", None, None) EXCEPT !.complete = TRUE, !.matches = matches,
   !.predicate = predicate, !.items = items, !.count = count]

\* Two implementation files, a test that mentions one of them, another test, a
\* fresh source, a search without matches, a count, a listing of the whole scope,
\* a search that lists a file and its test, a commit.
MCObservation ==
  s1 :> [Item("source", p1, "implementation") EXCEPT !.defines = TRUE]
  @@ s2 :> Item("source", p2, "implementation")
  @@ t1 :> [Item("source", pt, "test") EXCEPT !.items = {p1}]
  @@ t2 :> Item("source", p2, "test")
  @@ f1 :> Item("source", p1, "implementation")
  @@ z1 :> Search(0, TRUE, {}, <<"files", 0>>)
  @@ n1 :> Search(2, TRUE, {p1, p2}, <<"files", 2>>)
  @@ v1 :> [Search(1, TRUE, {p1}, <<"files", 1>>) EXCEPT !.usage = TRUE]
  @@ l1 :> Search(2, TRUE, {p1, pt}, NoCount)
  @@ h1 :> Item("git", p1, None)

MCGoal(id, policy, traits) == [id |-> id, policy |-> policy, traits |-> traits]
\* A claim for every id and each of these sets of evidence.
Claims(goal, ids, citations) ==
  {[id |-> id, goal |-> goal, text |-> Text("said", {}, FALSE), refs |-> refs, measure |-> NoCount] :
     id \in ids, refs \in citations}
\* The same claims in words that name the file, after "is defined in" or not.
NamingFile(path, leads, offers) ==
  {[o EXCEPT !.text.names = {path}, !.text.leads = leads] : o \in offers}
MCTask(wrapper, goals, observed, fresh, offers) ==
  [wrapper |-> wrapper, goals |-> goals, anchor |-> pt, observed |-> observed, fresh |-> fresh,
   offers |-> offers]

Comparing ==
  MCTask("explore_repo", <<MCGoal(g1, "distinct_policy_paths", {}),
                           MCGoal(g2, "direct_source", {"one_test"})>>,
         {s1, s2, t1}, {f1},
         Claims(g1, {c1}, {{s1, s2}, {s1, s2, f1}})
           \union Claims(g2, {c1}, {{t1}}) \union Claims(g2, {c2}, {{s1, t1}, {s1}}))
Collecting ==
  MCTask("collect_evidence", <<MCGoal(g1, "support_or_refute", {"collect"})>>,
         {s1, z1}, {f1}, Claims(g1, {c1}, {{s1, z1}, {z1}, {}}) \union Claims(g1, {c2}, {{s1, f1}}))
Deciding ==
  MCTask("explore_repo", <<MCGoal(g1, "support_or_refute", {})>>,
         {s1, z1}, {f1}, Claims(g1, {c1}, {{s1, z1}, {z1}}) \union Claims(g1, {c2}, {{z1}, {f1}}))
Excluding ==
  MCTask("explore_repo", <<MCGoal(g1, "bounded_absence", {}),
                           MCGoal(g2, "distinct_policy_paths", {"exhaustive"})>>,
         {s1, s2, z1}, {}, Claims(g1, {c1}, {{z1}}) \union Claims(g2, {c1, c2}, {{s1, s2, z1}}))
Counting ==
  LET counted(refs, measure) ==
        {[c EXCEPT !.measure = measure] : c \in Claims(g1, {c1}, {refs})}
  IN MCTask("explore_repo", <<MCGoal(g1, "deterministic_count", {})>>, {s1, n1, v1}, {f1},
            Claims(g1, {c1, c2}, {{n1}}) \union counted({n1}, <<"files", 2>>)
              \union counted({n1}, <<"files", 1>>) \union counted({n1, v1}, <<"files", 1>>)
              \union counted({f1}, <<"files", 1>>))
Surveying ==
  MCTask("explore_repo", <<MCGoal(g1, "impact_categories", {})>>,
         {s1, v1}, {f1}, Claims(g1, {c1}, {{s1, v1}, {s1}}) \union Claims(g1, {c2}, {{f1, v1}}))
Tracing ==
  MCTask("trace_symbol", <<MCGoal(g1, "symbol_definition", {"definition"}),
                           MCGoal(g2, "bounded_usage_cross_check", {"usage"})>>,
         {s1, v1}, {f1}, NamingFile(p1, TRUE, Claims(g1, {c1}, {{s1, v1}, {s1, f1}}))
                           \union Claims(g2, {c1, c2}, {{s1}}))
\* The definition is first read by the repair, and a usage search listed it before.
TracingLater ==
  MCTask("trace_symbol", <<MCGoal(g1, "symbol_definition", {"definition"}),
                           MCGoal(g2, "bounded_usage_cross_check", {"usage"})>>,
         {s2, v1, n1}, {s1}, NamingFile(p1, TRUE, Claims(g1, {c1}, {{s2}, {s1, s2}}))
                               \union NamingFile(p1, FALSE, Claims(g1, {c1}, {{s2}}))
                               \union Claims(g2, {c2}, {{n1}, {s1, n1}}))
\* The repair finds another file of the change.
Mapping ==
  MCTask("map_change_impact", <<MCGoal(g1, "impact_categories", {"part", "impact"}),
                                MCGoal(g2, "impact_categories", {"part", "impact", "risk"})>>,
         {s1, v1}, {s2}, Claims(g1, {c1}, {{s1, v1}, {s2}}) \union Claims(g2, {c2}, {{s1}, {s2}}))
\* The repair reads the test beside the code, which a search may have listed.
Updating ==
  MCTask("find_relevant_code", <<MCGoal(g1, "direct_source", {"companion"}),
                                 MCGoal(g2, "direct_source", {})>>,
         {s1}, {t1}, Claims(g1, {c1}, {{s1}, {s1, t1}}) \union Claims(g2, {c2}, {{s1}}))
Completing ==
  MCTask("find_relevant_code", <<MCGoal(g1, "direct_source", {"companion"})>>,
         {s1, l1}, {t1}, Claims(g1, {c1}, {{s1}, {s1, t1}}))
Explaining ==
  MCTask("explain_code_path", <<MCGoal(g1, "ordered_handoffs", {"part"}),
                                MCGoal(g3, "ordered_handoffs", {"part"}),
                                MCGoal(g2, "direct_source", {"historical"})>>,
         {s1, h1}, {f1},
         Claims(g1, {c1}, {{s1}, {f1}}) \union Claims(g3, {c2}, {{s1}})
           \union Claims(g2, {c1}, {{h1}, {s1}}))
\* Nothing the goal may cite was observed before the repair.
Waiting ==
  MCTask("explore_repo", <<MCGoal(g1, "direct_source", {})>>, {z1}, {f1},
         Claims(g1, {c1}, {{f1}, {z1}}))
\* Asked together at first, the test goal may be asked alone after the repair.
Testing ==
  MCTask("explore_repo", <<MCGoal(g1, "direct_source", {}),
                           MCGoal(g2, "direct_source", {"one_test"})>>,
         {s1, t1}, {f1}, Claims(g1, {c1}, {{s1}}) \union Claims(g2, {c2}, {{s1, t1}}))
\* The test the caller named is first read by the repair: a claim about another
\* test is set aside, and its id is free for the other goal.
Replacing ==
  MCTask("explore_repo", <<MCGoal(g2, "direct_source", {"one_test"}),
                           MCGoal(g1, "symbol_definition", {})>>,
         {s1, t2}, {t1}, Claims(g2, {c1}, {{t2}}) \union Claims(g1, {c1, c2}, {{s1}}))

MCTasks == {Comparing, Collecting, Deciding, Excluding, Counting, Surveying, Tracing, TracingLater,
            Mapping, Updating, Completing, Explaining, Waiting, Testing, Replacing}
=============================================================================
