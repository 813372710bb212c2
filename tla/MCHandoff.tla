------------------------------- MODULE MCHandoff -------------------------------
(* One task per way evidence reaches the parent.                            *)
EXTENDS Handoff

CONSTANTS s1, s2, b1, r1, z1, n1, l1, a1, h1, h2, p1, p2, g1, g2, c1, c2

Item(kind, path, range) ==
  [kind |-> kind, path |-> path, range |-> range, role |-> "implementation", defines |-> FALSE,
   complete |-> FALSE, matches |-> 0, predicate |-> FALSE, items |-> {}, count |-> NoCount,
   beside |-> None, tool |-> "other", sha |-> FALSE]
Search(tool, beside, items, count) ==
  [Item("search", None, None) EXCEPT !.complete = TRUE, !.matches = count[2], !.predicate = TRUE,
   !.tool = tool, !.beside = beside, !.items = items, !.count = count]

\* Two files, a part of the first, the search of its read, a search without
\* matches, a listing of files, a count of lines, an array of the first file,
\* a commit and a diff.
MCObservation ==
  s1 :> Item("source", p1, <<1, 40>>)
  @@ b1 :> Item("source", p1, <<10, 20>>)
  @@ s2 :> Item("source", p2, <<1, 20>>)
  @@ r1 :> Search("read_file", s1, {p1}, <<"files", 1>>)
  @@ z1 :> Search("grep", None, {}, <<"files", 0>>)
  @@ n1 :> Search("find", None, {p1, p2}, <<"files", 2>>)
  @@ l1 :> Search("grep", None, {p1, p2}, <<"matching_lines", 2>>)
  @@ a1 :> Search("static_array", s1, {p1}, <<"entries", 3>>)
  @@ h1 :> [Item("git", p1, None) EXCEPT !.sha = TRUE]
  @@ h2 :> Item("git", p1, None)

MCGoal(id, policy, traits) == [id |-> id, policy |-> policy, traits |-> traits]
Claim(id, goal, cites, names) ==
  [id |-> id, goal |-> goal, text |-> "said", refs |-> ToSet(cites), cites |-> cites,
   names |-> names, measure |-> NoCount, sweeping |-> FALSE]
Counted(id, goal, cites, measure) == [Claim(id, goal, cites, {}) EXCEPT !.measure = measure]
MCTask(wrapper, intent, goals, claims) ==
  [wrapper |-> wrapper, intent |-> intent, goals |-> goals, claims |-> claims]

Locating ==
  MCTask("find_relevant_code", "locate", {MCGoal(g1, "direct_source", {"relevance"})},
         {Claim(c1, g1, <<s1, s2>>, {p2}),
          [Claim(c2, g1, <<s2>>, {}) EXCEPT !.sweeping = TRUE]})
Deciding ==
  MCTask("explore_repo", "plain", {MCGoal(g1, "support_or_refute", {})},
         {Claim(c1, g1, <<s1, r1, z1>>, {}), Claim(c2, g1, <<r1>>, {})})
Collecting ==
  MCTask("collect_evidence", "plain", {MCGoal(g1, "support_or_refute", {"collect"})},
         {Claim(c1, g1, <<b1, s1, z1, h1>>, {})})
CountingLines ==
  MCTask("explore_repo", "plain", {MCGoal(g1, "deterministic_count", {"lines"}),
                                   MCGoal(g2, "deterministic_count", {})},
         {Counted(c1, g1, <<l1, s1, s2>>, <<"matching_lines", 2>>),
          Counted(c2, g2, <<a1>>, <<"entries", 3>>)})
CountingFiles ==
  MCTask("explore_repo", "plain", {MCGoal(g1, "deterministic_count", {})},
         {Counted(c1, g1, <<n1, s1>>, <<"files", 2>>)})
Excluding ==
  MCTask("explore_repo", "plain", {MCGoal(g1, "bounded_absence", {}),
                                   MCGoal(g2, "distinct_policy_paths", {"exhaustive"})},
         {Claim(c1, g1, <<z1>>, {}), Claim(c2, g2, <<s1, s2, z1, a1>>, {})})
Editing ==
  MCTask("explore_repo", "edit", {MCGoal(g1, "direct_source", {}),
                                  MCGoal(g2, "bounded_absence", {})},
         {Claim(c1, g1, <<b1, h1>>, {}), Claim(c2, g2, <<z1>>, {})})
Tracing ==
  MCTask("trace_symbol", "locate", {MCGoal(g1, "symbol_definition", {}),
                                    MCGoal(g2, "bounded_usage_cross_check", {})},
         {Claim(c1, g1, <<s1>>, {}), Claim(c2, g2, <<s2, n1, r1>>, {})})
Surveying ==
  MCTask("explore_repo", "plain", {MCGoal(g1, "impact_categories", {}),
                                   MCGoal(g2, "direct_source", {"historical"})},
         {Claim(c1, g1, <<n1, s1, s2>>, {}), Claim(c2, g2, <<h2, h1>>, {})})

MCTasks == {Locating, Deciding, Collecting, CountingLines, CountingFiles, Excluding, Editing,
            Tracing, Surveying}
=============================================================================
