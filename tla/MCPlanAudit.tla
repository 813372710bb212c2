----------------------------- MODULE MCPlanAudit -----------------------------
(* Two requests.  One has two slices and the seed of a wrapper whose goals  *)
(* own their seeds: up to three proposed goals in batches of two, and up to *)
(* two goals in the corrected plan.  The other one, to explore_repo, asks   *)
(* to classify every invocation: its leaves d, w and k have slices inside   *)
(* one another, w and k have one claim type, and a fourth goal x of that    *)
(* type may be proposed with them; v is another way to put w.               *)
EXTENDS PlanAudit

CONSTANTS r1, r2, r12, s, c1, c2, c3, g1, g2, g3, n1, n2, l1,
          q1, q2, q3, cd, cw, cv, ck, cx, d, w, k, v, x

Slices == {q1, q2, q3}
MCOrigins == {r1, r2, r12, s} \union Slices
MCWithin == {<<r1, r12>>, <<r2, r12>>, <<q1, q2>>, <<q1, q3>>, <<q2, q3>>}
Goal(id, core, origins) == [id |-> id, core |-> core, origins |-> origins]
Part(core, origins) == [core |-> core, origins |-> origins]
MCCores == {c1, c2, c3, cd, cw, cv, ck, cx}
MCType == [c \in MCCores |-> CASE c = c2 -> "absence" [] c = cd -> "count"
                               [] c \in {cw, cv, ck, cx} -> "comparison" [] OTHER -> "fact"]
MCContents == {Part(c1, {r12}), Part(c2, {r2})}

Leaf(cores, origin) == [cores |-> cores, origin |-> origin]
MCWrappers ==
  {[seeds |-> {s}, independent |-> TRUE, leaves |-> {}],
   [seeds |-> {}, independent |-> FALSE,
    leaves |-> {Leaf({cd}, q1), Leaf({cw, cv}, q2), Leaf({ck}, q3)}]}

Leaves == <<Goal(d, cd, {q1}), Goal(w, cw, {q2}), Goal(k, ck, {q3})>>
MCInitialPlans ==
  {<<Goal(g1, c1, {r12}), Goal(g2, c3, {r1, s})>>,
   <<Goal(g1, c1, {r1}), Goal(g2, c2, {r2, s}), Goal(g3, c3, {r12})>>,
   <<Goal(g1, c1, {r2})>>, Leaves, Append(Leaves, Goal(x, cx, {r1, q2}))}
Single == {Goal(n1, c1, {r1}), Goal(n1, c2, {r12, s}), Goal(g1, c1, {r12}),
           Goal(g1, c1, {r1})}
MCRevisedGoals ==
  {<< >>} \union {<<g>> : g \in Single \union {Goal(v, cv, {q2})}}
  \union {<<g, h>> : g \in Single, h \in {Goal(n2, c1, {r1}), Goal(n2, c2, {r2, s})}}
MCLatePlans == {<<Goal(l1, c1, {r1})>>}
=============================================================================
