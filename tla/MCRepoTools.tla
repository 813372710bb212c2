----------------------------- MODULE MCRepoTools -----------------------------
(* Two workers over a root with one plain file, one secret file and a       *)
(* directory with a plain file and a link.                                  *)
EXTENDS RepoTools, TLC

CONSTANTS a, b, s, l, d, w1, w2

MCParent == [e \in {a, b, s, l, d} |-> IF e \in {b, l} THEN d ELSE Root]
WholeTree == {{a, b, s, l}}
Search(kind, scope, roles) == [kind |-> kind, scope |-> scope, roles |-> roles]
MCRequests ==
  {Search("grep", {{a, b}}, {}), Search("grep", {{b}}, {}), Search("grep", WholeTree, {}),
   Search("grep", {{b, l}}, {}), Search("grep", {{a, b}}, {a}),
   Search("find", {{a, b}}, {}), Search("context", {{a, b}}, {}),
   [kind |-> "read", file |-> a], [kind |-> "git"]}
WorkersSet == {w1, w2}
WorkerSymmetry == Permutations(WorkersSet)
=============================================================================
