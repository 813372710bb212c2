------------------------------ MODULE MCTurnLoop ------------------------------
(* Instances of TurnLoop: two implementation files and a test file *)
EXTENDS TurnLoop

MCPaths == {"a", "b", "t"}
MCImpl == {"a", "b"}
MCRank == [p \in MCPaths |-> CASE p = "a" -> 1 [] p = "b" -> 2 [] OTHER -> 3]
\* A search, its reads and what follows them; the longer scripts get a turn more
MCMaxTurns == [m \in Modes |-> CASE m \in {"free", "structured", "anchored", "claim"} -> 5
                                 [] m \in {"commit", "metadata"} -> 3
                                 [] OTHER -> 4]
===============================================================================
