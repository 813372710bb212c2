---------------------------- MODULE MCMcpSession ----------------------------
(* Two calls and two ids: an id may be used again, or both be in use.      *)
EXTENDS McpSession

CONSTANTS c1, c2, i1, i2

TwoCalls == {c1, c2}
TwoIds == {i1, i2}
=============================================================================
