----------------------------- MODULE MCTokenCache -----------------------------
(* A small instance of TokenCache for TLC: Margin and Timeout are 2 ticks of   *)
(* 15 s, and lifetimes are below and above the margin.                         *)
EXTENDS TokenCache

CONSTANTS c1, c2

Lifetimes == {0, 1, 3}
==============================================================================
