---------------------------- MODULE MCRateLimit ----------------------------
(***************************************************************************)
(* Instances of RateLimit for TLC: a short limit and a longer one, with    *)
(* windows of one and two seconds and of one or two requests.              *)
(***************************************************************************)
EXTENDS RateLimit, TLC

MCLimits == <<[window |-> 1, max |-> 1], [window |-> 2, max |-> 2]>>

LongLimit == <<[window |-> 2, max |-> 1]>>

Symmetry == Permutations(Worker) \union Permutations(Token)
=============================================================================
