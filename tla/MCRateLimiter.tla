--------------------------- MODULE MCRateLimiter ---------------------------
(***************************************************************************)
(* The limiter on its own, for what its comments and its test claim: two   *)
(* goroutines, two levels that admit one request in a window.              *)
(***************************************************************************)
EXTENDS RateLimiter

CONSTANTS n1, n2

MCLevels == <<"provider", "endpoint">>
MCLimit == [lv \in {"provider", "endpoint"} |-> 1]
=============================================================================
