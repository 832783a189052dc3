---------------------------- MODULE MCRateLimits ----------------------------
(* The two limits of a join; the quota of an address is larger than that of *)
(* a user, as in the defaults.  The limit of the AI routes is turned off.   *)
EXTENDS RateLimits, TLC

JoinLimit == [joinIp |-> 2, joinUser |-> 1, mutation |-> 1, ai |-> 0, randomRecipe |-> 1]

Symmetry == Permutations(Requests) \cup Permutations(Users)
=============================================================================
