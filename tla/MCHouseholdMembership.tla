----------------------- MODULE MCHouseholdMembership -----------------------
(* HouseholdMembership on small instances.                                  *)
EXTENDS HouseholdMembership, TLC

(* Users, household ids and requests are interchangeable.                   *)
Symmetry == Permutations(Users) \cup Permutations(Houses) \cup Permutations(Requests)
=============================================================================
