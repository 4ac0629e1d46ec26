---------------------------- MODULE MCOnboarding ----------------------------
(* Instances of Onboarding, and of Signup with it, for TLC.  No address,   *)
(* request, flag or creation is told apart from another of its kind.        *)
EXTENDS Onboarding, TLC

CONSTANTS e1, e2, r1, r2, v1, k1, k2, s1, j1, j2

Symmetry == Permutations(Email) \union Permutations(Request)
            \union Permutations(Key) \union Permutations(Job)
=============================================================================
