--------------------------- MODULE MCCupowAuditor ---------------------------
(* CupowAuditor on small instances.                                        *)
EXTENDS CupowAuditor, TLC

\* Calls, journal paths and roots may be exchanged (safety runs only).
Interchangeable ==
  Permutations(Calls) \union Permutations(Paths) \union Permutations(Roots)
=============================================================================
