--------------------------- MODULE MCQuotaAdmission ---------------------------
(* Quota admission with model values for keys, bodies and requests, which are *)
(* interchangeable: no definition tells two of them apart.                    *)
EXTENDS QuotaAdmission, TLC

Symmetry == Permutations(Keys) \cup Permutations(Fingerprints) \cup Permutations(Requests)
===============================================================================
