----------------------------- MODULE MCScanStore -----------------------------
(***************************************************************************)
(* ScanStore with two endpoints, two tools and three reports.  Endpoints,  *)
(* tools and statuses are interchangeable, and no property is temporal.    *)
(***************************************************************************)
EXTENDS ScanStore
CONSTANTS login, users, httpx, katana, unknown, ok, missing, short
Symmetry ==
    Permutations({login, users}) \union Permutations({httpx, katana})
        \union Permutations({ok, missing})
=============================================================================
