------------------------------- MODULE Portal -------------------------------
(***************************************************************************)
(* The handlers of Caches, Catalog, Listings and Ranking in one process.   *)
(* A request runs one handler of any of them; those that meet in a row, an *)
(* entry or a list are together in a member of Mixes.                      *)
(***************************************************************************)
EXTENDS Caches, Catalog, Listings, Ranking

vars == <<handlers, cacheVars, catalogVars, listingVars, rankingVars>>

Init == HandlersInit /\ CacheInit /\ CatalogInit /\ ListingInit /\ RankingInit

Crash ==
    /\ Crashes
    /\ CacheCrash /\ CatalogCrash
    /\ UNCHANGED <<listingVars, rankingVars>>

Next ==
    \/ /\ (\E r \in Requests : CacheSteps(r)) \/ (\E e \in Entries : Expire(e))
       /\ UNCHANGED <<catalogVars, listingVars, rankingVars>>
    \/ \E r \in Requests : CatalogSteps(r) /\ UNCHANGED <<cacheVars, listingVars, rankingVars>>
    \/ \E r \in Requests : ListingSteps(r) /\ UNCHANGED <<cacheVars, catalogVars, rankingVars>>
    \/ \E r \in Requests : RankingSteps(r) /\ UNCHANGED <<cacheVars, catalogVars, listingVars>>
    \/ Crash

Spec == Init /\ [][Next]_vars

TypeOK ==
    /\ \A r \in Requests : kind[r] = None \/ kind[r] \in mix[r]
    /\ CacheTypeOK /\ CatalogTypeOK /\ ListingTypeOK /\ RankingTypeOK
=============================================================================
