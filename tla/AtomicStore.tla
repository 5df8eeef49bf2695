---------------------------- MODULE AtomicStore ----------------------------
(***************************************************************************)
(* What the Sommelier database promises: every request changes the durable *)
(* content in one step and whole, or not at all.                           *)
(***************************************************************************)
EXTENDS StoreContent

VARIABLE store

Init ==
  /\ store \in Content
  /\ store.ratings \subseteq store.favorites /\ OneActive(store)

Activate(profile) == store' = Activated(Deactivated(store), profile)

DeleteProfile(profile) == store' = WithoutProfile(store, profile)

AddFavorite(favorite) == store' = WithFavorite(store, favorite)

RemoveFavorite(favorite) ==
  store' = WithoutRating(WithoutFavorite(store, favorite), favorite)

Rate(favorite) == store' = WithRating(store, favorite)

Import(bundle) == store' \in Imported(bundle)

Next ==
  \/ \E profile \in Profiles : Activate(profile) \/ DeleteProfile(profile)
  \/ \E favorite \in Favorites :
        AddFavorite(favorite) \/ RemoveFavorite(favorite) \/ Rate(favorite)
  \/ \E bundle \in Content : Import(bundle)

Spec == Init /\ [][Next]_store
=============================================================================
