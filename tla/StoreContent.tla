---------------------------- MODULE StoreContent ----------------------------
(***************************************************************************)
(* The rows of the Sommelier database that its handlers relate to each     *)
(* other, and what the SQL statements of sommelier_db.py and               *)
(* sommelier_backup.py do to them.  Other columns, and tables that hold    *)
(* one independent row per write (beans, hoppers, milk, pantry, presets,   *)
(* settings, history), behave like the favourites and are left out.        *)
(***************************************************************************)
CONSTANTS Profiles,  \* ids of sommelier_profiles
          Favorites  \* ids of favorites, and the targets of recipe_ratings

Content ==
  {c \in [profiles  : SUBSET Profiles,   active  : SUBSET Profiles,
          favorites : SUBSET Favorites,  ratings : SUBSET Favorites] :
     c.active \subseteq c.profiles}

Empty == [profiles |-> {}, active |-> {}, favorites |-> {}, ratings |-> {}]

\* No two profiles are active.
OneActive(c) == \A profile, other \in c.active : profile = other

\* The two statements of async_set_active_profile.
Deactivated(c) == [c EXCEPT !.active = {}]

Activated(c, profile) == [c EXCEPT !.active = @ \cup ({profile} \cap c.profiles)]

WithoutProfile(c, profile) ==
  [c EXCEPT !.profiles = @ \ {profile}, !.active = @ \ {profile}]

WithFavorite(c, favorite) == [c EXCEPT !.favorites = @ \cup {favorite}]

WithoutFavorite(c, favorite) == [c EXCEPT !.favorites = @ \ {favorite}]

\* recipe_ratings has no foreign key: a rating needs no favourite.
WithRating(c, favorite) == [c EXCEPT !.ratings = @ \cup {favorite}]

WithoutRating(c, favorite) == [c EXCEPT !.ratings = @ \ {favorite}]

\* What an import re-asserts: ratings have targets, one profile is active.
WithoutOrphans(c) == [c EXCEPT !.ratings = @ \cap c.favorites]

NeedsActive(c) == c.profiles # {} /\ (c.active = {} \/ ~ OneActive(c))

Promoted(c, profile) == [c EXCEPT !.active = {profile}]

\* The contents a replace-import of a bundle may leave.
Imported(bundle) ==
  LET c == WithoutOrphans(bundle)
  IN  IF NeedsActive(c) THEN {Promoted(c, profile) : profile \in c.profiles}
      ELSE {c}
=============================================================================
