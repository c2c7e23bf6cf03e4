------------------------------ MODULE Autofill ------------------------------
(***************************************************************************)
(* What a registration is filled in with.  A request may leave out details *)
(* (_apply_autofill takes them from the profile) and may ask to save the   *)
(* ones that result (update_autofill), per category of the event, on top   *)
(* of the preferences of the account, which its owner edits elsewhere.     *)
(*                                                                         *)
(* selfDriving goes the way of dietType and is left out.  One person; a    *)
(* request is one step.                                                    *)
(***************************************************************************)
EXTENDS Integers

CONSTANTS
  EventCategory,  \* values of events.category other than NULL
  Null,           \* SQL NULL, a field left out
  MaxGuests       \* bound on guestCount: 10

VARIABLES
  diet,   \* users.diet_type
  pref,   \* per category: the row of user_preferences or Null
  saved   \* history: per category, the last registration whose details were saved

autofillVars == <<diet, pref, saved>>

\* A request may say "none"; the CHECKs of the account service know two diets.
KnownDiet == {"veg", "non-veg"}
Diet      == KnownDiet \cup {"none"}
Guests    == 0..MaxGuests
Wish      == [diet : Diet \cup {Null}, guest : Guests \cup {Null}]
Details   == [diet : Diet \cup {Null}, guest : Guests, limited : BOOLEAN]
NoWish    == [diet |-> Null, guest |-> Null]

ASSUME MaxGuestsAssumption == MaxGuests \in Nat
ASSUME NullAssumption ==
  /\ Null \notin Diet /\ Null \notin Guests /\ Null \notin EventCategory
  /\ Null \notin Wish /\ Null \notin Details

AutofillInit ==
  /\ diet = "non-veg"
  /\ pref = [c \in EventCategory |-> Null]
  /\ saved = [c \in EventCategory |-> Null]

Or(x, y) == IF x # Null THEN x ELSE y

\* resolve_autofill
Resolve(c) ==
  IF c = Null \/ pref[c] = Null THEN [diet |-> diet, guest |-> Null]
  ELSE [diet |-> Or(pref[c].diet, diet), guest |-> pref[c].guest]

\* _apply_autofill: no guests where seats are limited.
Filled(wish, c, limited) ==
  [diet    |-> Or(wish.diet, Resolve(c).diet),
   guest   |-> IF limited THEN 0 ELSE Or(Or(wish.guest, Resolve(c).guest), 0),
   limited |-> limited]

Upserted_NoZero(c, d) ==
  LET old == IF pref[c] = Null THEN NoWish ELSE pref[c]
  IN  [diet  |-> Or(d.diet, old.diet),
       guest |-> IF d.limited \/ d.guest = 0 THEN old.guest ELSE d.guest]

\* upsert_autofill: what is null changes nothing.
Upserted(c, d) ==
  LET old == IF pref[c] = Null THEN NoWish ELSE pref[c]
  IN  [diet  |-> Or(d.diet, old.diet),
       guest |-> IF d.limited THEN old.guest ELSE d.guest]

\* A registration with saveAutofill.  A diet the CHECK refuses rolls the whole update
\* back; that, like any failure of the call, is only logged.
SaveDetails(wish, c, limited) ==
  LET d == Filled(wish, c, limited)
  IN  /\ d.diet \in KnownDiet \cup {Null}
      /\ IF c = Null
           THEN diet' = Or(d.diet, diet) /\ UNCHANGED <<pref, saved>>
           ELSE /\ pref' = [pref EXCEPT ![c] = Upserted(c, d)]
                /\ saved' = [saved EXCEPT ![c] = d]
                /\ UNCHANGED diet

\* update_user, PATCH /users/{userId}
EditPreferences(d) == diet' = d /\ UNCHANGED <<pref, saved>>

AutofillNext ==
  \/ \E wish \in Wish, c \in EventCategory \cup {Null}, limited \in BOOLEAN :
       SaveDetails(wish, c, limited)
  \/ \E d \in KnownDiet : EditPreferences(d)

AutofillSpec == AutofillInit /\ [][AutofillNext]_autofillVars

----------------------------------------------------------------------------
(* Properties *)

\* Who saves the details of a registration and leaves them out the next time gets the
\* same, zero guests included, whatever is saved for other categories or edited in
\* the account in between.
AutofillCarriesOver ==
  \A c \in EventCategory : saved[c] # Null =>
    Filled(NoWish, c, saved[c].limited) = saved[c]
=============================================================================
