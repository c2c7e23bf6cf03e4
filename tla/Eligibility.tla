---------------------------- MODULE Eligibility ----------------------------
(***************************************************************************)
(* Who may register: check_eligibility as a decision on a situation, the   *)
(* answer of GET /events/{eventId}/eligibility made of it, and the answer  *)
(* of POST /transactions, which decides on the place once more by itself.  *)
(* The event's status crosses the services as a word.                      *)
(*                                                                         *)
(* Every situation is an initial state; nothing happens in it.             *)
(***************************************************************************)
EXTENDS Integers, Sequences

CONSTANTS
  Moment,   \* instants
  Seat,     \* numbers of seats and of confirmed registrations, from 0
  NoLimit,  \* ticket_limit is NULL: the event takes everybody
  Missing   \* the other service answers 404

ASSUME SeatAssumption == Seat \subseteq Nat /\ Moment \subseteq Int
ASSUME MissingAssumption == Missing \notin {"confirmed", "waitlist"}

\* STATUS_MAP of the event service, and status_map of the transaction service.
Words    == <<"not_open", "registering", "waitlist", "closed", "ended">>
Serialized(status) == Words[status + 1]
Parsed(word)       == CHOOSE n \in 0..4 : Words[n + 1] = word

Registering == 1
Waitlist    == 2

RoleName == {"employee", "hr", "welfare_member"}

\* token: the role in the token; role, locked: the profile; mine: an active registration.
Situation ==
  [now : Moment, token : RoleName, role : RoleName \cup {Missing}, locked : BOOLEAN,
   found : BOOLEAN, draft : BOOLEAN, start : Moment, end : Moment, status : 0..4,
   limit : Seat \cup {NoLimit}, confirmed : Seat, mine : BOOLEAN]

VARIABLE situation  \* what both requests meet

EligibilityInit == situation \in Situation

\* What get_event makes of the event's row.
Received(x) == [x EXCEPT !.status = Parsed(Serialized(@))]

----------------------------------------------------------------------------
(* check_eligibility                                                        *)

\* The refusals in the order of the code.
Refusals(x) == <<
  <<"USER_NOT_FOUND",        x.role = Missing>>,
  <<"FORBIDDEN_ROLE",        x.role \notin {"employee", "hr"}>>,
  <<"USER_LOCKED",           x.locked>>,
  <<"EVENT_NOT_FOUND",       ~x.found>>,
  <<"EVENT_DRAFT",           x.draft>>,
  <<"REGISTRATION_NOT_OPEN", x.now < x.start>>,
  <<"REGISTRATION_CLOSED",   x.now > x.end>>,
  <<"EVENT_ENDED",           x.status \notin {Registering, Waitlist}>>,
  <<"ALREADY_REGISTERED",    x.mine>> >>

SoldOut_WhenOver(x) == x.limit # NoLimit /\ x.confirmed > x.limit

SoldOut(x) == x.limit # NoLimit /\ x.confirmed >= x.limit

Remaining(x) == IF x.limit = NoLimit THEN NoLimit
                ELSE IF x.confirmed > x.limit THEN 0 ELSE x.limit - x.confirmed

\* The first refusal that applies; if none does, what the registration will be.
Reason(x) ==
  LET hits == {i \in 1..9 : Refusals(x)[i][2]}
  IN  IF hits # {} THEN Refusals(x)[CHOOSE i \in hits : \A j \in hits : i <= j][1]
      ELSE IF SoldOut(x) THEN "WILL_BE_WAITLIST" ELSE "OK"

Eligible(x) == Reason(x) \in {"OK", "WILL_BE_WAITLIST"}

----------------------------------------------------------------------------
(* The two endpoints                                                        *)

\* role_required("employee", "hr") goes by the token.
Forbidden(x) == x.token \notin {"employee", "hr"}

\* _REASON_MAP; "OK" is null.
Told(reason) == CASE reason = "USER_LOCKED"      -> "LOCKED"
                  [] reason = "WILL_BE_WAITLIST" -> "NO_TICKETS"
                  [] OTHER                       -> reason

GetEligibility(x) ==
  LET e == Received(x)
  IN  IF Forbidden(x) THEN [http |-> 403]
      ELSE [http |-> 200, eligible |-> Eligible(e), reason |-> Told(Reason(e)),
            waitlist |-> Reason(e) = "WILL_BE_WAITLIST",
            remaining |-> IF Eligible(e) THEN Remaining(e) ELSE NoLimit]

\* _raise_if_ineligible
HttpOf(reason) ==
  CASE reason \in {"USER_NOT_FOUND", "EVENT_NOT_FOUND"} -> 404
    [] reason \in {"USER_LOCKED", "ALREADY_REGISTERED"} -> 409
    [] reason = "FORBIDDEN_ROLE"                        -> 403
    [] OTHER                                            -> 400

\* Under the lock the seats are counted again.
Place(x) == IF x.limit = NoLimit \/ x.confirmed < x.limit THEN "confirmed" ELSE "waitlist"

PostTransaction(x) ==
  LET e == Received(x)
  IN  IF Forbidden(x) THEN [http |-> 403, place |-> Missing]
      ELSE IF ~Eligible(e) THEN [http |-> HttpOf(Reason(e)), place |-> Missing]
      ELSE [http |-> 201, place |-> Place(e)]

----------------------------------------------------------------------------
(* Properties *)

\* As long as nothing changes in between, the answer of the eligibility check is what
\* a registration comes to: whether it is made, for a seat or the waitlist, and how
\* many seats are said to be left; and nobody is told to wait who is refused.
PreCheckPredictsPost ==
  LET pre  == GetEligibility(situation)
      post == PostTransaction(situation)
  IN  IF pre.http = 403 THEN post.http = 403
      ELSE /\ pre.eligible <=> post.http = 201
           /\ pre.waitlist <=> post.place = "waitlist"
           /\ pre.reason = "OK" <=> post.place = "confirmed"
           /\ pre.eligible /\ situation.limit # NoLimit
                => (pre.remaining > 0 <=> post.place = "confirmed")
           /\ pre.reason = "LOCKED" => post.http = 409
=============================================================================
