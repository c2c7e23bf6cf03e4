--------------------------- MODULE SeatAllocation ---------------------------
(***************************************************************************)
(* What the registrations of one event promise, without requests, locks or *)
(* tables: seats given out one at a time and a first-come-first-served     *)
(* waitlist whose head takes every seat that becomes free.                 *)
(***************************************************************************)
EXTENDS Integers, FiniteSets

CONSTANTS Tx, HasLimit, Limit

VARIABLES
  seated,   \* registrations with a seat
  waiting,  \* registrations on the waitlist
  ahead,    \* <<a, b>>: a waits ahead of b
  gone      \* registrations given up or removed with the event

avars == <<seated, waiting, ahead, gone>>

AInit == seated = {} /\ waiting = {} /\ ahead = {} /\ gone = {}

SoldOut == HasLimit /\ Cardinality(seated) >= Limit

\* The waitlist without t.
Leave(t) == /\ waiting' = waiting \ {t}
            /\ ahead' = {p \in ahead : t \notin {p[1], p[2]}}

Fresh(t) == t \notin seated \cup waiting \cup gone

TakeSeat(t) ==
  /\ Fresh(t)
  /\ ~SoldOut
  /\ seated' = seated \cup {t}
  /\ UNCHANGED <<waiting, ahead, gone>>

JoinWaitlist(t) ==
  /\ Fresh(t)
  /\ SoldOut
  /\ waiting' = waiting \cup {t}
  /\ ahead' = ahead \cup (waiting \X {t})
  /\ UNCHANGED <<seated, gone>>

GiveUpWaiting(t) ==
  /\ t \in waiting
  /\ Leave(t)
  /\ gone' = gone \cup {t}
  /\ UNCHANGED seated

\* A seat that nobody waits for becomes free.
FreeSeat(t) ==
  /\ t \in seated
  /\ waiting = {}
  /\ seated' = seated \ {t}
  /\ gone' = gone \cup {t}
  /\ UNCHANGED <<waiting, ahead>>

\* The head h of the waitlist takes over the seat of t.
PassSeat(t, h) ==
  /\ t \in seated
  /\ h \in waiting
  /\ \A r \in waiting : <<r, h>> \notin ahead
  /\ seated' = (seated \ {t}) \cup {h}
  /\ Leave(h)
  /\ gone' = gone \cup {t}

RemoveEvent ==
  /\ seated' = {} /\ waiting' = {} /\ ahead' = {}
  /\ gone' = gone \cup seated \cup waiting

ANext == \/ RemoveEvent
         \/ \E t \in Tx : \/ TakeSeat(t) \/ JoinWaitlist(t)
                          \/ GiveUpWaiting(t) \/ FreeSeat(t)
         \/ \E t, h \in Tx : PassSeat(t, h)

ASpec == AInit /\ [][ANext]_avars

\* Seats are never oversold and never idle while somebody waits.
SeatsFair ==
  /\ HasLimit => Cardinality(seated) <= Limit
  /\ waiting # {} => HasLimit /\ Cardinality(seated) = Limit

\* The waitlist is one line: any two who wait are one ahead of the other.
OneLine ==
  /\ ahead \subseteq waiting \X waiting
  /\ \A a, b \in waiting : a # b => (<<a, b>> \in ahead <=> <<b, a>> \notin ahead)
  /\ \A a, b, c \in waiting : <<a, b>> \in ahead /\ <<b, c>> \in ahead => <<a, c>> \in ahead
=============================================================================
