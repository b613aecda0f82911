-------------------------- MODULE MCRequestCloseout --------------------------
(* An instance of RequestCloseout for TLC: a movie, a number that two movies  *)
(* may hold, and a show of two seasons.                                       *)
EXTENDS RequestCloseout

CONSTANTS film, other, show, m1, s1

Of(t, seasons, state) == [title |-> t, seasons |-> seasons, state |-> state]
Requests ==
  <<{Of(film, Unknown, "open")}, {Of(show, {1, 2}, "open")},
    {Of(show, {1}, "open"), Of(show, Unknown, "odd")}>>
=============================================================================
