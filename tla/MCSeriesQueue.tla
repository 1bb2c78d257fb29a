----------------------------- MODULE MCSeriesQueue ----------------------------
(* Instances of SeriesQueue for TLC. *)
EXTENDS SeriesQueue

CONSTANTS p1, p2

Ev(t, i) == [type |-> t, id |-> i]

TwoUpdatesAndDelete ==
  {Ev("register_series", 1), Ev("update_series", 2), Ev("delete_series", 3)}

OneUpdate == {Ev("update_series", 1)}

TwoProcesses == {p1, p2}
OneProcess == {p1}
===============================================================================
