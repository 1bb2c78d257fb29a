----------------------------- MODULE MCEventQueue -----------------------------
(* Instances of EventQueue for TLC. *)
EXTENDS EventQueue, TLC

CONSTANTS p1, p2, b1, b2

Ev(t, b, i) == [type |-> t, body |-> b, index |-> i]

MCBody == {b1, b2}

(* A transfer, a second transfer of the same token in the same transaction *)
(* (another log index), and a burn.                                        *)
TransfersAndBurn ==
  {Ev("transfer", b1, 0), Ev("transfer", b1, 1), Ev("burned", b2, 0)}

(* Metadata updates of two tokens and a burn. *)
UpdatesAndBurn ==
  {Ev("token_updated", b1, 0), Ev("token_updated", b2, 0), Ev("burned", b2, 0)}

(* One event of each kind of path. *)
OneOfEach ==
  {Ev("transfer", b1, 0), Ev("mint", b1, 0), Ev("token_updated", b2, 0)}

OneMint     == {Ev("mint", b1, 0)}
OneBurn     == {Ev("burned", b1, 0)}
OneTransfer == {Ev("transfer", b1, 0)}
OneLog      == {Ev("transfer", b1, 1)}

TwoProcesses == {p1, p2}
ProcessSymmetry == Permutations(TwoProcesses)
OneProcess   == {p1}
===============================================================================
