--------------------------- MODULE MCFlakeHistory ---------------------------
(***************************************************************************)
(* FlakeHistory for two runs of one or two users of which one may be       *)
(* killed anywhere, over every shape of the file (MCFlakeHistory.cfg), and *)
(* for three runs of one user none of which is killed (MCFlakeRace.cfg).   *)
(***************************************************************************)
EXTENDS FlakeHistory

CONSTANTS r1, r2, r3, alice, bob

TwoRuns   == {r1, r2}
ThreeRuns == {r1, r2, r3}
MCShapes  == Statuses
GoodShape == {"ok"}
TwoUsers  == {alice, bob}
OneUser   == {alice}
=============================================================================
