------------------------------ MODULE MCLinking ------------------------------
(* An instance of Linking for TLC. *)
EXTENDS Linking

CONSTANTS ana, bob, cyd, j1

ThreeDevices == {ana, bob, cyd}
OneJoin      == {j1}
OnlyAna      == {ana}

\* Two codes of ana, one of which she made for herself, one in the other
\* direction and one for a third device; any device may join any of them.
FourCodes    == {<<ana, ana>>, <<ana, bob>>, <<bob, ana>>, <<bob, cyd>>}
=============================================================================
