--------------------------- MODULE MCServerApply ---------------------------
(* Three pages: Good saves a configuration with which the server stays up, *)
(* Bad one that it accepts and then ends with, Wrong one that it rejects.  *)
EXTENDS ServerApply, TLC

CONSTANTS Good, Bad, Wrong

MCPages == {Good, Bad, Wrong}
MCStart == {<<Initial, TRUE>>, <<Missing, FALSE>>}
MCChecked == {Initial, Template, Good, Bad}
MCSound == {Initial, Template, Good}
ClickSymmetry == Permutations(Clicks)
=============================================================================
