----------------------------- MODULE MCManager ------------------------------
(***************************************************************************)
(* Instances of Manager for TLC.                                           *)
(***************************************************************************)
EXTENDS Manager, TLC

CONSTANTS alice, aliceCert, bobCert, everyDay, first, temp, light

\* alice is the identity in the name of aliceCert; bob is asked for by the
\* name of his certificate.
MCCovers == {<<alice, aliceCert>>, <<aliceCert, aliceCert>>, <<bobCert, bobCert>>}
MCAliceCovers == {<<alice, aliceCert>>, <<aliceCert, aliceCert>>}
MCWindows == {Slot, {0}}
MCOneWindow == {Slot}

TypeSymmetry == Permutations({temp, light})
=============================================================================
