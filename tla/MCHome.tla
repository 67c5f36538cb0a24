------------------------------- MODULE MCHome --------------------------------
(***************************************************************************)
(* Instances of HomeAccess for TLC: a consumer that asks by the name of    *)
(* its certificate, or by its identity, which is a prefix of that name.    *)
(***************************************************************************)
EXTENDS HomeAccess

CONSTANTS alice, aliceCert, everyDay, r1, r2

MCCovers == {<<alice, aliceCert>>, <<aliceCert, aliceCert>>}
MCWindows == {Slot}

\* No action reads what the manager returned last.
MCView == <<identities, db, dkeyCache, now, held, thermometer, network>>
=============================================================================
