------------------------------ MODULE MCServed -------------------------------
(***************************************************************************)
(* Instances of ServedHome for TLC: an identity, its certificate, and a    *)
(* data type.                                                              *)
(***************************************************************************)
EXTENDS ServedHome

CONSTANTS alice, aliceCert, tempDays, r1

MCCovers == {<<alice, aliceCert>>, <<aliceCert, aliceCert>>}
MCWindows == {GrantWindow}
MCScheduleOf == [t \in DataType |-> tempDays]

\* What the properties say of the log, and what one more event makes of it,
\* depend on these parts of it only; what RegistryIsLastWord says does so as
\* long as nothing is registered under a name that is no certificate's.
MCLog ==
  <<Len(log),
    {c \in Cert : RegisteredBefore(c, Len(log) + 1)},
    {<<c, t>> \in Cert \X DataType : \E n \in 1..Len(log) : GrantedAt(c, t, n)},
    {<<c, t>> \in Cert \X DataType :
       \E n \in 1..Len(log) : GrantedAt(c, t, n) /\ ~RevokedAfter(t, n)}>>
MCGiven ==
  {<<g[1], RevokedAfter(g[1].type, g[2]),
     {c \in Cert : \E n \in 1..Len(log) :
        GrantedAt(c, g[1].type, n) /\ SameSpan(g[1].type, n, g[2])}>> : g \in given}

\* No action reads what was answered last.
MCView ==
  <<identities, db, dkeyCache, now, held, thermometer, network, up, adding, MCLog, MCGiven>>
=============================================================================
