--------------------------- MODULE BootstrapProofs ---------------------------
(***************************************************************************)
(* Theorems about Bootstrap, for every set of requests of the owner.       *)
(***************************************************************************)
EXTENDS Bootstrap, TLAPS

\* What is served was trusted before.
ServedIsTrusted ==
  /\ stage = "serving" => reply \in Reply /\ ValidReply(reply) /\ reply.cert = "good"
  /\ Asked => stage = "serving"

\* Only a failed handshake has reported a failure of the owner's, and a success
\* comes with an installed certificate.
ReportsFit ==
  /\ reports \cap {"invalid", "owner refused"} # {} => stage = "failed"
  /\ "success" \in reports => \E q \in Request : fetch[q] = "installed"

BInv == BootstrapTypeOK /\ ServedIsTrusted /\ ReportsFit

LEMMA BInitially == BootstrapInit => BInv
BY DEF BootstrapInit, BInv, BootstrapTypeOK, ServedIsTrusted, ReportsFit, Asked

LEMMA DieKeeps == BInv /\ Die /\ UNCHANGED given => BInv'
BY DEF Die, given, BInv, BootstrapTypeOK, ServedIsTrusted, ReportsFit, Asked, ValidReply

LEMMA RefuseKeeps ==
  BInv /\ stage = "asked" /\ up /\ Refuse /\ UNCHANGED given => BInv'
BY DEF Refuse, given, BInv, BootstrapTypeOK, ServedIsTrusted, ReportsFit, Asked

LEMMA HandshakeKeeps ==
  ASSUME BInv, Start \/ OwnerInterestEnds
  PROVE  BInv'
<1>1. CASE Start
  <2>1. CASE Die
    BY <1>1, <2>1, DieKeeps DEF Start
  <2>2. CASE ~Die
    BY <1>1, <2>2
    DEF Start, given, BInv, BootstrapTypeOK, ServedIsTrusted, ReportsFit, Asked
  <2> QED
    BY <2>1, <2>2
<1>2. CASE OwnerNacked
  BY <1>2 DEF OwnerNacked, given, BInv, BootstrapTypeOK, ServedIsTrusted, ReportsFit, Asked
<1>3. CASE OwnerSilent
  BY <1>3, DieKeeps, RefuseKeeps DEF OwnerSilent
<1>4. CASE \E d \in Reply : OwnerReplies(d)
  <2>1. PICK d \in Reply : OwnerReplies(d)
    BY <1>4
  <2>2. CASE ValidReply(d) /\ d.cert = "good" /\ Trust(d) /\ UNCHANGED given
    <3>1. /\ stage = "asked" /\ stage' = "serving" /\ reply' = d
          /\ UNCHANGED <<up, given, fetch, reports>>
      BY <2>1, <2>2 DEF OwnerReplies, Trust
    <3>2. reply' \in Reply /\ ValidReply(reply)' /\ reply'.cert = "good"
      BY <2>2, <3>1 DEF ValidReply
    <3> QED
      BY <3>1, <3>2 DEF given, BInv, BootstrapTypeOK, ServedIsTrusted, ReportsFit, Asked
  <2> QED
    BY <2>1, <2>2, DieKeeps, RefuseKeeps DEF OwnerReplies
<1> QED
  BY <1>1, <1>2, <1>3, <1>4 DEF OwnerInterestEnds

LEMMA RequestKeeps ==
  ASSUME BInv, RefuseRequest \/ \E q \in Request : ServeUnsignedCert(q)
  PROVE  BInv'
<1>1. CASE RefuseRequest
  <2>1. CASE Die
    BY <1>1, <2>1, DieKeeps DEF RefuseRequest
  <2>2. CASE ~Die
    BY <1>1, <2>2
    DEF RefuseRequest, Routed, given, BInv, BootstrapTypeOK, ServedIsTrusted, ReportsFit,
        Asked, ValidReply
  <2> QED
    BY <2>1, <2>2
<1>2. CASE \E q \in Request : ServeUnsignedCert(q)
  <2>1. PICK q \in Request : ServeUnsignedCert(q)
    BY <1>2
  <2>2. CASE Die
    BY <2>1, <2>2, DieKeeps DEF ServeUnsignedCert
  <2>3. CASE ~Die
    <3>1. /\ fetch' = [fetch EXCEPT ![q] = "pending"] /\ fetch[q] = "none"
          /\ stage = "serving" /\ UNCHANGED <<up, stage, reply, reports, given>>
      BY <2>1, <2>3 DEF ServeUnsignedCert, Routed
    <3> QED
      BY <3>1 DEF given, BInv, BootstrapTypeOK, ServedIsTrusted, ReportsFit, Asked, ValidReply
  <2> QED
    BY <2>2, <2>3
<1> QED
  BY <1>1, <1>2

LEMMA FetchKeeps ==
  ASSUME BInv, NEW q \in Request, FetchEnds(q)
  PROVE  BInv'
<1>1. CASE FetchFails(q)
  BY <1>1, DieKeeps DEF FetchFails
<1>2. CASE InstallCert(q) \/ FetchNacked(q)
  <2>1. PICK end \in {"installed", "nacked"} :
          /\ fetch[q] = "pending" /\ fetch' = [fetch EXCEPT ![q] = end]
          /\ reports' = reports \cup (IF end = "installed" THEN {"success"} ELSE {})
          /\ UNCHANGED <<up, given, stage, reply>>
    BY <1>2 DEF InstallCert, FetchNacked
  <2> QED
    BY <2>1 DEF given, BInv, BootstrapTypeOK, ServedIsTrusted, ReportsFit, Asked, ValidReply
<1> QED
  BY <1>1, <1>2 DEF FetchEnds

LEMMA BStep == BInv /\ [BootstrapNext]_bootstrap => BInv'
<1>1. CASE UNCHANGED bootstrap
  BY <1>1 DEF bootstrap, given, BInv, BootstrapTypeOK, ServedIsTrusted, ReportsFit, Asked,
              ValidReply
<1> QED
  BY <1>1, HandshakeKeeps, RequestKeeps, FetchKeeps DEF BootstrapNext

THEOREM BootstrapInvariant == BootstrapSpec => []BInv
BY BInitially, BStep, PTL DEF BootstrapSpec

\* The type invariant.
THEOREM BootstrapTypes == BootstrapSpec => []BootstrapTypeOK
<1>1. BInv => BootstrapTypeOK
  BY DEF BInv
<1> QED
  BY <1>1, BootstrapInvariant, PTL

\* Before anything is fetched for the owner, the anchor is of a reply made with
\* the pairing code, and a success follows a fetch for a request made with it,
\* whichever numbers the replies repeat (validateOwnerCertResp,
\* validateOwnerRequest, setDeviceCert).
THEOREM Authentication == BootstrapSpec => []MutuallyAuthenticated
<1>1. BInv => MutuallyAuthenticated
  BY BootstrapAssumption
  DEF BInv, ServedIsTrusted, ReportsFit, MutuallyAuthenticated, ValidReply
<1> QED
  BY <1>1, BootstrapInvariant, PTL

\* After the report of a refusal nothing happens any more (startBootstrap).
THEOREM Refusal == BootstrapSpec => RefusedIsOver
<1>1. BInv /\ [BootstrapNext]_bootstrap =>
        [reports \cap {"invalid", "owner refused"} # {} => UNCHANGED bootstrap]_bootstrap
  <2> SUFFICES ASSUME BInv, BootstrapNext, reports \cap {"invalid", "owner refused"} # {}
               PROVE  UNCHANGED bootstrap
    OBVIOUS
  <2>1. stage = "failed" /\ ~Asked
    BY DEF BInv, ServedIsTrusted, ReportsFit
  <2>2. \A q \in Request : fetch[q] = "none"
    BY <2>1 DEF Asked
  <2> QED
    BY <2>1, <2>2
    DEF BootstrapNext, Start, OwnerInterestEnds, OwnerNacked, OwnerSilent, OwnerReplies,
        ServeUnsignedCert, RefuseRequest, Routed, FetchEnds, InstallCert, FetchFails,
        FetchNacked
<1> QED
  BY <1>1, BootstrapInvariant, PTL DEF BootstrapSpec, RefusedIsOver

=============================================================================
