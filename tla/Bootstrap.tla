------------------------------ MODULE Bootstrap ------------------------------
(***************************************************************************)
(* The bootstrap of a device: start of node/src/protocol/v2/bootstrap.cpp  *)
(* with bootstrap-impl.cpp.                                                *)
(*                                                                         *)
(* The device asks the owner for a certificate, with a number, and takes   *)
(* it for its trust anchor if the reply proves the pairing code; makes an  *)
(* identity; then serves its unsigned certificate on the path "/" of its   *)
(* node to requests that prove the code, and after each of them fetches    *)
(* the signed one.                                                         *)
(*                                                                         *)
(* Every lambda captures by reference what is gone when the event loop     *)
(* calls it: parameters and locals of functions that have returned.  What  *)
(* such a use does is undefined: here the process ends (Die), or a call    *)
(* goes as if the object were there; a number or a counter that is read so *)
(* may have any value, and then a good reply may be refused, one with the  *)
(* number of another session be accepted, and a limit of retries be        *)
(* reached at any time.  The pairing code is in the caller's Config, which *)
(* is taken to live.                                                       *)
(***************************************************************************)
CONSTANTS
  Request,   \* interests that reach the path "/" and prove the pairing code
  NoReply

\* What answers the request for the owner's certificate: the number it repeats,
\* whether the HMAC with the pairing code is right, and the certificate.
Reply == [number : {"ours", "other", "missing"}, hmac : BOOLEAN, cert : {"good", "bad"}]

ASSUME BootstrapAssumption == NoReply \notin Reply

VARIABLES
  up,        \* FALSE once the process ended
  session,   \* what start is given: "null", "incomplete" or "complete"
  identity,  \* its deviceIdentity: none, that of the certificate or another
  rootServed,\* whether "/" was routed by the application before serveForever
  stage,     \* how far the handshake is
  reply,     \* the owner's reply that was installed as trust anchor
  fetch,     \* per request, what has become of the fetch it led to
  reports    \* what the application was called back with

given == <<session, identity, rootServed>>
bootstrap == <<up, given, stage, reply, fetch, reports>>

BootstrapTypeOK ==
  /\ up \in BOOLEAN
  /\ session \in {"null", "incomplete", "complete"}
  /\ identity \in {"none", "own", "other"}
  /\ rootServed \in BOOLEAN
  /\ stage \in {"new", "asked", "nacked", "failed", "serving"}
  /\ reply \in Reply \cup {NoReply}
  /\ fetch \in [Request -> {"none", "pending", "nacked", "installed"}]
  /\ reports \subseteq {"invalid", "owner refused", "retries", "success"}

BootstrapInit ==
  /\ up = TRUE
  /\ session \in {"null", "incomplete", "complete"}
  /\ identity \in {"none", "own", "other"}
  /\ rootServed \in BOOLEAN
  /\ stage = "new"
  /\ reply = NoReply
  /\ fetch = [q \in Request |-> "none"]
  /\ reports = {}

Die == up' = FALSE /\ UNCHANGED <<stage, reply, fetch, reports>>

-----------------------------------------------------------------------------
(***************************************************************************)
(* The owner's certificate                                                 *)
(***************************************************************************)

\* Altered: an incomplete session is not reported.
StartQuietly ==
  /\ up /\ stage = "new"
  /\ \/ session = "null" /\ Die
     \/ /\ session # "null"
        /\ stage' = (IF session = "complete" THEN "asked" ELSE "failed")
        /\ UNCHANGED <<up, reply, fetch, reports>>
  /\ UNCHANGED given

\* isValidSession looks into the session before the test for null is used.
Start ==
  /\ up /\ stage = "new"
  /\ \/ session = "null" /\ Die
     \/ /\ session = "incomplete"
        /\ stage' = "failed" /\ reports' = reports \cup {"invalid"}
        /\ UNCHANGED <<up, reply, fetch>>
     \/ /\ session = "complete"
        /\ stage' = "asked"
        /\ UNCHANGED <<up, reply, fetch, reports>>
  /\ UNCHANGED given

\* Altered: the HMAC is not compared.
AnyCode(d) == d.number # "missing"

\* validateOwnerCertResp may return true: the number that it compares with is
\* gone (randomNo, a local of startBootstrap), and what it reads there may be
\* the number of any reply.
ValidReply(d) == d.number # "missing" /\ d.hmac

\* Altered: goes on after it has reported.
RefuseAndServe ==
  /\ stage' = "serving" /\ reports' = reports \cup {"owner refused"}
  /\ UNCHANGED <<up, reply, fetch>>

Refuse ==
  /\ stage' = "failed" /\ reports' = reports \cup {"owner refused"}
  /\ UNCHANGED <<up, reply, fetch>>

\* extractOwnerCert, generateIdentity, then the anchor, then the route.
Trust(d) ==
  /\ stage' = "serving" /\ reply' = d
  /\ UNCHANGED <<up, fetch, reports>>

\* A certificate that cannot be decoded throws out of the event loop.
OwnerReplies(d) ==
  /\ up /\ stage = "asked"
  /\ \/ Die
     \/ Refuse
     \/ ValidReply(d) /\ d.cert = "good" /\ Trust(d)
  /\ UNCHANGED given

\* The node's callback for a Nack logs and calls nobody.
OwnerNacked ==
  /\ up /\ stage = "asked"
  /\ stage' = "nacked"
  /\ UNCHANGED <<up, given, reply, fetch, reports>>

\* Altered: the node's packet is taken for a reply.
TrustPacket ==
  /\ up /\ stage = "asked"
  /\ Trust([number |-> "missing", hmac |-> FALSE, cert |-> "none"])
  /\ UNCHANGED given

\* After the timeout the node's packet has none of the parts that are read.
OwnerSilent ==
  /\ up /\ stage = "asked"
  /\ Die \/ Refuse
  /\ UNCHANGED given

-----------------------------------------------------------------------------
(***************************************************************************)
(* The device's certificate                                                *)
(***************************************************************************)

\* The handler of "/" is reached only by a filter that was registered when the
\* node began to serve.
Routed == up /\ stage = "serving" /\ rootServed

\* The request is answered with the unsigned certificate, and the signed one
\* asked for: fetchDeviceCert.
ServeUnsignedCert(q) ==
  /\ Routed /\ fetch[q] = "none"
  /\ \/ Die
     \/ /\ fetch' = [fetch EXCEPT ![q] = "pending"]
        /\ UNCHANGED <<up, stage, reply, reports>>
  /\ UNCHANGED given

\* validateOwnerRequest fails, or has too few arguments to read.
RefuseRequest ==
  /\ Routed
  /\ \/ Die
     \/ /\ reports' \in {reports, reports \cup {"retries"}}
        /\ UNCHANGED <<up, stage, reply, fetch>>
  /\ UNCHANGED given

\* setDeviceCert: the session's identity has the key that was certified.
InstallCert(q) ==
  /\ up /\ fetch[q] = "pending"
  /\ identity = "own"
  /\ fetch' = [fetch EXCEPT ![q] = "installed"]
  /\ reports' = reports \cup {"success"}
  /\ UNCHANGED <<up, given, stage, reply>>

\* There is no identity, its key is another, what came is no certificate of it,
\* or nothing came in time: dereferenced null, or thrown at.
FetchFails(q) ==
  /\ up /\ fetch[q] = "pending"
  /\ Die
  /\ UNCHANGED given

FetchNacked(q) ==
  /\ up /\ fetch[q] = "pending"
  /\ fetch' = [fetch EXCEPT ![q] = "nacked"]
  /\ UNCHANGED <<up, given, stage, reply, reports>>

-----------------------------------------------------------------------------
OwnerInterestEnds == OwnerNacked \/ OwnerSilent \/ \E d \in Reply : OwnerReplies(d)
FetchEnds(q) == InstallCert(q) \/ FetchFails(q) \/ FetchNacked(q)

BootstrapNext ==
  \/ Start
  \/ OwnerInterestEnds
  \/ \E q \in Request : ServeUnsignedCert(q)
  \/ RefuseRequest
  \/ \E q \in Request : FetchEnds(q)

BootstrapSpec == BootstrapInit /\ [][BootstrapNext]_bootstrap

\* start is called; every interest that was expressed ends.
FairBootstrap ==
  /\ BootstrapSpec
  /\ WF_bootstrap(Start)
  /\ WF_bootstrap(OwnerInterestEnds)
  /\ \A q \in Request : WF_bootstrap(FetchEnds(q))

-----------------------------------------------------------------------------
(***************************************************************************)
(* Properties                                                              *)
(***************************************************************************)

\* Nothing is asked of the network in the owner's name, and no success reported,
\* before an owner who knows the pairing code is trusted: the anchor is of a
\* reply made with the code, and success follows a certificate fetched for a
\* request made with it (validateOwnerCertResp, validateOwnerRequest,
\* setDeviceCert).  That the reply is to the number of this session is more
\* than the code sees to, and so is that the request is new: what its hash
\* covers has no number in it.
Asked == \E q \in Request : fetch[q] # "none"
MutuallyAuthenticated ==
  /\ Asked => reply # NoReply /\ reply.hmac /\ reply.cert = "good"
  /\ "success" \in reports => \E q \in Request : fetch[q] = "installed"

\* A handshake that failed is over: nothing is trusted, served, fetched or
\* reported after the report, whatever else is delivered (startBootstrap).
RefusedIsOver ==
  [][reports \cap {"invalid", "owner refused"} # {} => UNCHANGED bootstrap]_bootstrap

\* A bootstrap that is started reports, or the process ends, but for these
\* cases: the owner's interest was nacked, the path "/" has no filter, no
\* request of the owner comes, or all that came led to nacked fetches.
Unreported ==
  \/ stage = "nacked"
  \/ stage = "serving" /\ ~rootServed
  \/ stage = "serving" /\ \A q \in Request : fetch[q] \in {"none", "nacked"}
Concludes == <>[](reports # {} \/ ~up \/ Unreported)

=============================================================================
