----------------------------- MODULE ServedHome ------------------------------
(***************************************************************************)
(* A home as its programs run it: nothing reaches the manager of           *)
(* HomeAccess but through the handlers of ManagerService, so that what     *)
(* consumers can read is tied to the requests that were acknowledged.      *)
(*                                                                         *)
(* The thermometer's interests end in every way at any time, also when     *)
(* the manager's process is over.                                          *)
(***************************************************************************)
EXTENDS HomeAccess, ManagerService

VARIABLE
  given  \* the E-KEYs that were given out, each with how many requests were
         \* acknowledged before (history)

service == <<up, adding, log, answer>>
servedHomeVars == <<homeVars, service, given>>

ServedHomeInit == HomeInit /\ ServiceInit /\ given = {}

ServedHomeTypeOK ==
  /\ given \subseteq Key \X (0..Len(log))
  /\ published = {g[1] : g \in given}

\* Requests that revoke nothing and give no E-KEY.
Serve ==
  /\ \/ \E e \in Entity : \/ ServeAdd(e) \/ AddNacked(e) \/ NoCertificateComes(e)
                          \/ ServeRemove(e) \/ ServeIdentity(e)
     \/ \E e \in Entity, c \in Cert : CertificateComes(e, c)
     \/ \E e \in Entity, t \in DataType : ServeGrant(e, t)
     \/ \E e \in Entity, t \in DataType, s \in Slot : ServeDKey(e, t, s)
     \/ ServeUnreadable
  /\ UNCHANGED <<thermometer, network, given>>

ServeRevocation(e, t) ==
  /\ ServeRevoke(e, t) /\ RevokeAccess(e, t)
  /\ UNCHANGED given

GiveEKey(t, s) ==
  /\ ServeEKey(t, s) /\ PublishEKey(t, s)
  /\ given' = given \cup {g \in {<<CurrentKey(t, s), Len(log)>>} : HasKey(t, s)}

Elsewhere == (Measure \/ PassHour) /\ UNCHANGED <<service, given>>

ServedHomeNext ==
  \/ Serve
  \/ \E e \in Entity, t \in DataType : ServeRevocation(e, t)
  \/ \E t \in DataType, s \in Slot : GiveEKey(t, s)
  \/ Elsewhere

ServedHomeSpec == ServedHomeInit /\ [][ServedHomeNext]_servedHomeVars

-----------------------------------------------------------------------------
(***************************************************************************)
(* Properties                                                              *)
(***************************************************************************)

\* No revocation of the type is among the requests between the first n and the
\* first m.
SameSpan(t, n, m) ==
  \A i \in 1..Len(log) :
    (n < i /\ i <= m) \/ (m < i /\ i <= n) => ~(log[i].op = "revoke" /\ log[i].type = t)

\* From end to end: who can decrypt a content key was granted its data type, its
\* certificate being registered, by a request that was acknowledged between the
\* same two revocations of the type as the E-KEY was given out that the content
\* key is encrypted with.  No grant gives a consumer what is encrypted with
\* E-KEYs of other spans, before or after, whatever is delayed, cached or at
\* hand (onGrant, onRevoke, onGetEKey, getDKey, createContentKey).
ReadIsGranted ==
  \A c \in Cert, d \in ckeys, g \in given :
    g[1] = d[2] /\ <<c, d[2]>> \in held =>
      \E n \in 1..Len(log) : GrantedAt(c, d[2].type, n) /\ SameSpan(d[2].type, n, g[2])

=============================================================================
