--------------------------- MODULE ServiceProofs ----------------------------
(***************************************************************************)
(* Theorems about ManagerService: serving the manager's operations keeps   *)
(* what is proved of Manager, and ties its state to the requests that were *)
(* acknowledged.                                                           *)
(***************************************************************************)
EXTENDS ManagerService, ManagerProofs

-----------------------------------------------------------------------------
(***************************************************************************)
(* The service drives the manager                                          *)
(***************************************************************************)

\* What onGrant makes of a data type is an interval that grants may give.
LEMMA ServedInterval ==
  ASSUME NEW t \in DataType
  PROVE  [name |-> ScheduleOf[t], window |-> GrantWindow] \in NamedInterval
BY ServiceAssumption DEF NamedInterval

\* Each handler is one operation of the manager, or none.
LEMMA ServiceStep == [ServiceNext]_serviceVars => [Next]_vars
<1> SUFFICES ASSUME [ServiceNext]_serviceVars PROVE [Next]_vars
  OBVIOUS
<1>1. CASE \E e \in Entity, c \in Cert : CertificateComes(e, c)
  BY <1>1, ManagerAssumption DEF CertificateComes, Next
<1>2. CASE \E e \in Entity : ServeRemove(e)
  BY <1>2 DEF ServeRemove, Next
<1>3. CASE \E e \in Entity, t \in DataType : ServeGrant(e, t)
  BY <1>3, ServedInterval DEF ServeGrant, Next
<1>4. CASE \E e \in Entity, t \in DataType : ServeRevoke(e, t)
  BY <1>4 DEF ServeRevoke, Next
<1>5. CASE \E t \in DataType, s \in Slot : ServeEKey(t, s)
  BY <1>5 DEF ServeEKey, Next
<1>6. CASE \E e \in Entity, t \in DataType, s \in Slot : ServeDKey(e, t, s)
  BY <1>6 DEF ServeDKey, Next
<1>7. CASE UNCHANGED vars \/ Tick
  BY <1>7 DEF Next
<1>8. \/ UNCHANGED vars \/ Tick
      \/ \E e \in Entity, c \in Cert : CertificateComes(e, c)
      \/ \E e \in Entity : ServeRemove(e)
      \/ \E e \in Entity, t \in DataType : ServeGrant(e, t) \/ ServeRevoke(e, t)
      \/ \E t \in DataType, s \in Slot : ServeEKey(t, s)
      \/ \E e \in Entity, t \in DataType, s \in Slot : ServeDKey(e, t, s)
  BY DEF ServiceNext, serviceVars, ServeAdd, AddNacked, NoCertificateComes,
         ServeIdentity, ServeUnreadable, TimePasses
<1> QED
  BY <1>1, <1>2, <1>3, <1>4, <1>5, <1>6, <1>7, <1>8

\* Whatever requests the service is sent, and whenever certificates arrive,
\* the manager under it behaves as Manager specifies (service.cpp).
THEOREM ServiceRefines == ServiceSpec => Spec
<1>1. ServiceInit => Init
  BY DEF ServiceInit
<1> QED
  BY <1>1, ServiceStep, PTL DEF ServiceSpec, Spec

\* So that what is proved of Manager holds of the service: a revocation that
\* was acknowledged is final until the next grant.
THEOREM ServedRevocation == ServiceSpec => []RevokedCannotRead
BY ServiceRefines, Revocation, PTL

\* The manager behind the service implements AccessEpochs.
THEOREM ServedEpochs == ServiceSpec => ImplementsEpochs
BY ServiceRefines, Refinement, PTL

-----------------------------------------------------------------------------
(***************************************************************************)
(* The log                                                                 *)
(***************************************************************************)

\* What is said of earlier events does not change when one more is logged,
\* but for revocations, which count for all before them.
LEMMA Logging ==
  ASSUME log \in Seq(Event), NEW event \in Event, log' = Append(log, event)
  PROVE  /\ Len(log) \in Nat /\ Len(log') = Len(log) + 1
         /\ \A n \in 1..Len(log) : log'[n] = log[n]
         /\ log'[Len(log) + 1] = event
OBVIOUS

LEMMA LogKeepsRegistrations ==
  ASSUME log \in Seq(Event), NEW event \in Event, log' = Append(log, event),
         NEW c \in Cert, NEW n \in 1..(Len(log) + 1)
  PROVE  RegisteredBefore(c, n)' <=> RegisteredBefore(c, n)
<1> DEFINE Added(i) == log[i].op = "add" /\ log[i].name = c
           Removed(i) == log[i].op = "remove" /\ log[i].name = c
           AddedNow(i) == log'[i].op = "add" /\ log'[i].name = c
           RemovedNow(i) == log'[i].op = "remove" /\ log'[i].name = c
<1>1. \A i \in 1..(n - 1) : i \in 1..Len(log) /\ log'[i] = log[i]
  BY Logging
<1>2. \A i \in 1..(n - 1) : \A m \in (i + 1)..(n - 1) : m \in 1..(n - 1)
  OBVIOUS
<1>3. /\ \A i \in 1..(n - 1) : AddedNow(i) <=> Added(i)
      /\ \A i \in 1..(n - 1) : RemovedNow(i) <=> Removed(i)
  BY <1>1, Zenon
<1>4. /\ RegisteredBefore(c, n) <=>
           \E i \in 1..(n - 1) : Added(i) /\ \A m \in (i + 1)..(n - 1) : ~Removed(m)
      /\ RegisteredBefore(c, n)' <=>
           \E i \in 1..(n - 1) : AddedNow(i) /\ \A m \in (i + 1)..(n - 1) : ~RemovedNow(m)
  BY Zenon DEF RegisteredBefore
<1> HIDE DEF Added, Removed, AddedNow, RemovedNow
<1> QED
  BY <1>2, <1>3, <1>4, Zenon

LEMMA LogExtendsRegistrations ==
  ASSUME log \in Seq(Event), NEW event \in Event, log' = Append(log, event),
         NEW c \in Cert
  PROVE  RegisteredBefore(c, Len(log) + 1)' <=>
           \/ event.op = "add" /\ event.name = c
           \/ /\ RegisteredBefore(c, Len(log) + 1)
              /\ ~(event.op = "remove" /\ event.name = c)
<1>1. /\ Len(log) \in Nat /\ Len(log') = Len(log) + 1
      /\ log'[Len(log) + 1] = event
      /\ \A n \in 1..Len(log) : log'[n] = log[n]
  BY Logging
<1>2. PICK l \in Nat : l = Len(log)
  BY <1>1
<1> DEFINE Added(i) == log[i].op = "add" /\ log[i].name = c
           Removed(i) == log[i].op = "remove" /\ log[i].name = c
           AddedNow(i) == log'[i].op = "add" /\ log'[i].name = c
           RemovedNow(i) == log'[i].op = "remove" /\ log'[i].name = c
<1>3. RegisteredBefore(c, Len(log) + 1)' <=>
        \E i \in 1..(l + 1) : AddedNow(i) /\ \A m \in (i + 1)..(l + 1) : ~RemovedNow(m)
  <2>1. Len(log') + 1 - 1 = l + 1
    BY <1>1, <1>2
  <2> QED
    BY <2>1, SMTT(60) DEF RegisteredBefore
<1>4. RegisteredBefore(c, Len(log) + 1) <=>
        \E i \in 1..l : Added(i) /\ \A m \in (i + 1)..l : ~Removed(m)
  <2>1. Len(log) + 1 - 1 = l
    BY <1>1, <1>2
  <2> QED
    BY <2>1, SMTT(60) DEF RegisteredBefore
<1>5. /\ \A i \in 1..l : AddedNow(i) <=> Added(i)
      /\ \A i \in 1..l : \A m \in (i + 1)..l : RemovedNow(m) <=> Removed(m)
  BY <1>1, <1>2
<1>6. /\ AddedNow(l + 1) <=> event.op = "add" /\ event.name = c
      /\ RemovedNow(l + 1) <=> event.op = "remove" /\ event.name = c
  BY <1>1, <1>2
<1>7. /\ \A i : i \in 1..(l + 1) <=> i \in 1..l \/ i = l + 1
      /\ \A i \in 1..l : \A m : m \in (i + 1)..(l + 1) <=> m \in (i + 1)..l \/ m = l + 1
      /\ \A m : m \notin ((l + 1) + 1)..(l + 1)
  BY <1>2
<1> HIDE DEF Added, Removed, AddedNow, RemovedNow
<1>8. (\E i \in 1..(l + 1) : AddedNow(i) /\ \A m \in (i + 1)..(l + 1) : ~RemovedNow(m))
        <=> \/ AddedNow(l + 1)
            \/ /\ \E i \in 1..l : Added(i) /\ \A m \in (i + 1)..l : ~Removed(m)
               /\ ~RemovedNow(l + 1)
  BY <1>5, <1>7, Zenon
<1> QED
  BY <1>3, <1>4, <1>6, <1>8

\* A grant stays what it was; a revocation counts against all before it.
LEMMA LogKeepsGrants ==
  ASSUME log \in Seq(Event), NEW event \in Event, log' = Append(log, event),
         NEW c \in Cert, NEW t \in DataType, NEW n \in 1..Len(log)
  PROVE  /\ n \in 1..Len(log')
         /\ GrantedAt(c, t, n)' <=> GrantedAt(c, t, n)
         /\ ~RevokedAfter(t, n) /\ ~(event.op = "revoke" /\ event.type = t)
              => ~RevokedAfter(t, n)'
<1>1. /\ Len(log) \in Nat /\ Len(log') = Len(log) + 1
      /\ log'[Len(log) + 1] = event
      /\ \A m \in 1..Len(log) : log'[m] = log[m]
  BY Logging
<1>2. n \in 1..Len(log') /\ n \in 1..(Len(log) + 1)
  BY <1>1
<1>3. GrantedAt(c, t, n)' <=> GrantedAt(c, t, n)
  BY <1>1, <1>2, LogKeepsRegistrations DEF GrantedAt
<1>4. ASSUME ~RevokedAfter(t, n), ~(event.op = "revoke" /\ event.type = t)
      PROVE  ~RevokedAfter(t, n)'
  <2>1. ASSUME NEW m \in (n + 1)..Len(log'), log'[m].op = "revoke" /\ log'[m].type = t
        PROVE  FALSE
    <3>1. m = Len(log) + 1 \/ m \in (n + 1)..Len(log)
      BY <1>1
    <3>2. CASE m = Len(log) + 1
      BY <1>1, <1>4, <2>1, <3>2
    <3>3. CASE m \in (n + 1)..Len(log)
      BY <1>1, <1>4, <2>1, <3>3 DEF RevokedAfter
    <3> QED
      BY <3>1, <3>2, <3>3
  <2> QED
    BY <2>1 DEF RevokedAfter
<1> QED
  BY <1>2, <1>3, <1>4

-----------------------------------------------------------------------------
(***************************************************************************)
(* Types                                                                   *)
(***************************************************************************)

LEMMA ServiceNextType ==
  ServiceTypeOK /\ [ServiceNext]_serviceVars => ServiceTypeOK'
<1> SUFFICES ASSUME ServiceTypeOK, [ServiceNext]_serviceVars PROVE ServiceTypeOK'
  OBVIOUS
<1>1. ASSUME NEW e \in Entity, NEW c \in Cert, CertificateComes(e, c)
      PROVE  ServiceTypeOK'
  <2>1. [op |-> "add", asked |-> e, name |-> c] \in Event
    BY DEF Event
  <2> QED
    BY <1>1, <2>1 DEF CertificateComes, Logged, Answered, ServiceTypeOK
<1>2. ASSUME NEW e \in Entity, ServeRemove(e) PROVE ServiceTypeOK'
  <2>1. [op |-> "remove", name |-> e] \in Event
    BY DEF Event
  <2> QED
    BY <1>2, <2>1 DEF ServeRemove, Logged, Answered, ServiceTypeOK
<1>3. ASSUME NEW e \in Entity, NEW t \in DataType, ServeGrant(e, t) \/ ServeRevoke(e, t)
      PROVE  ServiceTypeOK'
  <2>1. PICK op \in {"grant", "revoke"} :
          /\ log' = Append(log, [op |-> op, name |-> e, type |-> t])
          /\ answer' = "data" /\ UNCHANGED <<up, adding>>
    BY <1>3, Zenon DEF ServeGrant, ServeRevoke, Logged, Answered
  <2>2. [op |-> op, name |-> e, type |-> t] \in Event
    BY DEF Event
  <2> QED
    BY <2>1, <2>2 DEF ServiceTypeOK
<1>4. ASSUME UNCHANGED log,
             \/ UNCHANGED serviceVars
             \/ \E e \in Entity : ServeAdd(e) \/ AddNacked(e) \/ NoCertificateComes(e)
                                  \/ ServeIdentity(e)
             \/ \E t \in DataType, s \in Slot : ServeEKey(t, s)
             \/ \E e \in Entity, t \in DataType, s \in Slot : ServeDKey(e, t, s)
             \/ ServeUnreadable \/ TimePasses
      PROVE  ServiceTypeOK'
  BY <1>4 DEF serviceVars, ServeAdd, AddNacked, NoCertificateComes, ServeIdentity,
              ServeEKey, ServeDKey, ServeUnreadable, TimePasses, Answered, ServiceTypeOK
<1> QED
  BY <1>1, <1>2, <1>3, <1>4 DEF ServiceNext, serviceVars, ServeAdd, AddNacked,
     NoCertificateComes, ServeIdentity, ServeEKey, ServeDKey, ServeUnreadable, TimePasses

\* The service's own state keeps its types.
THEOREM ServiceTypes == ServiceSpec => []ServiceTypeOK
<1>1. ServiceInit => ServiceTypeOK
  BY DEF ServiceInit, ServiceTypeOK
<1> QED
  BY <1>1, ServiceNextType, PTL DEF ServiceSpec

-----------------------------------------------------------------------------
(***************************************************************************)
(* The registry                                                            *)
(***************************************************************************)

\* Which of the two names it is: a certificate is registered under its own if
\* an addition was the last event about it, and under no other.
OwnNameRegistry ==
  \A e \in Entity :
    identities[e] = IF e \in Cert /\ RegisteredBefore(e, Len(log) + 1)
                    THEN e ELSE NoCert

LEMMA RegistryStep ==
  TypeOK /\ ServiceTypeOK /\ OwnNameRegistry /\ [ServiceNext]_serviceVars
    => OwnNameRegistry'
<1> SUFFICES ASSUME TypeOK, ServiceTypeOK, OwnNameRegistry,
                    [ServiceNext]_serviceVars
             PROVE  OwnNameRegistry'
  OBVIOUS
<1> DEFINE Registered(e) == RegisteredBefore(e, Len(log) + 1)
<1>1. log \in Seq(Event) /\ identities \in [Entity -> Cert \cup {NoCert}]
  BY DEF TypeOK, ServiceTypeOK
<1>2. ASSUME NEW event \in Event, log' = Append(log, event), NEW c \in Cert
      PROVE  Registered(c)' <=>
               \/ event.op = "add" /\ event.name = c
               \/ Registered(c) /\ ~(event.op = "remove" /\ event.name = c)
  BY <1>1, <1>2, LogExtendsRegistrations
<1>3. \A d \in Entity : identities[d] = IF d \in Cert /\ Registered(d) THEN d ELSE NoCert
  BY DEF OwnNameRegistry
<1>4. SUFFICES \A d \in Entity :
                 identities'[d] = IF d \in Cert /\ Registered(d)' THEN d ELSE NoCert
  BY DEF OwnNameRegistry
<1>5. ASSUME NEW e \in Entity, NEW c \in Cert, CertificateComes(e, c), NEW d \in Entity
      PROVE  identities'[d] = IF d \in Cert /\ Registered(d)' THEN d ELSE NoCert
  <2> DEFINE event == [op |-> "add", asked |-> e, name |-> c]
  <2>1. event \in Event /\ log' = Append(log, event)
    BY <1>5 DEF CertificateComes, Logged, Event
  <2>2. identities' = [identities EXCEPT ![c] = c]
    BY <1>5 DEF CertificateComes, AddIdentity
  <2>3. c \in Entity
    BY ManagerAssumption
  <2>4. d \in Cert => (Registered(d)' <=> d = c \/ Registered(d))
    BY <1>2, <2>1
  <2> HIDE DEF Registered
  <2> QED
    BY <1>1, <1>3, <2>2, <2>3, <2>4
<1>6. ASSUME NEW e \in Entity, ServeRemove(e), NEW d \in Entity
      PROVE  identities'[d] = IF d \in Cert /\ Registered(d)' THEN d ELSE NoCert
  <2> DEFINE event == [op |-> "remove", name |-> e]
  <2>1. event \in Event /\ log' = Append(log, event)
    BY <1>6 DEF ServeRemove, Logged, Event
  <2>2. identities' = [identities EXCEPT ![e] = NoCert]
    BY <1>6 DEF ServeRemove, RemoveIdentity
  <2>3. d \in Cert => (Registered(d)' <=> Registered(d) /\ d # e)
    BY <1>2, <2>1
  <2> HIDE DEF Registered
  <2> QED
    BY <1>1, <1>3, <2>2, <2>3
<1>7. ASSUME NEW e \in Entity, NEW t \in DataType, ServeGrant(e, t) \/ ServeRevoke(e, t),
             NEW d \in Entity
      PROVE  identities'[d] = IF d \in Cert /\ Registered(d)' THEN d ELSE NoCert
  <2>1. PICK op \in {"grant", "revoke"} :
               log' = Append(log, [op |-> op, name |-> e, type |-> t])
    BY <1>7 DEF ServeGrant, ServeRevoke, Logged
  <2>2. [op |-> op, name |-> e, type |-> t] \in Event
    BY DEF Event
  <2>3. identities' = identities
    BY <1>7 DEF ServeGrant, ServeRevoke, Grant, Revoke
  <2>4. d \in Cert => (Registered(d)' <=> Registered(d))
    BY <1>2, <2>1, <2>2
  <2> HIDE DEF Registered
  <2> QED
    BY <1>3, <2>3, <2>4
<1>8. ASSUME UNCHANGED <<log, identities>>, NEW d \in Entity
      PROVE  identities'[d] = IF d \in Cert /\ Registered(d)' THEN d ELSE NoCert
  BY <1>3, <1>8 DEF RegisteredBefore
<1>9. \/ UNCHANGED <<log, identities>>
      \/ \E e \in Entity, c \in Cert : CertificateComes(e, c)
      \/ \E e \in Entity : ServeRemove(e)
      \/ \E e \in Entity, t \in DataType : ServeGrant(e, t) \/ ServeRevoke(e, t)
  BY DEF ServiceNext, serviceVars, vars, ServeAdd, AddNacked, NoCertificateComes,
         ServeIdentity, ServeEKey, ServeDKey, ServeUnreadable, GetEKey, GetDKey,
         TimePasses, Tick
<1> HIDE DEF Registered
<1> QED
  BY <1>5, <1>6, <1>7, <1>8, <1>9

LEMMA InitRegistry == ServiceInit => OwnNameRegistry
<1> SUFFICES ASSUME ServiceInit PROVE OwnNameRegistry
  OBVIOUS
<1>1. 1..(Len(log) + 1 - 1) = {}
  BY DEF ServiceInit
<1>2. \A e \in Entity : identities[e] = NoCert
  BY DEF ServiceInit, Init
<1>3. \A e \in Entity : ~RegisteredBefore(e, Len(log) + 1)
  BY <1>1 DEF RegisteredBefore
<1> QED
  BY <1>2, <1>3 DEF OwnNameRegistry

\* Certificates are registered under their own names, by what was said of them
\* last (onAddIdentityKey, onRemoveIdentity).
THEOREM OwnNames == ServiceSpec => []OwnNameRegistry
<1>1. ServiceInit => OwnNameRegistry
  BY InitRegistry
<1>2. ServiceSpec => []TypeOK
  BY ServiceRefines, TypeCorrect, PTL
<1> QED
  BY <1>1, <1>2, ServiceTypes, RegistryStep, PTL DEF ServiceSpec

LEMMA OwnNameSuffices ==
  TypeOK /\ ServiceTypeOK /\ OwnNameRegistry => RegistryIsLastWord
<1> SUFFICES ASSUME TypeOK, ServiceTypeOK, OwnNameRegistry PROVE RegistryIsLastWord
  OBVIOUS
<1>1. log \in Seq(Event) /\ Len(log) \in Nat /\ Len(log) + 1 - 1 = Len(log)
  BY DEF ServiceTypeOK
<1>2. \A c \in Cert : RegisteredBefore(c, Len(log) + 1) <=>
        \E n \in 1..Len(log) : log[n].op = "add" /\ log[n].name = c /\ ~RemovedAfter(c, n)
  BY <1>1 DEF RegisteredBefore, RemovedAfter
<1>3. ASSUME NEW e \in Entity, identities[e] # NoCert
      PROVE  \E n \in 1..Len(log) :
               AddedAs(e, n) /\ log[n].name = identities[e] /\ ~RemovedAfter(e, n)
  <2>1. identities[e] = e /\ e \in Cert /\ RegisteredBefore(e, Len(log) + 1)
    BY <1>3 DEF OwnNameRegistry
  <2>2. PICK n \in 1..Len(log) : log[n].op = "add" /\ log[n].name = e /\ ~RemovedAfter(e, n)
    BY <1>2, <2>1
  <2>3. AddedAs(e, n)
    BY <2>2 DEF AddedAs
  <2> QED
    BY <2>1, <2>2, <2>3, Zenon
<1>4. ASSUME NEW n \in 1..Len(log), log[n].op = "add"
      PROVE  \E e \in Entity : AddedAs(e, n) /\ (identities[e] # NoCert \/ RemovedAfter(e, n))
  <2> DEFINE c == log[n].name
  <2>1. c \in Cert /\ c \in Entity
    BY <1>1, <1>4, ManagerAssumption DEF Event
  <2>2. AddedAs(c, n)
    BY <1>4 DEF AddedAs
  <2>3. ASSUME ~RemovedAfter(c, n) PROVE identities[c] # NoCert
    <3>1. RegisteredBefore(c, Len(log) + 1)
      BY <1>2, <1>4, <2>1, <2>3
    <3> QED
      BY <2>1, <3>1, ManagerAssumption DEF OwnNameRegistry
  <2> HIDE DEF c
  <2> QED
    BY <2>1, <2>2, <2>3, Zenon
<1> QED
  BY <1>3, <1>4, Zenon DEF RegistryIsLastWord

\* The registry is what the acknowledged requests leave, whatever is served
\* while certificates are on their way (onAddIdentityKey, onRemoveIdentity).
THEOREM Registry == ServiceSpec => []RegistryIsLastWord
<1>1. ServiceSpec => []TypeOK
  BY ServiceRefines, TypeCorrect, PTL
<1> QED
  BY <1>1, ServiceTypes, OwnNames, OwnNameSuffices, PTL

-----------------------------------------------------------------------------
(***************************************************************************)
(* Holders of keys                                                         *)
(***************************************************************************)

\* Some acknowledged grant of the type was to the registered certificate; and
\* one no revocation of the type came after.
Earned(c, t) == \E n \in 1..Len(log) : GrantedAt(c, t, n)
EarnedSince(c, t) == \E n \in 1..Len(log) : GrantedAt(c, t, n) /\ ~RevokedAfter(t, n)

\* A member was granted its type since the last revocation of it, and cached
\* keys were earned at some time, too: with IInv, by which a key in force is
\* of a member, this is HeldIsEarned.
MembersAreEarned ==
  \A c \in Cert, t \in DataType : IsMember(t, c) => EarnedSince(c, t)
KeysAreEarned ==
  /\ \A c \in Cert : dkeyCache[c] # NoKey => Earned(c, dkeyCache[c].type)
  /\ \A h \in held : Earned(h[1], h[2].type)

LogInv == OwnNameRegistry /\ MembersAreEarned /\ KeysAreEarned

LEMMA HeldFollows == IInv /\ MembersAreEarned /\ KeysAreEarned => HeldIsEarned
<1> SUFFICES ASSUME IInv, MembersAreEarned, KeysAreEarned, NEW h \in held
             PROVE  \E n \in 1..Len(log) :
                      /\ GrantedAt(h[1], h[2].type, n)
                      /\ h[2].group = group[h[2].type] => ~RevokedAfter(h[2].type, n)
  BY DEF HeldIsEarned
<1>1. h[1] \in Cert /\ h[2].type \in DataType
  BY DEF IInv, TypeOK, Key
<1>2. CASE h[2].group = group[h[2].type]
  <2>1. IsMember(h[2].type, h[1])
    BY <1>2 DEF IInv, LiveKeysAreOfMembers, ReadableOnlyIfMember
  <2> QED
    BY <1>1, <2>1 DEF MembersAreEarned, EarnedSince
<1>3. CASE h[2].group # group[h[2].type]
  BY <1>3 DEF KeysAreEarned, Earned
<1> QED
  BY <1>2, <1>3

LEMMA EarnedStays ==
  ASSUME log \in Seq(Event), NEW event \in Event, log' = Append(log, event),
         NEW c \in Cert, NEW t \in DataType
  PROVE  /\ Earned(c, t) => Earned(c, t)'
         /\ EarnedSince(c, t) /\ ~(event.op = "revoke" /\ event.type = t)
              => EarnedSince(c, t)'
BY LogKeepsGrants DEF Earned, EarnedSince

\* Keys stay earned as events are logged.
LEMMA KeysStayEarned ==
  ASSUME TypeOK, KeysAreEarned, log \in Seq(Event), NEW event \in Event,
         log' = Append(log, event), UNCHANGED <<dkeyCache, held>>
  PROVE  KeysAreEarned'
<1>1. \A c \in Cert : dkeyCache[c] # NoKey => dkeyCache[c].type \in DataType
  BY DEF TypeOK, Key
<1>2. \A h \in held : h[1] \in Cert /\ h[2].type \in DataType
  BY DEF TypeOK, Key
<1> QED
  BY <1>1, <1>2, EarnedStays DEF KeysAreEarned

\* A grant earns what it makes of the entity's certificate a member of.
LEMMA GrantEarns ==
  ASSUME TypeOK, ServiceTypeOK, OwnNameRegistry, MembersAreEarned,
         NEW e \in Entity, NEW t \in DataType, ServeGrant(e, t)
  PROVE  MembersAreEarned'
<1> DEFINE event == [op |-> "grant", name |-> e, type |-> t]
<1>1. /\ log \in Seq(Event) /\ event \in Event
      /\ log' = Append(log, event)
  BY DEF ServiceTypeOK, ServeGrant, Logged, Event
<1>2. AddGroupMember(t, e, ScheduleOf[t])
  BY DEF ServeGrant, Grant
<1> SUFFICES ASSUME NEW c \in Cert, NEW u \in DataType, IsMember(u, c)'
             PROVE  EarnedSince(c, u)'
  BY DEF MembersAreEarned
<1>3. CASE IsMember(u, c)
  BY <1>1, <1>3, EarnedStays DEF MembersAreEarned
<1>4. CASE ~IsMember(u, c)
  <2>1. u = t /\ identities[e] = c
    BY <1>2, <1>4 DEF AddGroupMember, UpdateMemberSchedule, IsMember, TypeOK
  <2>2. c = e /\ RegisteredBefore(c, Len(log) + 1)
    BY <2>1, ManagerAssumption DEF OwnNameRegistry
  <2>3. PICK n \in Nat : n = Len(log) + 1
    BY <1>1, Logging
  <2>4. n \in 1..Len(log') /\ log'[n] = event /\ Len(log') = n /\ n \in 1..(Len(log) + 1)
    BY <1>1, <2>3, Logging
  <2>5. RegisteredBefore(c, n)'
    BY <1>1, <2>2, <2>3, <2>4, LogKeepsRegistrations
  <2>6. GrantedAt(c, u, n)'
    BY <2>1, <2>2, <2>4, <2>5 DEF GrantedAt
  <2>7. ~RevokedAfter(u, n)'
    BY <2>4 DEF RevokedAfter
  <2> QED
    BY <2>4, <2>6, <2>7 DEF EarnedSince
<1> QED
  BY <1>3, <1>4

\* Keys are made for members, and handed out from the cache.
LEMMA FetchKeepsEarned ==
  ASSUME TypeOK, MembersAreEarned, KeysAreEarned, UNCHANGED log,
         NEW t \in DataType, NEW s \in Slot,
         GetEKey(t, s) \/ \E e \in Entity : GetDKey(e, t, s)
  PROVE  KeysAreEarned'
<1>1. \A c, u : Earned(c, u)' <=> Earned(c, u)
  BY DEF Earned, GrantedAt, RegisteredBefore
<1> DEFINE Good(cache) == \A c \in Cert : cache[c] # NoKey => Earned(c, cache[c].type)
<1>2. Good(dkeyCache) /\ \A h \in held : Earned(h[1], h[2].type)
  BY DEF KeysAreEarned
<1>3. Good(Refreshed(t, s))
  <2> SUFFICES ASSUME NEW c \in Cert, Refreshed(t, s)[c] # NoKey
               PROVE  Earned(c, Refreshed(t, s)[c].type)
    OBVIOUS
  <2>1. CASE HasKey(t, s) /\ c \in Readers(t, s)
    <3>1. Refreshed(t, s)[c].type = t
      BY <2>1 DEF Refreshed, CurrentKey
    <3>2. EarnedSince(c, t)
      BY <2>1 DEF Readers, MembersAreEarned
    <3> QED
      BY <3>1, <3>2 DEF EarnedSince, Earned
  <2>2. CASE ~(HasKey(t, s) /\ c \in Readers(t, s))
    BY <1>2, <2>2 DEF Refreshed
  <2> QED
    BY <2>1, <2>2
<1>4. ASSUME NEW e \in Entity, NEW cache, Good(cache), Answer(e, t, s, cache)
      PROVE  \A h \in held' : Earned(h[1], h[2].type)
  <2>1. CASE UNCHANGED held
    BY <1>2, <2>1
  <2>2. CASE \E c \in Cert : Found(cache, e, c) /\ held' = held \cup {<<c, cache[c]>>}
    BY <1>2, <1>4, <2>2 DEF Found, Cached
  <2> QED
    BY <1>4, <2>1, <2>2 DEF Answer
<1>5. Good(dkeyCache') /\ \A h \in held' : Earned(h[1], h[2].type)
  <2>1. CASE GetEKey(t, s)
    BY <1>2, <1>3, <2>1 DEF GetEKey
  <2>2. CASE \E e \in Entity : GetDKey(e, t, s)
    BY <1>2, <1>3, <1>4, <2>2 DEF GetDKey
  <2> QED
    BY <2>1, <2>2
<1> QED
  BY <1>1, <1>5 DEF KeysAreEarned

LEMMA InitLog == ServiceInit => LogInv
<1> SUFFICES ASSUME ServiceInit PROVE LogInv
  OBVIOUS
<1>1. OwnNameRegistry
  BY InitRegistry
<1>2. MembersAreEarned /\ KeysAreEarned
  BY DEF ServiceInit, Init, MembersAreEarned, KeysAreEarned, IsMember
<1> QED
  BY <1>1, <1>2 DEF LogInv

LEMMA LogStep ==
  TypeOK /\ ServiceTypeOK /\ LogInv /\ [ServiceNext]_serviceVars => LogInv'
<1> SUFFICES ASSUME TypeOK, ServiceTypeOK, LogInv, [ServiceNext]_serviceVars
             PROVE  LogInv'
  OBVIOUS
<1>0. /\ log \in Seq(Event) /\ OwnNameRegistry /\ MembersAreEarned /\ KeysAreEarned
      /\ OwnNameRegistry'
  BY RegistryStep DEF ServiceTypeOK, LogInv
<1>1. ASSUME NEW e \in Entity, NEW c \in Cert, CertificateComes(e, c)
      PROVE  MembersAreEarned' /\ KeysAreEarned'
  <2> DEFINE event == [op |-> "add", asked |-> e, name |-> c]
  <2>1. event \in Event /\ log' = Append(log, event) /\ event.op # "revoke"
    BY <1>1 DEF CertificateComes, Logged, Event
  <2>2. UNCHANGED <<member, dkeyCache, held>>
    BY <1>1 DEF CertificateComes, AddIdentity, db
  <2> HIDE DEF event
  <2>3. MembersAreEarned'
    BY <1>0, <2>1, <2>2, EarnedStays DEF MembersAreEarned, IsMember
  <2> QED
    BY <1>0, <2>1, <2>2, <2>3, KeysStayEarned
<1>2. ASSUME NEW e \in Entity, ServeRemove(e)
      PROVE  MembersAreEarned' /\ KeysAreEarned'
  <2> DEFINE event == [op |-> "remove", name |-> e]
  <2>1. event \in Event /\ log' = Append(log, event) /\ event.op # "revoke"
    BY <1>2 DEF ServeRemove, Logged, Event
  <2>2. UNCHANGED <<member, dkeyCache, held>>
    BY <1>2 DEF ServeRemove, RemoveIdentity, db
  <2> HIDE DEF event
  <2>3. MembersAreEarned'
    BY <1>0, <2>1, <2>2, EarnedStays DEF MembersAreEarned, IsMember
  <2> QED
    BY <1>0, <2>1, <2>2, <2>3, KeysStayEarned
<1>3. ASSUME NEW e \in Entity, NEW t \in DataType, ServeGrant(e, t)
      PROVE  MembersAreEarned' /\ KeysAreEarned'
  <2> DEFINE event == [op |-> "grant", name |-> e, type |-> t]
  <2>1. event \in Event /\ log' = Append(log, event)
    BY <1>3 DEF ServeGrant, Logged, Event
  <2>2. UNCHANGED <<dkeyCache, held>>
    BY <1>3 DEF ServeGrant, Grant
  <2> HIDE DEF event
  <2>3. MembersAreEarned'
    BY <1>0, <1>3, GrantEarns
  <2> QED
    BY <1>0, <2>1, <2>2, <2>3, KeysStayEarned
<1>4. ASSUME NEW e \in Entity, NEW t \in DataType, ServeRevoke(e, t)
      PROVE  MembersAreEarned' /\ KeysAreEarned'
  <2> DEFINE event == [op |-> "revoke", name |-> e, type |-> t]
  <2>1. event \in Event /\ log' = Append(log, event) /\ event.type = t
    BY <1>4 DEF ServeRevoke, Logged, Event
  <2>2. UNCHANGED <<dkeyCache, held>>
    BY <1>4 DEF ServeRevoke, Revoke
  <2> HIDE DEF event
  <2>3. \A c \in Cert, u \in DataType : IsMember(u, c)' => u # t /\ IsMember(u, c)
    BY <1>4 DEF ServeRevoke, Revoke, IsMember, TypeOK
  <2>4. MembersAreEarned'
    BY <1>0, <2>1, <2>3, EarnedStays DEF MembersAreEarned
  <2> QED
    BY <1>0, <2>1, <2>2, <2>4, KeysStayEarned
<1>5. ASSUME UNCHANGED <<log, member>> PROVE MembersAreEarned'
  <2>1. \A c, u, n : GrantedAt(c, u, n)' <=> GrantedAt(c, u, n)
    BY <1>5 DEF GrantedAt, RegisteredBefore
  <2>2. \A u, n : RevokedAfter(u, n)' <=> RevokedAfter(u, n)
    BY <1>5 DEF RevokedAfter
  <2>3. \A c, u : EarnedSince(c, u)' <=> EarnedSince(c, u)
    BY <1>5, <2>1, <2>2 DEF EarnedSince
  <2> QED
    BY <1>0, <1>5, <2>3 DEF MembersAreEarned, IsMember
<1>6. ASSUME NEW t \in DataType, NEW s \in Slot,
             ServeEKey(t, s) \/ \E e \in Entity : ServeDKey(e, t, s)
      PROVE  MembersAreEarned' /\ KeysAreEarned'
  <2>1. UNCHANGED <<log, member>> /\ (GetEKey(t, s) \/ \E e \in Entity : GetDKey(e, t, s))
    BY <1>6 DEF ServeEKey, ServeDKey, GetEKey, GetDKey, db
  <2> QED
    BY <1>0, <1>5, <2>1, FetchKeepsEarned
<1>7. ASSUME UNCHANGED <<log, member, dkeyCache, held>>
      PROVE  MembersAreEarned' /\ KeysAreEarned'
  <2>1. KeysAreEarned'
    BY <1>0, <1>7 DEF KeysAreEarned, Earned, GrantedAt, RegisteredBefore
  <2> QED
    BY <1>5, <1>7, <2>1
<1>8. \/ UNCHANGED <<log, member, dkeyCache, held>>
      \/ \E e \in Entity, c \in Cert : CertificateComes(e, c)
      \/ \E e \in Entity : ServeRemove(e)
      \/ \E e \in Entity, t \in DataType : ServeGrant(e, t) \/ ServeRevoke(e, t)
      \/ \E t \in DataType, s \in Slot :
            ServeEKey(t, s) \/ \E e \in Entity : ServeDKey(e, t, s)
  BY DEF ServiceNext, serviceVars, ServeAdd, AddNacked, NoCertificateComes,
         ServeIdentity, ServeUnreadable, TimePasses, Tick, vars, db
<1> QED
  BY <1>0, <1>1, <1>2, <1>3, <1>4, <1>6, <1>7, <1>8 DEF LogInv

LEMMA LogIsKept == ServiceSpec => []LogInv
<1>1. ServiceSpec => []TypeOK
  BY ServiceRefines, TypeCorrect, PTL
<1> QED
  BY <1>1, ServiceTypes, InitLog, LogStep, PTL DEF ServiceSpec

\* Whoever holds a D-KEY was granted its data type while its certificate was
\* registered, and, if the key is in force, since the last revocation: in
\* terms of the requests that were acknowledged (service.cpp, manager.cpp).
THEOREM HeldKeys == ServiceSpec => []HeldIsEarned
<1>1. IInv /\ LogInv => HeldIsEarned
  BY HeldFollows DEF LogInv
<1> QED
  BY <1>1, ServiceRefines, GroupsKept, LogIsKept, PTL
=============================================================================
