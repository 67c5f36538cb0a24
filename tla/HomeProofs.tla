----------------------------- MODULE HomeProofs ------------------------------
(***************************************************************************)
(* Theorems about HomeAccess and ServedHome: what grants, revocations and  *)
(* the requests for them mean for temperatures, from what is proved of the *)
(* manager, its service and the thermometer.                               *)
(***************************************************************************)
EXTENDS ServedHome, ServiceProofs, ThermometerProofs

\* An E-KEY given out since the last revocation of its type is of the group in
\* force.
PublishedIsInForce ==
  \A k \in published \ old : group[k.type] # 0 /\ k.group = group[k.type]

\* The producer has only E-KEYs that were given out.
UsedIsPublished ==
  /\ \A p \in Prefix : ekey[p] # NoEKey => ekey[p] \in published
  /\ \A h \in Hour : wrapped[h] \subseteq published

HomeInv == HomeTypeOK /\ PublishedIsInForce /\ UsedIsPublished

-----------------------------------------------------------------------------
(***************************************************************************)
(* The parts of the home behave as they are specified                      *)
(***************************************************************************)

LEMMA HomeStep ==
  HomeTypeOK /\ [HomeNext]_homeVars => [Next]_vars /\ [ThermometerNext]_thermometer
<1> SUFFICES ASSUME HomeTypeOK, [HomeNext]_homeVars
             PROVE  [Next]_vars /\ [ThermometerNext]_thermometer
  OBVIOUS
<1> USE HomeAssumption
<1>1. CASE Manage
  BY <1>1 DEF Manage, Next
<1>2. CASE \E e \in Entity, t \in DataType : RevokeAccess(e, t)
  BY <1>2 DEF RevokeAccess, Next
<1>3. CASE \E t \in DataType, s \in Slot : PublishEKey(t, s)
  BY <1>3 DEF PublishEKey, Next
<1>4. CASE Measure
  BY <1>4 DEF Measure, DeliverEKey, ThermometerNext, InterestEnds, HomeTypeOK
<1>5. CASE PassHour
  BY <1>5 DEF PassHour, ThermometerNext, Next
<1>6. CASE UNCHANGED homeVars
  BY <1>6 DEF homeVars
<1> QED
  BY <1>1, <1>2, <1>3, <1>4, <1>5, <1>6 DEF HomeNext

-----------------------------------------------------------------------------
(***************************************************************************)
(* The invariant                                                           *)
(***************************************************************************)

LEMMA HomeInitially == HomeInit => HomeInv
BY HomeAssumption
DEF HomeInit, ThermometerInit, HomeInv, HomeTypeOK, PublishedIsInForce, UsedIsPublished

LEMMA ManageKeeps ==
  ASSUME HomeInv, TypeOK, Manage
  PROVE  HomeInv'
<1>1. \A t \in DataType : group[t] # 0 => group'[t] = group[t]
  BY DEF Manage, AddIdentity, RemoveIdentity, Grant, GrantDefault, GetDKey, CreateGroup,
         TypeOK, db
<1>2. UNCHANGED <<published, old, ekey, wrapped>>
  BY DEF Manage, thermometer, producer, network
<1> QED
  BY <1>1, <1>2 DEF HomeInv, HomeTypeOK, PublishedIsInForce, UsedIsPublished, Key

LEMMA RevokeKeeps ==
  ASSUME HomeInv, TypeOK, NEW e \in Entity, NEW t \in DataType, RevokeAccess(e, t)
  PROVE  HomeInv'
<1>1. /\ group' = [group EXCEPT ![t] = 0] /\ UNCHANGED <<published, ekey, wrapped>>
      /\ old' = old \cup {k \in published : k.type = t}
  BY DEF RevokeAccess, Revoke, thermometer, producer
<1> QED
  BY <1>1 DEF HomeInv, HomeTypeOK, PublishedIsInForce, UsedIsPublished, TypeOK, Key

LEMMA PublishKeeps ==
  ASSUME HomeInv, TypeOK, NEW t \in DataType, NEW s \in Slot, PublishEKey(t, s)
  PROVE  HomeInv'
<1>1. /\ UNCHANGED <<group, old, ekey, wrapped>>
      /\ published' = published \cup {k \in {CurrentKey(t, s)} : HasKey(t, s)}
  BY DEF PublishEKey, GetEKey, db, thermometer, producer
<1>2. HasKey(t, s) => /\ CurrentKey(t, s) \in Key
                      /\ CurrentKey(t, s).type = t /\ group[t] # 0
                      /\ CurrentKey(t, s).group = group[t]
  BY DEF HasKey, CurrentKey, Key, TypeOK
<1> HIDE DEF CurrentKey, HasKey
<1> QED
  BY <1>1, <1>2 DEF HomeInv, HomeTypeOK, PublishedIsInForce, UsedIsPublished

LEMMA MeasureKeeps ==
  ASSUME HomeInv, ThermometerTypeOK, Measure
  PROVE  HomeInv'
<1>1. UNCHANGED <<group, published, old>>
  BY DEF Measure, vars, db, network
<1>2. UsedIsPublished'
  <2>1. CASE \E h \in Hour, p \in Prefix : DeliverEKey(h, p)
    <3>1. PICK h \in Hour, p \in Prefix : DeliverEKey(h, p)
      BY <2>1
    <3>2. PICK k \in published : /\ wrapped' = [wrapped EXCEPT ![h] = @ \cup {k}]
                                 /\ ekey' = [ekey EXCEPT ![p] = k]
      BY <3>1 DEF DeliverEKey, EKeyComes
    <3> QED
      BY <1>1, <3>2 DEF HomeInv, UsedIsPublished, ThermometerTypeOK
  <2>2. CASE \E h \in Hour, by \in Request \cup {Nobody} : CreateContentKey(h, by)
    <3>1. PICK h \in Hour, by \in Request \cup {Nobody} : CreateContentKey(h, by)
      BY <2>2
    <3>2. \A p \in AtHand(h) : ekey[p] \in published
      BY DEF AtHand, HomeInv, UsedIsPublished
    <3>3. wrapped' = [wrapped EXCEPT ![h] = {ekey[p] : p \in AtHand(h)}] /\ ekey' = ekey
      BY <3>1 DEF CreateContentKey
    <3> HIDE DEF AtHand
    <3> QED
      BY <1>1, <3>2, <3>3 DEF HomeInv, UsedIsPublished, ThermometerTypeOK
  <2>3. CASE UNCHANGED <<ekey, wrapped>>
    BY <1>1, <2>3 DEF HomeInv, UsedIsPublished
  <2>4. \A t \in Hour : TimeSlot(t) \in Hour
    BY DEF TimeSlot, ThermometerTypeOK
  <2> QED
    BY <2>1, <2>2, <2>3, <2>4
    DEF Measure, GetTemperature, GetContentKey, EKeyRefused, EKeyUnusable, producer
<1> QED
  BY <1>1, <1>2 DEF HomeInv, HomeTypeOK, PublishedIsInForce

LEMMA HomeInvStep ==
  HomeInv /\ TypeOK /\ ThermometerTypeOK /\ [HomeNext]_homeVars => HomeInv'
<1> SUFFICES ASSUME HomeInv, TypeOK, ThermometerTypeOK, [HomeNext]_homeVars PROVE HomeInv'
  OBVIOUS
<1>1. CASE PassHour
  <2>1. UNCHANGED <<group, published, old, ekey, wrapped>>
    BY <1>1 DEF PassHour, HourPasses, Tick, vars, db, producer, network
  <2> QED
    BY <2>1 DEF HomeInv, HomeTypeOK, PublishedIsInForce, UsedIsPublished
<1>2. CASE UNCHANGED homeVars
  <2>1. UNCHANGED <<group, published, old, ekey, wrapped>>
    BY <1>2 DEF homeVars, vars, db, thermometer, producer, network
  <2> QED
    BY <2>1 DEF HomeInv, HomeTypeOK, PublishedIsInForce, UsedIsPublished
<1> QED
  BY <1>1, <1>2, ManageKeeps, RevokeKeeps, PublishKeeps, MeasureKeeps DEF HomeNext

\* In the home, the manager and the thermometer do what they are specified to
\* do alone, so that every theorem about them holds.
THEOREM HomeRefines == HomeSpec => Spec /\ ThermometerSpec /\ []HomeInv
<1>1. HomeInit => Init /\ ThermometerInit /\ TypeOK /\ ThermometerTypeOK /\ HomeInv
  BY HomeInitially, Initially, InitInv DEF HomeInit, KeysInv, IInv
<1>2. HomeInv => HomeTypeOK
  BY DEF HomeInv
<1>3. IInv /\ [Next]_vars => IInv'
  BY NextInv
<1>4. HomeInit => IInv /\ KeysInv /\ HomeInv
  BY InitInv, Initially, HomeInitially DEF HomeInit
<1>5. IInv => TypeOK
  BY DEF IInv
<1>6. KeysInv => ThermometerTypeOK
  BY DEF KeysInv
<1> QED
  BY <1>1, <1>2, <1>3, <1>4, <1>5, <1>6, HomeStep, HomeInvStep, KeysStep, PTL
  DEF HomeSpec, Spec, ThermometerSpec

\* The type invariant of what is given out.
THEOREM HomeTypes == HomeSpec => []HomeTypeOK
<1>1. HomeInv => HomeTypeOK
  BY DEF HomeInv
<1> QED
  BY <1>1, HomeRefines, PTL

\* What is encrypted for an hour was given out.
LEMMA CopiesArePublished ==
  ASSUME HomeInv, KeysInv, NEW d \in ckeys
  PROVE  d[2] \in published /\ d[2] \in Key
BY HomeAssumption DEF KeysInv, ThermometerTypeOK, KeptAreCopies, HomeInv, UsedIsPublished

\* A revoked consumer decrypts nothing that is encrypted with an E-KEY given out
\* after the revocation (revokeAccess, getEKey, createContentKey).
THEOREM NoNewData == HomeSpec => []RevokedReadNoNewData
<1>1. HomeInv /\ KeysInv /\ RevokedCannotRead => RevokedReadNoNewData
  <2> SUFFICES ASSUME HomeInv, KeysInv, RevokedCannotRead, NEW c \in Cert, NEW d \in ckeys,
                      <<c, d[2]>> \in held, d[2] \notin old
               PROVE  IsMember(d[2].type, c)
    BY DEF RevokedReadNoNewData
  <2>1. d[2] \in published \ old /\ d[2] \in Key
    BY CopiesArePublished
  <2>2. d[2].type \in DataType /\ group[d[2].type] # 0 /\ d[2].group = group[d[2].type]
    BY <2>1 DEF HomeInv, PublishedIsInForce, Key
  <2> QED
    BY <2>1, <2>2 DEF RevokedCannotRead
<1> QED
  BY <1>1, HomeRefines, KeysAreKept, Revocation, PTL

\* Until there is a revocation, the E-KEY of every content key is of the group in
\* force (grantAccess, createGroup).
THEOREM GrantsKeep == HomeSpec => []GrantsKeepData
<1>1. HomeInv /\ KeysInv => GrantsKeepData
  BY CopiesArePublished DEF GrantsKeepData, HomeInv, PublishedIsInForce
<1> QED
  BY <1>1, HomeRefines, KeysAreKept, PTL

\* An E-KEY given out since the last revocation is of the group in force, and
\* whom a schedule covers has then a key to be given.
LEMMA CopiesAreInForce ==
  ASSUME HomeInv, KeysInv, TypeOK, NEW d \in ckeys, d[2] \notin old,
         NEW c \in Readers(d[2].type, d[2].slot)
  PROVE  /\ d[2].type \in DataType /\ d[2].slot \in Slot
         /\ HasKey(d[2].type, d[2].slot)
         /\ d[2] = CurrentKey(d[2].type, d[2].slot)
<1>1. d[2] \in published \ old /\ d[2] \in Key
  BY CopiesArePublished
<1>2. group[d[2].type] # 0 /\ d[2].group = group[d[2].type]
  BY <1>1 DEF HomeInv, PublishedIsInForce
<1>3. d[2].type \in DataType /\ d[2].slot \in Slot
  BY <1>1 DEF Key
<1>4. member[d[2].type][c] \in Schedule /\ d[2].slot \in window[d[2].type][member[d[2].type][c]]
  BY <1>3 DEF Readers, IsMember, TypeOK
<1>5. d[2] = CurrentKey(d[2].type, d[2].slot)
  BY <1>1, <1>2 DEF Key, CurrentKey
<1> QED
  BY <1>2, <1>3, <1>4, <1>5 DEF HasKey

\* Whom a schedule covers gets, by its identity, the D-KEY to everything that is
\* encrypted under the grant (getDKey, onKeyEncrypted): the E-KEYs in force are
\* those of the D-KEYs the manager makes.
THEOREM ReadersGet == HomeSpec => ReadersGetTheData
<1> DEFINE Reads ==
      reply'.what \in {"D-KEY", "none"} =>
        \A d \in ckeys, c \in Readers(reply'.type, reply'.slot) :
          /\ d[2].type = reply'.type /\ d[2].slot = reply'.slot /\ d[2] \notin old
          /\ Identity(reply'.for, c)
          => <<c, d[2]>> \in held'
<1>1. ASSUME HomeInv, KeysInv, TypeOK, Next PROVE Reads
  <2> SUFFICES ASSUME reply'.what \in {"D-KEY", "none"},
                      NEW d \in ckeys, NEW c \in Readers(reply'.type, reply'.slot),
                      d[2].type = reply'.type, d[2].slot = reply'.slot, d[2] \notin old,
                      Identity(reply'.for, c)
               PROVE  <<c, d[2]>> \in held'
    OBVIOUS
  <2>1. PICK e \in Entity, t \in DataType, s \in Slot : GetDKey(e, t, s)
    BY <1>1, OnlyGetDKeyAnswers
  <2>2. reply'.for = e /\ reply'.type = t /\ reply'.slot = s
    BY <2>1, AnswerNamesRequest
  <2>3. HasKey(t, s) /\ d[2] = CurrentKey(t, s)
    BY <1>1, <2>2, CopiesAreInForce
  <2> QED
    BY <1>1, <2>1, <2>2, <2>3, IdentityIsAnswered
<1>2. HomeInv /\ KeysInv /\ TypeOK /\ [Next]_vars => [Reads]_vars
  BY <1>1
<1> QED
  BY <1>2, HomeRefines, KeysAreKept, TypeCorrect, PTL DEF Spec, ReadersGetTheData

\* The manager of the home implements AccessEpochs, whatever the thermometer
\* does with its E-KEYs.
THEOREM HomeEpochs == HomeSpec => ImplementsEpochs
BY HomeRefines, Refinement, PTL

\* The thermometer of the home implements HourKeys, with the E-KEYs of the
\* manager.
THEOREM HomeHours == HomeSpec => ImplementsHourKeys
BY HomeRefines, KeysRefine, PTL

-----------------------------------------------------------------------------
(***************************************************************************)
(* The home behind the service                                             *)
(***************************************************************************)

\* Each request is a step of HomeAccess, or none, and each step of the home one
\* of the service, or none.
LEMMA ServedStep ==
  [ServedHomeNext]_servedHomeVars => [HomeNext]_homeVars /\ [ServiceNext]_serviceVars
<1> SUFFICES ASSUME [ServedHomeNext]_servedHomeVars
             PROVE  [HomeNext]_homeVars /\ [ServiceNext]_serviceVars
  OBVIOUS
<1>1. CASE Serve
  <2>1. ServiceNext
    BY <1>1 DEF Serve, ServiceNext
  <2>2. UNCHANGED <<thermometer, network>>
    BY <1>1 DEF Serve
  <2>3. CASE \E e \in Entity, c \in Cert : CertificateComes(e, c)
    <3>1. \E c \in Cert : c \in Entity /\ AddIdentity(c, c)
      BY <2>3, ManagerAssumption DEF CertificateComes
    <3> QED
      BY <2>1, <2>2, <3>1 DEF HomeNext, Manage
  <2>4. CASE \E e \in Entity, t \in DataType : ServeGrant(e, t)
    <3>1. \E e \in Entity, t \in DataType, ni \in NamedInterval : Grant(e, t, ni)
      BY <2>4, ServedInterval DEF ServeGrant
    <3> QED
      BY <2>1, <2>2, <3>1 DEF HomeNext, Manage
  <2>5. CASE \/ \E e \in Entity : ServeRemove(e)
             \/ \E e \in Entity, t \in DataType, s \in Slot : ServeDKey(e, t, s)
    BY <2>1, <2>2, <2>5 DEF HomeNext, Manage, ServeRemove, ServeDKey
  <2>6. CASE UNCHANGED vars
    BY <2>1, <2>2, <2>6 DEF homeVars
  <2> QED
    BY <1>1, <2>3, <2>4, <2>5, <2>6
    DEF Serve, ServeAdd, AddNacked, NoCertificateComes, ServeIdentity, ServeUnreadable
<1>2. CASE \E e \in Entity, t \in DataType : ServeRevocation(e, t)
  BY <1>2 DEF ServeRevocation, HomeNext, ServiceNext
<1>3. CASE \E t \in DataType, s \in Slot : GiveEKey(t, s)
  BY <1>3 DEF GiveEKey, HomeNext, ServiceNext
<1>4. CASE Elsewhere
  <2>1. HomeNext
    BY <1>4 DEF Elsewhere, HomeNext
  <2>2. UNCHANGED vars \/ Tick
    BY <1>4 DEF Elsewhere, Measure, PassHour
  <2> QED
    BY <1>4, <2>1, <2>2 DEF Elsewhere, service, serviceVars, ServiceNext, TimePasses
<1>5. CASE UNCHANGED servedHomeVars
  BY <1>5 DEF servedHomeVars, homeVars, service, serviceVars
<1> QED
  BY <1>1, <1>2, <1>3, <1>4, <1>5 DEF ServedHomeNext

\* The home behind the service does what the home and the service are specified
\* to do, so that every theorem about them, and about their parts, holds.
THEOREM ServedHomeRefines == ServedHomeSpec => HomeSpec /\ ServiceSpec
<1>1. ServedHomeInit => HomeInit /\ ServiceInit
  BY DEF ServedHomeInit
<1> QED
  BY <1>1, ServedStep, PTL DEF ServedHomeSpec, HomeSpec, ServiceSpec

-----------------------------------------------------------------------------
(***************************************************************************)
(* The spans between revocations                                           *)
(***************************************************************************)

\* What ties grants to the E-KEYs given out: the log says of the group in force
\* that nothing was revoked since, of its members that they were granted since
\* (LogInv), and every key that is held or cached is of a span in which its
\* holder was granted, even when the group is long gone.
GrantedInSpan(c, t, m) == \E n \in 1..Len(log) : GrantedAt(c, t, n) /\ SameSpan(t, n, m)

GivenIsKnown == \A g \in given : g[1].group <= groups
GivenInForce ==
  \A g \in given : g[1].group = group[g[1].type] => ~RevokedAfter(g[1].type, g[2])

KeyOfSpan(c, k) ==
  \A g \in given :
    g[1].type = k.type /\ g[1].group = k.group => GrantedInSpan(c, k.type, g[2])
KeysOfSpans ==
  /\ \A c \in Cert : dkeyCache[c] # NoKey => KeyOfSpan(c, dkeyCache[c])
  /\ \A h \in held : KeyOfSpan(h[1], h[2])

SpanInv == ServedHomeTypeOK /\ GivenIsKnown /\ GivenInForce /\ KeysOfSpans

\* A request that is acknowledged later changes no span before it.
LEMMA SpansStay ==
  ASSUME log \in Seq(Event), NEW event \in Event, log' = Append(log, event),
         NEW c \in Cert, NEW t \in DataType, NEW m \in 0..Len(log), GrantedInSpan(c, t, m)
  PROVE  GrantedInSpan(c, t, m)'
<1>1. PICK n \in 1..Len(log) : GrantedAt(c, t, n) /\ SameSpan(t, n, m)
  BY DEF GrantedInSpan
<1>2. n \in 1..Len(log') /\ GrantedAt(c, t, n)'
  BY <1>1, LogKeepsGrants
<1>3. /\ Len(log) \in Nat /\ Len(log') = Len(log) + 1
      /\ \A i \in 1..Len(log) : log'[i] = log[i]
  BY Logging
<1>4. SameSpan(t, n, m)'
  BY <1>1, <1>3 DEF SameSpan
<1> QED
  BY <1>2, <1>4 DEF GrantedInSpan

LEMMA UnrevokedStays ==
  ASSUME log \in Seq(Event), NEW event \in Event, log' = Append(log, event),
         NEW t, NEW m \in 0..Len(log), ~RevokedAfter(t, m),
         ~(event.op = "revoke" /\ event.type = t)
  PROVE  ~RevokedAfter(t, m)'
<1>1. /\ Len(log) \in Nat /\ Len(log') = Len(log) + 1
      /\ log'[Len(log) + 1] = event
      /\ \A i \in 1..Len(log) : log'[i] = log[i]
  BY Logging
<1> QED
  BY <1>1 DEF RevokedAfter

\* Whoever was granted since the last revocation was granted in the span of
\* whatever was given out since.
LEMMA SinceIsInSpan ==
  ASSUME log \in Seq(Event), NEW c \in Cert, NEW t \in DataType, EarnedSince(c, t),
         NEW m \in 0..Len(log), ~RevokedAfter(t, m)
  PROVE  GrantedInSpan(c, t, m)
<1>1. PICK n \in 1..Len(log) : GrantedAt(c, t, n) /\ ~RevokedAfter(t, n)
  BY DEF EarnedSince
<1>2. Len(log) \in Nat
  BY Logging
<1>3. SameSpan(t, n, m)
  BY <1>1, <1>2 DEF SameSpan, RevokedAfter
<1> QED
  BY <1>1, <1>3 DEF GrantedInSpan

\* A key of the group in force is of a span of its members.
LEMMA MembersKey ==
  ASSUME ServiceTypeOK, SpanInv, MembersAreEarned, NEW c \in Cert, NEW k \in Key,
         k.group = group[k.type], IsMember(k.type, c)
  PROVE  KeyOfSpan(c, k)
<1> SUFFICES ASSUME NEW g \in given, g[1].type = k.type, g[1].group = k.group
             PROVE  GrantedInSpan(c, k.type, g[2])
  BY DEF KeyOfSpan
<1>1. log \in Seq(Event) /\ k.type \in DataType /\ g[2] \in 0..Len(log)
  BY DEF ServiceTypeOK, SpanInv, ServedHomeTypeOK, Key
<1>2. EarnedSince(c, k.type)
  BY <1>1 DEF MembersAreEarned
<1>3. ~RevokedAfter(k.type, g[2])
  BY DEF SpanInv, GivenInForce
<1> QED
  BY <1>1, <1>2, <1>3, SinceIsInSpan

LEMMA SpanTypes ==
  ASSUME IInv, ServiceTypeOK, SpanInv
  PROVE  /\ log \in Seq(Event) /\ Len(log) \in Nat
         /\ \A g \in given : g[1] \in Key /\ g[2] \in 0..Len(log)
         /\ \A g \in given : /\ g[1].type \in DataType /\ g[1].group \in 1..MaxGroups
                             /\ g[1].group <= groups
         /\ \A c \in Cert : dkeyCache[c] # NoKey => dkeyCache[c] \in Key
         /\ \A h \in held : h[1] \in Cert /\ h[2] \in Key
BY DEF IInv, TypeOK, ServiceTypeOK, SpanInv, ServedHomeTypeOK, GivenIsKnown, Key

\* A request that changes no key keeps the spans, if groups are made afresh and
\* end with the revocations of their types.
LEMMA RequestKeepsSpans ==
  ASSUME IInv, ServiceTypeOK, SpanInv, NEW event \in Event, log' = Append(log, event),
         UNCHANGED <<dkeyCache, held, given, published>>,
         groups' \in Nat, groups <= groups',
         \A u \in DataType : \/ group'[u] = groups + 1
                             \/ group'[u] = 0
                             \/ group'[u] = group[u],
         event.op = "revoke" => group'[event.type] = 0
  PROVE  SpanInv'
<1>1. /\ log \in Seq(Event) /\ Len(log) \in Nat /\ Len(log') = Len(log) + 1
      /\ groups \in Nat /\ MaxGroups \in Nat
  BY SpanTypes, Logging, ManagerAssumption DEF IInv, TypeOK
<1>2. ServedHomeTypeOK'
  BY <1>1 DEF SpanInv, ServedHomeTypeOK
<1>3. GivenIsKnown'
  <2> SUFFICES ASSUME NEW g \in given PROVE g[1].group <= groups'
    BY DEF GivenIsKnown
  <2>1. g[1].group \in Nat /\ g[1].group <= groups
    BY <1>1, SpanTypes
  <2> QED
    BY <1>1, <2>1
<1>4. GivenInForce'
  <2> SUFFICES ASSUME NEW g \in given, g[1].group = group'[g[1].type]
               PROVE  ~RevokedAfter(g[1].type, g[2])'
    BY DEF GivenInForce
  <2>1. /\ g[1].type \in DataType /\ g[2] \in 0..Len(log)
        /\ g[1].group \in Nat /\ g[1].group # 0 /\ g[1].group <= groups
    BY <1>1, SpanTypes
  <2>2. g[1].group = group[g[1].type] /\ ~(event.op = "revoke" /\ event.type = g[1].type)
    BY <1>1, <2>1
  <2> QED
    BY <1>1, <2>1, <2>2, UnrevokedStays DEF SpanInv, GivenInForce
<1>5. ASSUME NEW c \in Cert, NEW k \in Key, KeyOfSpan(c, k) PROVE KeyOfSpan(c, k)'
  <2> SUFFICES ASSUME NEW g \in given, g[1].type = k.type, g[1].group = k.group
               PROVE  GrantedInSpan(c, k.type, g[2])'
    BY DEF KeyOfSpan
  <2>1. k.type \in DataType /\ g[2] \in 0..Len(log)
    BY SpanTypes
  <2> QED
    BY <1>1, <1>5, <2>1, SpansStay DEF KeyOfSpan
<1>6. KeysOfSpans'
  BY <1>5, SpanTypes DEF SpanInv, KeysOfSpans
<1> QED
  BY <1>2, <1>3, <1>4, <1>6 DEF SpanInv

\* A step that acknowledges nothing changes nothing that is said of spans.
LEMMA SameLogSameSpans ==
  ASSUME UNCHANGED log
  PROVE  /\ \A c, t, m : GrantedInSpan(c, t, m)' <=> GrantedInSpan(c, t, m)
         /\ \A t, m : RevokedAfter(t, m)' <=> RevokedAfter(t, m)
BY DEF GrantedInSpan, GrantedAt, RegisteredBefore, SameSpan, RevokedAfter

\* The cache that a refresh leaves is of spans of its certificates.
LEMMA RefreshKeepsSpans ==
  ASSUME IInv, ServiceTypeOK, SpanInv, MembersAreEarned,
         NEW t \in DataType, NEW s \in Slot, NEW c \in Cert, Refreshed(t, s)[c] # NoKey
  PROVE  Refreshed(t, s)[c] \in Key /\ KeyOfSpan(c, Refreshed(t, s)[c])
<1>1. CASE HasKey(t, s) /\ c \in Readers(t, s)
  <2>1. Refreshed(t, s)[c] = CurrentKey(t, s)
    BY <1>1 DEF Refreshed
  <2>2. CurrentKey(t, s) \in Key
    BY <1>1, CurrentKeyType DEF IInv
  <2>3. CurrentKey(t, s).type = t /\ CurrentKey(t, s).group = group[t]
    BY DEF CurrentKey
  <2>4. IsMember(t, c)
    BY <1>1 DEF Readers
  <2> QED
    BY <2>1, <2>2, <2>3, <2>4, MembersKey
<1>2. CASE ~(HasKey(t, s) /\ c \in Readers(t, s))
  <2>1. Refreshed(t, s)[c] = dkeyCache[c]
    BY <1>2 DEF Refreshed
  <2> QED
    BY <2>1, SpanTypes DEF SpanInv, KeysOfSpans
<1> QED
  BY <1>1, <1>2

\* A D-KEY is handed out from the cache, refreshed or not.
LEMMA DKeyKeepsSpans ==
  ASSUME IInv, ServiceTypeOK, SpanInv, MembersAreEarned, UNCHANGED <<log, given, published>>,
         NEW e \in Entity, NEW t \in DataType, NEW s \in Slot, GetDKey(e, t, s)
  PROVE  SpanInv'
<1> DEFINE Good(cache) == \A c \in Cert : cache[c] # NoKey => KeyOfSpan(c, cache[c])
<1>1. UNCHANGED <<group, groups>>
  BY DEF GetDKey, db
<1>2. Good(dkeyCache) /\ \A h \in held : KeyOfSpan(h[1], h[2])
  BY DEF SpanInv, KeysOfSpans
<1>3. Good(Refreshed(t, s))
  BY RefreshKeepsSpans
<1>4. ASSUME NEW cache, Good(cache), Answer(e, t, s, cache)
      PROVE  \A h \in held' : KeyOfSpan(h[1], h[2])
  <2>1. CASE UNCHANGED held
    BY <1>2, <2>1
  <2>2. CASE \E c \in Cert : Found(cache, e, c) /\ held' = held \cup {<<c, cache[c]>>}
    BY <1>2, <1>4, <2>2 DEF Found, Cached
  <2> QED
    BY <1>4, <2>1, <2>2 DEF Answer
<1>5. Good(dkeyCache') /\ \A h \in held' : KeyOfSpan(h[1], h[2])
  <2>1. CASE UNCHANGED dkeyCache /\ Answer(e, t, s, dkeyCache)
    BY <1>2, <1>4, <2>1
  <2>2. CASE dkeyCache' = Refreshed(t, s) /\ Answer(e, t, s, Refreshed(t, s))
    BY <1>3, <1>4, <2>2
  <2>3. CASE UNCHANGED <<dkeyCache, held>>
    BY <1>2, <2>3
  <2> QED
    BY <2>1, <2>2, <2>3 DEF GetDKey
<1>6. \A c, k : KeyOfSpan(c, k) => KeyOfSpan(c, k)'
  BY SameLogSameSpans DEF KeyOfSpan
<1>7. KeysOfSpans'
  BY <1>5, <1>6 DEF KeysOfSpans
<1> QED
  BY <1>1, <1>7, SameLogSameSpans
  DEF SpanInv, ServedHomeTypeOK, GivenIsKnown, GivenInForce

\* What is given out is of the group in force: whoever has its keys, refreshed
\* ones too, is a member, and nothing was revoked since.
LEMMA EKeyKeepsSpans ==
  ASSUME IInv, ServiceTypeOK, SpanInv, MembersAreEarned, UNCHANGED log,
         NEW t \in DataType, NEW s \in Slot, GetEKey(t, s), PublishEKey(t, s),
         given' = given \cup {g \in {<<CurrentKey(t, s), Len(log)>>} : HasKey(t, s)}
  PROVE  SpanInv'
<1>1. UNCHANGED <<group, groups, held, member>> /\ dkeyCache' = Refreshed(t, s)
  BY DEF GetEKey, db
<1>2. HasKey(t, s) => /\ CurrentKey(t, s) \in Key
                      /\ CurrentKey(t, s).type = t /\ CurrentKey(t, s).group = group[t]
  BY CurrentKeyType DEF IInv, CurrentKey
<1>3. /\ log \in Seq(Event) /\ Len(log) \in Nat
      /\ \A g \in given : g[1] \in Key /\ g[2] \in 0..Len(log)
  BY SpanTypes
<1>4. \A u : ~RevokedAfter(u, Len(log))
  BY <1>3 DEF RevokedAfter
<1>5. ASSUME NEW c \in Cert, NEW k \in Key, KeyOfSpan(c, k),
             ReadableOnlyIfMember(c, k)
      PROVE  KeyOfSpan(c, k)'
  <2> SUFFICES ASSUME NEW g \in given', g[1].type = k.type, g[1].group = k.group
               PROVE  GrantedInSpan(c, k.type, g[2])
    BY SameLogSameSpans DEF KeyOfSpan
  <2>1. CASE g \in given
    BY <1>5, <2>1 DEF KeyOfSpan
  <2>2. CASE g = <<CurrentKey(t, s), Len(log)>> /\ HasKey(t, s)
    <3>1. k.type = t /\ k.group = group[t]
      BY <1>2, <2>2
    <3>2. EarnedSince(c, t)
      BY <1>5, <3>1 DEF ReadableOnlyIfMember, MembersAreEarned
    <3> QED
      BY <1>3, <1>4, <2>2, <3>1, <3>2, SinceIsInSpan
  <2> QED
    BY <2>1, <2>2
<1>6. KeysOfSpans'
  <2>1. ASSUME NEW c \in Cert, dkeyCache'[c] # NoKey PROVE KeyOfSpan(c, dkeyCache[c])'
    BY <1>1, <1>5, <2>1, RefreshKeepsSpans, RefreshKeepsCache
  <2>2. ASSUME NEW h \in held' PROVE KeyOfSpan(h[1], h[2])'
    <3>1. h \in held /\ h[1] \in Cert /\ h[2] \in Key
      BY <1>1, <2>2, SpanTypes
    <3> QED
      BY <1>5, <3>1 DEF SpanInv, KeysOfSpans, IInv, LiveKeysAreOfMembers
  <2> QED
    BY <2>1, <2>2 DEF KeysOfSpans
<1>7. ServedHomeTypeOK'
  <2>1. published' = published \cup {k \in {CurrentKey(t, s)} : HasKey(t, s)}
    BY DEF PublishEKey
  <2> HIDE DEF CurrentKey, HasKey
  <2>2. given' \subseteq Key \X (0..Len(log))
    BY <1>2, <1>3 DEF SpanInv, ServedHomeTypeOK
  <2>3. published' = {g[1] : g \in given'}
    <3>1. CASE HasKey(t, s)
      <4>1. PICK g : g = <<CurrentKey(t, s), Len(log)>>
        OBVIOUS
      <4>2. published' = published \cup {g[1]} /\ given' = given \cup {g}
        BY <2>1, <3>1, <4>1
      <4> QED
        BY <4>2 DEF SpanInv, ServedHomeTypeOK
    <3>2. CASE ~HasKey(t, s)
      <4>1. published' = published /\ given' = given
        BY <2>1, <3>2
      <4> QED
        BY <4>1 DEF SpanInv, ServedHomeTypeOK
    <3> QED
      BY <3>1, <3>2
  <2> QED
    BY <2>2, <2>3 DEF ServedHomeTypeOK
<1>8. GivenIsKnown'
  BY <1>1, <1>2 DEF SpanInv, GivenIsKnown, IInv, GroupsAreCounted
<1>9. GivenInForce'
  BY <1>1, <1>2, <1>4, SameLogSameSpans DEF SpanInv, GivenInForce
<1> QED
  BY <1>6, <1>7, <1>8, <1>9 DEF SpanInv

LEMMA SpanInitially == ServedHomeInit => SpanInv
<1> SUFFICES ASSUME ServedHomeInit PROVE SpanInv
  OBVIOUS
<1>1. given = {} /\ published = {} /\ held = {} /\ \A c \in Cert : dkeyCache[c] = NoKey
  BY DEF ServedHomeInit, HomeInit, Init
<1> QED
  BY <1>1
  DEF SpanInv, ServedHomeTypeOK, GivenIsKnown, GivenInForce, KeysOfSpans

\* A request that grants makes no group but a new one.
LEMMA GrantKeepsSpans ==
  ASSUME IInv, ServiceTypeOK, SpanInv, UNCHANGED <<given, published>>,
         NEW e \in Entity, NEW t \in DataType, ServeGrant(e, t)
  PROVE  SpanInv'
<1> DEFINE event == [op |-> "grant", name |-> e, type |-> t]
<1>1. event \in Event /\ log' = Append(log, event) /\ event.op # "revoke"
  BY DEF ServeGrant, Logged, Event
<1>2. UNCHANGED <<dkeyCache, held>> /\ CreateGroup(t)
  BY DEF ServeGrant, Grant
<1>3. groups \in Nat /\ group \in [DataType -> 0..MaxGroups]
  BY ManagerAssumption DEF IInv, TypeOK
<1>4. /\ groups' \in Nat /\ groups <= groups'
      /\ \A u \in DataType : group'[u] = groups + 1 \/ group'[u] = group[u]
  BY <1>2, <1>3 DEF CreateGroup
<1> HIDE DEF event
<1> QED
  BY <1>1, <1>2, <1>4, RequestKeepsSpans

\* A revocation ends the group of its type.
LEMMA RevocationKeepsSpans ==
  ASSUME IInv, ServiceTypeOK, SpanInv,
         NEW e \in Entity, NEW t \in DataType, ServeRevocation(e, t)
  PROVE  SpanInv'
<1> DEFINE event == [op |-> "revoke", name |-> e, type |-> t]
<1>1. event \in Event /\ log' = Append(log, event) /\ event.type = t
  BY DEF ServeRevocation, ServeRevoke, Logged, Event
<1>2. UNCHANGED <<dkeyCache, held, given, published>>
  BY DEF ServeRevocation, RevokeAccess, Revoke
<1>3. groups \in Nat /\ group \in [DataType -> 0..MaxGroups]
  BY ManagerAssumption DEF IInv, TypeOK
<1>4. /\ groups' \in Nat /\ groups <= groups'
      /\ group' = [group EXCEPT ![t] = 0]
  BY <1>3 DEF ServeRevocation, RevokeAccess, Revoke
<1>5. group'[t] = 0 /\ \A u \in DataType : group'[u] = 0 \/ group'[u] = group[u]
  BY <1>3, <1>4
<1> HIDE DEF event
<1> QED
  BY <1>1, <1>2, <1>4, <1>5, RequestKeepsSpans

\* A request about an identity is no revocation and changes no group.
LEMMA IdentityKeepsSpans ==
  ASSUME IInv, ServiceTypeOK, SpanInv, NEW event \in Event, log' = Append(log, event),
         event.op # "revoke",
         UNCHANGED <<group, groups, dkeyCache, held, given, published>>
  PROVE  SpanInv'
<1>1. groups \in Nat
  BY ManagerAssumption DEF IInv, TypeOK
<1> QED
  BY <1>1, RequestKeepsSpans

\* What acknowledges nothing and makes, caches and hands out nothing.
LEMMA ElsewhereKeepsSpans ==
  ASSUME SpanInv,
         UNCHANGED <<log, group, groups, dkeyCache, held, given, published>>
  PROVE  SpanInv'
<1>1. \A c, k : KeyOfSpan(c, k) => KeyOfSpan(c, k)'
  BY SameLogSameSpans DEF KeyOfSpan
<1>2. KeysOfSpans'
  BY <1>1 DEF SpanInv, KeysOfSpans
<1> QED
  BY <1>2, SameLogSameSpans
  DEF SpanInv, ServedHomeTypeOK, GivenIsKnown, GivenInForce

LEMMA ServeKeepsSpans ==
  ASSUME IInv, ServiceTypeOK, LogInv, SpanInv, Serve
  PROVE  SpanInv'
<1>0. MembersAreEarned /\ UNCHANGED <<given, published>>
  BY DEF LogInv, Serve, network
<1>1. ASSUME NEW e \in Entity, NEW c \in Cert, CertificateComes(e, c) PROVE SpanInv'
  <2> DEFINE event == [op |-> "add", asked |-> e, name |-> c]
  <2>1. event \in Event /\ log' = Append(log, event) /\ event.op # "revoke"
    BY <1>1 DEF CertificateComes, Logged, Event
  <2>2. UNCHANGED <<group, groups, dkeyCache, held>>
    BY <1>1 DEF CertificateComes, AddIdentity, db
  <2> HIDE DEF event
  <2> QED
    BY <1>0, <2>1, <2>2, IdentityKeepsSpans
<1>2. ASSUME NEW e \in Entity, ServeRemove(e) PROVE SpanInv'
  <2> DEFINE event == [op |-> "remove", name |-> e]
  <2>1. event \in Event /\ log' = Append(log, event) /\ event.op # "revoke"
    BY <1>2 DEF ServeRemove, Logged, Event
  <2>2. UNCHANGED <<group, groups, dkeyCache, held>>
    BY <1>2 DEF ServeRemove, RemoveIdentity, db
  <2> HIDE DEF event
  <2> QED
    BY <1>0, <2>1, <2>2, IdentityKeepsSpans
<1>3. ASSUME NEW e \in Entity, NEW t \in DataType, ServeGrant(e, t) PROVE SpanInv'
  BY <1>0, <1>3, GrantKeepsSpans
<1>4. ASSUME NEW e \in Entity, NEW t \in DataType, NEW s \in Slot, ServeDKey(e, t, s)
      PROVE  SpanInv'
  BY <1>0, <1>4, DKeyKeepsSpans DEF ServeDKey
<1>5. CASE UNCHANGED <<vars, log>>
  BY <1>0, <1>5, ElsewhereKeepsSpans DEF vars, db
<1> QED
  BY <1>1, <1>2, <1>3, <1>4, <1>5
  DEF Serve, ServeAdd, AddNacked, NoCertificateComes, ServeIdentity, ServeUnreadable

LEMMA SpanStep ==
  IInv /\ ServiceTypeOK /\ LogInv /\ SpanInv /\ [ServedHomeNext]_servedHomeVars => SpanInv'
<1> SUFFICES ASSUME IInv, ServiceTypeOK, LogInv, SpanInv, [ServedHomeNext]_servedHomeVars
             PROVE  SpanInv'
  OBVIOUS
<1>1. CASE Serve
  BY <1>1, ServeKeepsSpans
<1>2. CASE \E e \in Entity, t \in DataType : ServeRevocation(e, t)
  BY <1>2, RevocationKeepsSpans
<1>3. ASSUME NEW t \in DataType, NEW s \in Slot, GiveEKey(t, s) PROVE SpanInv'
  BY <1>3, EKeyKeepsSpans DEF GiveEKey, ServeEKey, LogInv
<1>4. CASE Elsewhere
  <2>1. UNCHANGED <<log, given>> /\ UNCHANGED network
    BY <1>4 DEF Elsewhere, service, Measure, PassHour
  <2>2. UNCHANGED <<group, groups, dkeyCache, held>>
    BY <1>4 DEF Elsewhere, Measure, PassHour, Tick, vars, db
  <2> QED
    BY <2>1, <2>2, ElsewhereKeepsSpans DEF network
<1>5. CASE UNCHANGED servedHomeVars
  BY <1>5, ElsewhereKeepsSpans DEF servedHomeVars, homeVars, vars, db, network, service
<1> QED
  BY <1>1, <1>2, <1>3, <1>4, <1>5 DEF ServedHomeNext

LEMMA SpansKept == ServedHomeSpec => []SpanInv
<1>1. ServedHomeSpec => [](IInv /\ ServiceTypeOK /\ LogInv)
  BY ServedHomeRefines, HomeRefines, GroupsKept, ServiceTypes, LogIsKept, PTL
<1> QED
  BY <1>1, SpanInitially, SpanStep, PTL DEF ServedHomeSpec

\* The type invariant of the E-KEYs given out and when.
THEOREM ServedHomeTypes == ServedHomeSpec => []ServedHomeTypeOK
<1>1. SpanInv => ServedHomeTypeOK
  BY DEF SpanInv
<1> QED
  BY <1>1, SpansKept, PTL

\* Who can decrypt a content key was granted its data type by a request that was
\* acknowledged in the span, between two revocations, in which the E-KEY was
\* given out (onGrant, onRevoke, onGetEKey, getDKey, createContentKey).
THEOREM ReadsGranted == ServedHomeSpec => []ReadIsGranted
<1>1. SpanInv => ReadIsGranted
  <2> SUFFICES ASSUME SpanInv, NEW c \in Cert, NEW d \in ckeys, NEW g \in given,
                      g[1] = d[2], <<c, d[2]>> \in held
               PROVE  \E n \in 1..Len(log) :
                        GrantedAt(c, d[2].type, n) /\ SameSpan(d[2].type, n, g[2])
    BY DEF ReadIsGranted
  <2>1. KeyOfSpan(c, d[2])
    BY DEF SpanInv, KeysOfSpans
  <2> QED
    BY <2>1 DEF KeyOfSpan, GrantedInSpan
<1> QED
  BY <1>1, SpansKept, PTL

=============================================================================
