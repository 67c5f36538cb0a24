--------------------------- MODULE ManagerProofs ----------------------------
(***************************************************************************)
(* Theorems about Manager, for every set of names, types, schedules and    *)
(* windows and every bound on slots and groups.                            *)
(***************************************************************************)
EXTENDS Manager, TLAPS

-----------------------------------------------------------------------------
(***************************************************************************)
(* Types                                                                   *)
(***************************************************************************)

\* The key of a live group is a key.
LEMMA CurrentKeyType ==
  ASSUME TypeOK, NEW t \in DataType, NEW s \in Slot, HasKey(t, s)
  PROVE  CurrentKey(t, s) \in Key
<1>1. group[t] \in 1..MaxGroups
  BY ManagerAssumption DEF TypeOK, HasKey
<1> QED
  BY <1>1 DEF CurrentKey, Key

\* Refreshing keeps the cache a map from certificates to keys.
LEMMA RefreshedType ==
  ASSUME TypeOK, NEW t \in DataType, NEW s \in Slot
  PROVE  Refreshed(t, s) \in [Cert -> Key \cup {NoKey}]
<1>1. CASE HasKey(t, s)
  BY <1>1, CurrentKeyType DEF Refreshed, TypeOK
<1>2. CASE ~HasKey(t, s)
  BY <1>2 DEF Refreshed, TypeOK
<1> QED
  BY <1>1, <1>2

\* Every answer is a D-KEY from the cache given, or none.
LEMMA AnswerType ==
  ASSUME TypeOK, NEW e \in Entity, NEW t \in DataType, NEW s \in Slot,
         NEW cache \in [Cert -> Key \cup {NoKey}], Answer(e, t, s, cache)
  PROVE  held' \subseteq Cert \X Key /\ reply' \in Reply
<1>1. CASE \E c \in Cert : /\ Found(cache, e, c)
                           /\ held' = held \cup {<<c, cache[c]>>}
                           /\ reply' = DKeyReply(e, t, s, c, cache[c])
  <2>1. PICK c \in Cert : /\ Found(cache, e, c)
                          /\ held' = held \cup {<<c, cache[c]>>}
                          /\ reply' = DKeyReply(e, t, s, c, cache[c])
    BY <1>1
  <2>2. cache[c] \in Key
    BY <2>1 DEF Found, Cached
  <2>3. held' \subseteq Cert \X Key
    BY <2>1, <2>2 DEF TypeOK
  <2>4. reply' \in Reply
    BY <2>1, <2>2 DEF Reply, DKeyReply
  <2> QED
    BY <2>3, <2>4
<1>2. CASE reply' = NoReply(e, t, s) /\ UNCHANGED held
  BY <1>2 DEF Reply, TypeOK
<1> QED
  BY <1>1, <1>2 DEF Answer

\* The default schedule and the groups of a grant have their types.
LEMMA GrantType ==
  ASSUME TypeOK, NEW e \in Entity, NEW t \in DataType,
         NEW ni \in [name : Schedule, window : SUBSET Slot], Grant(e, t, ni)
  PROVE  TypeOK'
<1>1. groups' \in 0..MaxGroups /\ group' \in [DataType -> 0..MaxGroups]
  BY ManagerAssumption DEF Grant, CreateGroup, TypeOK
<1>2. window' \in [DataType -> [Schedule -> SUBSET Slot]]
  BY DEF Grant, CreateSchedule, TypeOK
<1>3. member' \in [DataType -> [Cert -> Schedule \cup {NoSchedule}]]
  <2>1. CASE UNCHANGED member
    BY <2>1 DEF TypeOK
  <2>2. CASE /\ identities[e] # NoCert
             /\ member' = [member EXCEPT ![t][identities[e]] = ni.name]
    BY <2>2 DEF TypeOK
  <2>3. CASE UpdateMemberSchedule(t, e, ni.name)
    BY <2>3 DEF UpdateMemberSchedule, TypeOK
  <2> QED
    BY <2>1, <2>2, <2>3 DEF Grant, AddGroupMember
<1>4. reply' \in Reply
  BY DEF Grant, Reply
<1> QED
  BY <1>1, <1>2, <1>3, <1>4 DEF Grant, TypeOK

LEMMA DefaultScheduleType ==
  DefaultSchedule \in [name : Schedule, window : SUBSET Slot]
BY ManagerAssumption DEF DefaultSchedule

LEMMA InitType == Init => TypeOK
<1> SUFFICES ASSUME Init PROVE TypeOK
  OBVIOUS
<1>1. 0 \in Slot /\ 0 \in 0..MaxGroups
  BY ManagerAssumption DEF Slot
<1>2. reply \in Reply
  BY DEF Init, Reply
<1> QED
  BY <1>1, <1>2 DEF Init, TypeOK

LEMMA NextType == TypeOK /\ [Next]_vars => TypeOK'
<1> SUFFICES ASSUME TypeOK, [Next]_vars PROVE TypeOK'
  OBVIOUS
<1>0. Nothing \in Reply
  BY DEF Reply
<1>1. ASSUME NEW e \in Entity, NEW c \in Cert, AddIdentity(e, c) PROVE TypeOK'
  BY <1>0, <1>1 DEF AddIdentity, db, TypeOK
<1>2. ASSUME NEW e \in Entity, RemoveIdentity(e) PROVE TypeOK'
  BY <1>0, <1>2 DEF RemoveIdentity, db, TypeOK
<1>3. ASSUME NEW e \in Entity, NEW t \in DataType, NEW ni \in NamedInterval,
             Grant(e, t, ni)
      PROVE  TypeOK'
  <2>1. ni \in [name : Schedule, window : SUBSET Slot]
    BY ManagerAssumption DEF NamedInterval
  <2> QED
    BY <1>3, <2>1, GrantType
<1>4. ASSUME NEW e \in Entity, NEW t \in DataType, GrantDefault(e, t) PROVE TypeOK'
  BY <1>4, DefaultScheduleType, GrantType DEF GrantDefault
<1>5. ASSUME NEW e \in Entity, NEW t \in DataType, Revoke(e, t) PROVE TypeOK'
  <2>1. groups' \in 0..MaxGroups
    BY <1>5, ManagerAssumption DEF Revoke, TypeOK
  <2>2. group' \in [DataType -> 0..MaxGroups]
    BY <1>5, ManagerAssumption DEF Revoke, TypeOK
  <2> QED
    BY <1>0, <1>5, <2>1, <2>2 DEF Revoke, TypeOK
<1>6. ASSUME NEW t \in DataType, NEW s \in Slot, GetEKey(t, s) PROVE TypeOK'
  <2>1. dkeyCache' \in [Cert -> Key \cup {NoKey}]
    BY <1>6, RefreshedType DEF GetEKey
  <2>2. reply' \in Reply
    BY <1>0, <1>6, CurrentKeyType DEF GetEKey, Reply
  <2> QED
    BY <1>6, <2>1, <2>2 DEF GetEKey, db, TypeOK
<1>7. ASSUME NEW e \in Entity, NEW t \in DataType, NEW s \in Slot, GetDKey(e, t, s)
      PROVE  TypeOK'
  <2>1. dkeyCache \in [Cert -> Key \cup {NoKey}]
    BY DEF TypeOK
  <2>2. Refreshed(t, s) \in [Cert -> Key \cup {NoKey}]
    BY RefreshedType
  <2>3. NoReply(e, t, s) \in Reply
    BY DEF Reply
  <2>4. /\ dkeyCache' \in [Cert -> Key \cup {NoKey}]
        /\ held' \subseteq Cert \X Key
        /\ reply' \in Reply
    <3>1. CASE UNCHANGED dkeyCache /\ Answer(e, t, s, dkeyCache)
      BY <3>1, <2>1, AnswerType
    <3>2. CASE dkeyCache' = Refreshed(t, s) /\ Answer(e, t, s, Refreshed(t, s))
      BY <3>2, <2>2, AnswerType
    <3>3. CASE reply' = NoReply(e, t, s) /\ UNCHANGED <<dkeyCache, held>>
      BY <3>3, <2>3 DEF TypeOK
    <3> QED
      BY <1>7, <3>1, <3>2, <3>3 DEF GetDKey
  <2> QED
    BY <1>7, <2>4 DEF GetDKey, db, TypeOK
<1>8. CASE Tick
  BY <1>0, <1>8, ManagerAssumption DEF Tick, db, TypeOK, Slot
<1>9. CASE UNCHANGED vars
  BY <1>9 DEF vars, db, TypeOK
<1> QED
  BY <1>1, <1>2, <1>3, <1>4, <1>5, <1>6, <1>7, <1>8, <1>9 DEF Next

\* The state of the manager keeps its types (m_identities, m_groups,
\* m_dkey_cache and the groups' databases).
THEOREM TypeCorrect == Spec => []TypeOK
BY InitType, NextType, PTL DEF Spec

-----------------------------------------------------------------------------
(***************************************************************************)
(* Revocation                                                              *)
(***************************************************************************)

\* Group objects are numbered in the order they are made, and every key that
\* is cached or was handed out is of an object made so far.  Without this a
\* new object could be taken for one whose keys are still about.
GroupsAreCounted == \A t \in DataType : group[t] <= groups
KeysAreOfKnownGroups ==
  /\ \A c \in Cert : dkeyCache[c] # NoKey => dkeyCache[c].group <= groups
  /\ \A h \in held : h[2].group <= groups

\* What RevokedCannotRead says, of one certificate and one key.
ReadableOnlyIfMember(c, k) == k.group = group[k.type] => IsMember(k.type, c)
LiveKeysAreOfMembers ==
  /\ \A c \in Cert : dkeyCache[c] # NoKey => ReadableOnlyIfMember(c, dkeyCache[c])
  /\ \A h \in held : ReadableOnlyIfMember(h[1], h[2])

IInv == TypeOK /\ GroupsAreCounted /\ KeysAreOfKnownGroups /\ LiveKeysAreOfMembers

\* A D-KEY that a refresh puts in the cache is of a member of the live group.
LEMMA RefreshKeepsCache ==
  ASSUME IInv, NEW t \in DataType, NEW s \in Slot, NEW c \in Cert,
         Refreshed(t, s)[c] # NoKey
  PROVE  /\ Refreshed(t, s)[c].group <= groups
         /\ ReadableOnlyIfMember(c, Refreshed(t, s)[c])
<1>1. CASE HasKey(t, s) /\ c \in Readers(t, s)
  <2>1. Refreshed(t, s)[c] = CurrentKey(t, s)
    BY <1>1 DEF Refreshed
  <2>2. CurrentKey(t, s).group = group[t] /\ CurrentKey(t, s).type = t
    BY DEF CurrentKey
  <2>3. IsMember(t, c)
    BY <1>1 DEF Readers
  <2> QED
    BY <2>1, <2>2, <2>3 DEF IInv, GroupsAreCounted, ReadableOnlyIfMember
<1>2. CASE ~(HasKey(t, s) /\ c \in Readers(t, s))
  <2>1. Refreshed(t, s)[c] = dkeyCache[c]
    BY <1>2 DEF Refreshed
  <2> QED
    BY <2>1 DEF IInv, KeysAreOfKnownGroups, LiveKeysAreOfMembers
<1> QED
  BY <1>1, <1>2

\* A new group object starts a number of its own, and members only join.
LEMMA GrantKeepsKeys ==
  ASSUME IInv, NEW e \in Entity, NEW t \in DataType, NEW name \in Schedule,
         CreateGroup(t), AddGroupMember(t, e, name), UNCHANGED <<dkeyCache, held>>
  PROVE  GroupsAreCounted' /\ KeysAreOfKnownGroups' /\ LiveKeysAreOfMembers'
<1>1. groups \in Nat /\ groups' \in Nat /\ groups <= groups'
  BY ManagerAssumption DEF IInv, TypeOK, CreateGroup
<1>2. \A u \in DataType : group[u] \in Nat /\ group[u] <= groups
  BY ManagerAssumption DEF IInv, TypeOK, GroupsAreCounted
<1>3. \A u \in DataType :
         group'[u] = group[u] \/ (group'[u] = groups + 1 /\ groups' = groups + 1)
  BY DEF IInv, TypeOK, CreateGroup
<1>4. GroupsAreCounted'
  BY <1>1, <1>2, <1>3 DEF GroupsAreCounted
<1>5. \A u \in DataType, c \in Cert : IsMember(u, c) => IsMember(u, c)'
  <2>1. name # NoSchedule
    BY ManagerAssumption
  <2>2. CASE UNCHANGED member
    BY <2>2 DEF IsMember
  <2>3. CASE member' = [member EXCEPT ![t][identities[e]] = name]
    BY <2>1, <2>3 DEF IsMember, IInv, TypeOK
  <2>4. CASE UpdateMemberSchedule(t, e, name)
    BY <2>1, <2>4 DEF UpdateMemberSchedule, IsMember, IInv, TypeOK
  <2> QED
    BY <2>2, <2>3, <2>4 DEF AddGroupMember
<1>6. ASSUME NEW c \in Cert, NEW k \in Key, k.group <= groups, ReadableOnlyIfMember(c, k)
      PROVE  k.group <= groups' /\ ReadableOnlyIfMember(c, k)'
  <2>1. k.type \in DataType /\ k.group \in Nat
    BY <1>6, ManagerAssumption DEF Key
  <2>2. k.group # groups + 1 /\ k.group <= groups'
    BY <1>1, <1>6, <2>1
  <2> QED
    BY <1>3, <1>5, <1>6, <2>1, <2>2 DEF ReadableOnlyIfMember
<1>7. \A c \in Cert : dkeyCache[c] # NoKey => dkeyCache[c] \in Key
  BY DEF IInv, TypeOK
<1>8. \A h \in held : h[1] \in Cert /\ h[2] \in Key
  BY DEF IInv, TypeOK
<1> QED
  BY <1>4, <1>6, <1>7, <1>8 DEF IInv, KeysAreOfKnownGroups, LiveKeysAreOfMembers

\* A revocation leaves the type without a live group.
LEMMA RevokeKeepsKeys ==
  ASSUME IInv, NEW e \in Entity, NEW t \in DataType, Revoke(e, t)
  PROVE  GroupsAreCounted' /\ KeysAreOfKnownGroups' /\ LiveKeysAreOfMembers'
<1>1. groups \in Nat /\ groups' \in Nat /\ groups <= groups'
  BY ManagerAssumption DEF IInv, TypeOK, Revoke
<1>2. \A u \in DataType : group'[u] = IF u = t THEN 0 ELSE group[u]
  BY DEF IInv, TypeOK, Revoke
<1>3. GroupsAreCounted'
  <2>1. \A u \in DataType : group[u] \in Nat /\ group[u] <= groups
    BY ManagerAssumption DEF IInv, TypeOK, GroupsAreCounted
  <2> QED
    BY <1>1, <1>2, <2>1 DEF GroupsAreCounted
<1>4. \A u \in DataType, c \in Cert : u # t => member'[u][c] = member[u][c]
  BY DEF IInv, TypeOK, Revoke
<1>5. ASSUME NEW c \in Cert, NEW k \in Key, k.group <= groups, ReadableOnlyIfMember(c, k)
      PROVE  k.group <= groups' /\ ReadableOnlyIfMember(c, k)'
  <2>1. k.type \in DataType /\ k.group \in Nat /\ k.group > 0
    BY <1>5, ManagerAssumption DEF Key
  <2> QED
    BY <1>1, <1>2, <1>4, <1>5, <2>1 DEF ReadableOnlyIfMember, IsMember
<1>6. \A c \in Cert : dkeyCache[c] # NoKey => dkeyCache[c] \in Key
  BY DEF IInv, TypeOK
<1>7. \A h \in held : h[1] \in Cert /\ h[2] \in Key
  BY DEF IInv, TypeOK
<1>8. UNCHANGED <<dkeyCache, held>>
  BY DEF Revoke
<1> QED
  BY <1>3, <1>5, <1>6, <1>7, <1>8 DEF IInv, KeysAreOfKnownGroups, LiveKeysAreOfMembers

\* Looking a D-KEY up hands out a cached one.
LEMMA GetDKeyKeepsKeys ==
  ASSUME IInv, NEW e \in Entity, NEW t \in DataType, NEW s \in Slot, GetDKey(e, t, s)
  PROVE  KeysAreOfKnownGroups' /\ LiveKeysAreOfMembers'
<1> DEFINE Good(c, k) == k.group <= groups /\ ReadableOnlyIfMember(c, k)
<1>1. UNCHANGED <<groups, group, member>>
  BY DEF GetDKey, db
<1>2. \A c \in Cert : dkeyCache[c] # NoKey => Good(c, dkeyCache[c])
  BY DEF IInv, KeysAreOfKnownGroups, LiveKeysAreOfMembers
<1>3. \A c \in Cert : Refreshed(t, s)[c] # NoKey => Good(c, Refreshed(t, s)[c])
  BY RefreshKeepsCache
<1>4. \A h \in held : Good(h[1], h[2])
  BY DEF IInv, KeysAreOfKnownGroups, LiveKeysAreOfMembers
<1>5. ASSUME NEW cache, \A c \in Cert : cache[c] # NoKey => Good(c, cache[c]),
             Answer(e, t, s, cache)
      PROVE  \A h \in held' : Good(h[1], h[2])
  <2>1. CASE UNCHANGED held
    BY <1>4, <2>1
  <2>2. CASE \E c \in Cert : Found(cache, e, c) /\ held' = held \cup {<<c, cache[c]>>}
    BY <1>4, <1>5, <2>2 DEF Found, Cached
  <2> QED
    BY <1>5, <2>1, <2>2 DEF Answer
<1>6. /\ \A c \in Cert : dkeyCache'[c] # NoKey => Good(c, dkeyCache'[c])
      /\ \A h \in held' : Good(h[1], h[2])
  <2>1. CASE UNCHANGED dkeyCache /\ Answer(e, t, s, dkeyCache)
    BY <1>2, <1>5, <2>1
  <2>2. CASE dkeyCache' = Refreshed(t, s) /\ Answer(e, t, s, Refreshed(t, s))
    BY <1>3, <1>5, <2>2
  <2>3. CASE UNCHANGED <<dkeyCache, held>>
    BY <1>2, <1>4, <2>3
  <2> QED
    BY <2>1, <2>2, <2>3 DEF GetDKey
<1>7. \A c, k : Good(c, k) => k.group <= groups' /\ ReadableOnlyIfMember(c, k)'
  BY <1>1 DEF ReadableOnlyIfMember, IsMember
<1> QED
  BY <1>6, <1>7 DEF KeysAreOfKnownGroups, LiveKeysAreOfMembers

LEMMA InitInv == Init => IInv
<1> SUFFICES ASSUME Init PROVE IInv
  OBVIOUS
<1>1. TypeOK
  BY InitType
<1>2. GroupsAreCounted /\ KeysAreOfKnownGroups /\ LiveKeysAreOfMembers
  BY DEF Init, GroupsAreCounted, KeysAreOfKnownGroups, LiveKeysAreOfMembers
<1> QED
  BY <1>1, <1>2 DEF IInv

LEMMA NextInv == IInv /\ [Next]_vars => IInv'
<1> SUFFICES ASSUME IInv, [Next]_vars PROVE IInv'
  OBVIOUS
<1>1. TypeOK'
  BY NextType DEF IInv
<1> DEFINE Rest == GroupsAreCounted /\ KeysAreOfKnownGroups /\ LiveKeysAreOfMembers
<1>2. ASSUME UNCHANGED <<db, dkeyCache, held>> PROVE Rest'
  BY <1>2 DEF db, IInv, GroupsAreCounted, KeysAreOfKnownGroups,
              LiveKeysAreOfMembers, ReadableOnlyIfMember, IsMember
<1>3. ASSUME NEW e \in Entity, NEW t \in DataType, NEW ni \in NamedInterval,
             Grant(e, t, ni)
      PROVE  Rest'
  BY <1>3, GrantKeepsKeys DEF Grant, NamedInterval
<1>4. ASSUME NEW e \in Entity, NEW t \in DataType, GrantDefault(e, t) PROVE Rest'
  BY <1>4, GrantKeepsKeys, DefaultScheduleType DEF GrantDefault, Grant
<1>5. ASSUME NEW e \in Entity, NEW t \in DataType, Revoke(e, t) PROVE Rest'
  BY <1>5, RevokeKeepsKeys
<1>6. ASSUME NEW t \in DataType, NEW s \in Slot, GetEKey(t, s) PROVE Rest'
  BY <1>6, RefreshKeepsCache
     DEF GetEKey, db, IInv, GroupsAreCounted, KeysAreOfKnownGroups,
         LiveKeysAreOfMembers, ReadableOnlyIfMember, IsMember
<1>7. ASSUME NEW e \in Entity, NEW t \in DataType, NEW s \in Slot, GetDKey(e, t, s)
      PROVE  Rest'
  BY <1>7, GetDKeyKeepsKeys DEF GetDKey, db, IInv, GroupsAreCounted
<1>8. \/ UNCHANGED <<db, dkeyCache, held>>
      \/ \E e \in Entity, t \in DataType, ni \in NamedInterval : Grant(e, t, ni)
      \/ \E e \in Entity, t \in DataType : GrantDefault(e, t) \/ Revoke(e, t)
      \/ \E t \in DataType, s \in Slot : GetEKey(t, s)
      \/ \E e \in Entity, t \in DataType, s \in Slot : GetDKey(e, t, s)
  BY DEF Next, vars, AddIdentity, RemoveIdentity, Tick
<1> QED
  BY <1>1, <1>2, <1>3, <1>4, <1>5, <1>6, <1>7, <1>8 DEF IInv

LEMMA GroupsKept == Spec => []IInv
BY InitInv, NextInv, PTL DEF Spec

LEMMA InvIsEnough == IInv => RevokedCannotRead
BY NoKeyAssumption DEF IInv, LiveKeysAreOfMembers, ReadableOnlyIfMember, RevokedCannotRead

\* Revocation is final until a new grant, for any number of consumers, types,
\* schedules and groups: no D-KEY of a type's live group is with, or cached
\* for, a certificate that is not a member of it (revokeAccess, getDKey).
THEOREM Revocation == Spec => []RevokedCannotRead
BY GroupsKept, InvIsEnough, PTL

-----------------------------------------------------------------------------
(***************************************************************************)
(* Refinement: the manager implements AccessEpochs                         *)
(***************************************************************************)

Granted == [t \in DataType |-> {c \in Cert : IsMember(t, c)}]
Issued == {<<h[1], h[2].type, h[2].group>> : h \in held}

\* A grant is a step of the abstract grant, for the members there are after it.
LEMMA GrantRefines ==
  ASSUME IInv, NEW e \in Entity, NEW t \in DataType,
         NEW ni \in [name : Schedule, window : SUBSET Slot], Grant(e, t, ni)
  PROVE  groups' \in Nat /\ \E joined \in SUBSET Cert : Epochs!Grant(t, joined)
<1> DEFINE joined == {c \in Cert : IsMember(t, c)'}
<1>1. groups \in Nat /\ groups' \in Nat
  BY ManagerAssumption DEF IInv, TypeOK, Grant, CreateGroup
<1>2. \/ group[t] # 0 /\ UNCHANGED <<group, groups>>
      \/ /\ group[t] = 0
         /\ groups' > groups
         /\ group' = [group EXCEPT ![t] = groups']
  BY <1>1 DEF Grant, CreateGroup
<1>3. ni.name \in Schedule /\ ni.name # NoSchedule
  BY ManagerAssumption
<1>4. \A u \in DataType, c \in Cert :
        IsMember(u, c)' <=> IsMember(u, c) \/ (u = t /\ IsMember(t, c)')
  <2>1. CASE UNCHANGED member
    BY <2>1 DEF IsMember
  <2>2. CASE member' = [member EXCEPT ![t][identities[e]] = ni.name]
    BY <1>3, <2>2 DEF IsMember, IInv, TypeOK
  <2>3. CASE UpdateMemberSchedule(t, e, ni.name)
    BY <1>3, <2>3 DEF UpdateMemberSchedule, IsMember, IInv, TypeOK
  <2> QED
    BY <2>1, <2>2, <2>3 DEF Grant, AddGroupMember
<1>5. Granted' = [Granted EXCEPT ![t] = @ \cup joined]
  BY <1>4 DEF Granted
<1>6. Issued' = Issued
  BY DEF Grant, Issued
<1>7. Epochs!Grant(t, joined)
  BY <1>2, <1>5, <1>6 DEF Epochs!Grant, Granted, Issued
<1> QED
  BY <1>1, <1>7

\* A revocation is the abstract one.
LEMMA RevokeRefines ==
  ASSUME IInv, NEW e \in Entity, NEW t \in DataType, Revoke(e, t)
  PROVE  groups' \in Nat /\ Epochs!Revoke(t)
<1>1. groups \in Nat /\ groups' \in Nat /\ groups' >= groups
  BY ManagerAssumption DEF IInv, TypeOK, Revoke
<1>2. \A u \in DataType, c \in Cert : IsMember(u, c)' <=> u # t /\ IsMember(u, c)
  BY DEF Revoke, IsMember, IInv, TypeOK
<1>3. Granted' = [Granted EXCEPT ![t] = {}]
  BY <1>2 DEF Granted
<1>4. Issued' = Issued
  BY DEF Revoke, Issued
<1> QED
  BY <1>1, <1>3, <1>4 DEF Revoke, Epochs!Revoke, Granted, Issued

\* A D-KEY that is handed out is an issue, of an earlier epoch when it comes
\* stale from the cache.
LEMMA GetDKeyRefines ==
  ASSUME IInv, NEW e \in Entity, NEW t \in DataType, NEW s \in Slot, GetDKey(e, t, s)
  PROVE  \/ \E c \in Cert, u \in DataType, g \in 1..groups : Epochs!Issue(c, u, g)
         \/ UNCHANGED Epochs!vars
<1>1. UNCHANGED <<groups, group, member>>
  BY DEF GetDKey, db
<1>2. ASSUME NEW c \in Cert, NEW k \in Key, k.group <= groups,
             ReadableOnlyIfMember(c, k), held' = held \cup {<<c, k>>}
      PROVE  \E u \in DataType, g \in 1..groups : Epochs!Issue(c, u, g)
  <2>1. k.type \in DataType /\ k.group \in 1..groups
    BY <1>2, ManagerAssumption DEF Key, IInv, TypeOK
  <2>2. Issued' = Issued \cup {<<c, k.type, k.group>>}
    <3> DEFINE entry(h) == <<h[1], h[2].type, h[2].group>>
    <3>1. Issued = {entry(h) : h \in held} /\ Issued' = {entry(h) : h \in held'}
      BY DEF Issued
    <3>2. {entry(h) : h \in held'} = {entry(h) : h \in held} \cup {entry(<<c, k>>)}
      <4> HIDE DEF entry
      <4> QED
        BY <1>2
    <3>3. entry(<<c, k>>) = <<c, k.type, k.group>>
      OBVIOUS
    <3> QED
      BY <3>1, <3>2, <3>3
  <2>3. Granted' = Granted
    BY <1>1 DEF Granted, IsMember
  <2>4. k.group = group[k.type] => c \in Granted[k.type]
    BY <1>2, <2>1 DEF ReadableOnlyIfMember, Granted
  <2>5. Epochs!Issue(c, k.type, k.group)
    BY <1>1, <2>2, <2>3, <2>4 DEF Epochs!Issue, Issued, Granted
  <2> QED
    BY <2>1, <2>5
<1>3. ASSUME NEW cache \in [Cert -> Key \cup {NoKey}],
             \A c \in Cert : cache[c] # NoKey =>
                cache[c].group <= groups /\ ReadableOnlyIfMember(c, cache[c]),
             Answer(e, t, s, cache)
      PROVE  \/ \E c \in Cert, u \in DataType, g \in 1..groups : Epochs!Issue(c, u, g)
             \/ UNCHANGED held
  <2>1. CASE \E c \in Cert : Found(cache, e, c) /\ held' = held \cup {<<c, cache[c]>>}
    <3>1. PICK c \in Cert : Found(cache, e, c) /\ held' = held \cup {<<c, cache[c]>>}
      BY <2>1
    <3>2. cache[c] # NoKey /\ cache[c] \in Key
      BY <3>1 DEF Found, Cached
    <3> QED
      BY <1>2, <1>3, <3>1, <3>2
  <2> QED
    BY <1>3, <2>1 DEF Answer
<1>4. UNCHANGED held => UNCHANGED Epochs!vars
  BY <1>1 DEF Epochs!vars, IsMember
<1>5. dkeyCache \in [Cert -> Key \cup {NoKey}]
  BY DEF IInv, TypeOK
<1>6. Refreshed(t, s) \in [Cert -> Key \cup {NoKey}]
  BY RefreshedType DEF IInv
<1>7. CASE Answer(e, t, s, dkeyCache)
  BY <1>3, <1>4, <1>5, <1>7 DEF IInv, KeysAreOfKnownGroups, LiveKeysAreOfMembers
<1>8. CASE Answer(e, t, s, Refreshed(t, s))
  BY <1>3, <1>4, <1>6, <1>8, RefreshKeepsCache
<1>9. CASE UNCHANGED held
  BY <1>4, <1>9
<1> QED
  BY <1>7, <1>8, <1>9 DEF GetDKey

LEMMA NextRefines == IInv /\ [Next]_vars => [Epochs!Next]_(Epochs!vars)
<1> SUFFICES ASSUME IInv, [Next]_vars PROVE [Epochs!Next]_(Epochs!vars)
  OBVIOUS
<1>1. CASE UNCHANGED <<db, held>>
  BY <1>1 DEF db, Epochs!vars, IsMember
<1>2. ASSUME NEW e \in Entity, NEW t \in DataType, NEW ni \in NamedInterval,
             Grant(e, t, ni)
      PROVE  Epochs!Next
  <2>1. ni \in [name : Schedule, window : SUBSET Slot]
    BY ManagerAssumption DEF NamedInterval
  <2> QED
    BY <1>2, <2>1, GrantRefines DEF Epochs!Next
<1>3. ASSUME NEW e \in Entity, NEW t \in DataType, GrantDefault(e, t) PROVE Epochs!Next
  BY <1>3, DefaultScheduleType, GrantRefines DEF GrantDefault, Epochs!Next
<1>4. ASSUME NEW e \in Entity, NEW t \in DataType, Revoke(e, t) PROVE Epochs!Next
  BY <1>4, RevokeRefines DEF Epochs!Next
<1>5. ASSUME NEW e \in Entity, NEW t \in DataType, NEW s \in Slot, GetDKey(e, t, s)
      PROVE  [Epochs!Next]_(Epochs!vars)
  BY <1>5, GetDKeyRefines DEF Epochs!Next
<1>6. \/ UNCHANGED <<db, held>>
      \/ \E e \in Entity, t \in DataType, ni \in NamedInterval : Grant(e, t, ni)
      \/ \E e \in Entity, t \in DataType : GrantDefault(e, t) \/ Revoke(e, t)
      \/ \E e \in Entity, t \in DataType, s \in Slot : GetDKey(e, t, s)
  BY DEF Next, vars, AddIdentity, RemoveIdentity, Tick, GetEKey
<1> QED
  BY <1>1, <1>2, <1>3, <1>4, <1>5, <1>6

LEMMA InitRefines == Init => Epochs!Init
BY DEF Init, Epochs!Init, IsMember

\* The manager keeps the promise of AccessEpochs whatever the constants are:
\* each of its steps is a grant, a revocation or an issue of epochs, or is
\* none of the abstract specification's concern.
THEOREM Refinement == Spec => ImplementsEpochs
<1>1. Init => IInv /\ Epochs!Init
  BY InitInv, InitRefines
<1>2. IInv /\ [Next]_vars => IInv' /\ [Epochs!Next]_(Epochs!vars)
  BY NextInv, NextRefines
<1> QED
  BY <1>1, <1>2, PTL DEF Spec, ImplementsEpochs, Epochs!Spec

-----------------------------------------------------------------------------
(***************************************************************************)
(* What a step may not do                                                  *)
(***************************************************************************)

\* A grant joins nobody but the certificate registered under the name, and to
\* its own type only.
LEMMA GrantJoinsRegistered ==
  ASSUME TypeOK, NEW e \in Entity, NEW u \in DataType, NEW ni, Grant(e, u, ni),
         NEW t \in DataType, NEW c \in Cert, ~IsMember(t, c), IsMember(t, c)'
  PROVE  identities[e] = c /\ u = t
<1>1. CASE UNCHANGED member
  BY <1>1 DEF IsMember
<1>2. CASE /\ identities[e] # NoCert
           /\ member' = [member EXCEPT ![u][identities[e]] = ni.name]
  BY <1>2 DEF IsMember, TypeOK
<1>3. CASE UpdateMemberSchedule(u, e, ni.name)
  BY <1>3 DEF UpdateMemberSchedule, IsMember, TypeOK
<1> QED
  BY <1>1, <1>2, <1>3 DEF Grant, AddGroupMember

LEMMA StepJoinsRegistered ==
  ASSUME TypeOK, Next, NEW t \in DataType, NEW c \in Cert, ~IsMember(t, c), IsMember(t, c)'
  PROVE  \E e \in Entity : identities[e] = c /\ GrantStep(e, t)
<1>1. CASE \E e \in Entity, u \in DataType, ni \in NamedInterval : Grant(e, u, ni)
  <2>1. PICK e \in Entity, u \in DataType, ni \in NamedInterval : Grant(e, u, ni)
    BY <1>1
  <2>2. identities[e] = c /\ u = t
    BY <2>1, GrantJoinsRegistered
  <2> QED
    BY <2>1, <2>2, Zenon DEF GrantStep
<1>2. CASE \E e \in Entity, u \in DataType : GrantDefault(e, u)
  <2>1. PICK e \in Entity, u \in DataType : GrantDefault(e, u)
    BY <1>2
  <2>2. identities[e] = c /\ u = t
    BY <2>1, GrantJoinsRegistered DEF GrantDefault
  <2> QED
    BY <2>1, <2>2, Zenon DEF GrantStep
<1>3. CASE \E e \in Entity, u \in DataType : Revoke(e, u)
  <2>1. PICK u \in DataType : member' = [member EXCEPT ![u] = [d \in Cert |-> NoSchedule]]
    BY <1>3 DEF Revoke
  <2> QED
    BY <2>1 DEF IsMember, TypeOK
<1>4. CASE UNCHANGED member
  BY <1>4 DEF IsMember
<1> QED
  BY <1>1, <1>2, <1>3, <1>4
  DEF Next, AddIdentity, RemoveIdentity, GetEKey, GetDKey, Tick, db

\* A certificate becomes a member of a type's group only by a grant of the type
\* to a name that it is registered under at that moment.
THEOREM Joins == Spec => JoinsAreRegistered
<1>1. TypeOK /\ [Next]_vars =>
        [\A t \in DataType, c \in Cert :
           ~IsMember(t, c) /\ IsMember(t, c)' =>
             \E e \in Entity : identities[e] = c /\ GrantStep(e, t)]_vars
  BY StepJoinsRegistered
<1> QED
  BY <1>1, TypeCorrect, PTL DEF Spec, JoinsAreRegistered

\* A name that is no certificate's and covers one certificate is looked up past
\* the cache, and then found with the key that has just been made.
LEMMA IdentityIsAnswered ==
  ASSUME TypeOK, NEW e \in Entity, NEW t \in DataType, NEW s \in Slot, GetDKey(e, t, s),
         NEW c \in Readers(t, s), Identity(e, c), HasKey(t, s)
  PROVE  /\ reply' = DKeyReply(e, t, s, c, CurrentKey(t, s))
         /\ <<c, CurrentKey(t, s)>> \in held'
<1>1. c \in Cert /\ e \notin Cert /\ \A d \in Cert : <<e, d>> \in Covers <=> d = c
  BY DEF Readers, Identity
<1>2. e \notin Cached(dkeyCache, e)
  BY <1>1 DEF Cached
<1>3. Answer(e, t, s, Refreshed(t, s))
  BY <1>2 DEF GetDKey
<1>4. Refreshed(t, s)[c] = CurrentKey(t, s)
  BY <1>1 DEF Refreshed
<1>5. CurrentKey(t, s) # NoKey
  BY CurrentKeyType, NoKeyAssumption
<1>6. c \in Cached(Refreshed(t, s), e)
  BY <1>1, <1>4, <1>5 DEF Cached
<1>7. PICK d \in Cert : /\ Found(Refreshed(t, s), e, d)
                        /\ held' = held \cup {<<d, Refreshed(t, s)[d]>>}
                        /\ reply' = DKeyReply(e, t, s, d, Refreshed(t, s)[d])
  BY <1>3, <1>6 DEF Answer
<1>8. d = c
  BY <1>1, <1>7 DEF Found, Cached
<1> QED
  BY <1>4, <1>7, <1>8

\* The answer of any other step is no answer to a request for a D-KEY.
LEMMA OnlyGetDKeyAnswers ==
  ASSUME Next, reply'.what \in {"D-KEY", "none"}
  PROVE  \E e \in Entity, t \in DataType, s \in Slot : GetDKey(e, t, s)
<1>1. Nothing.what \notin {"D-KEY", "none"} /\ \A k : EKeyReply(k).what \notin {"D-KEY", "none"}
  BY DEF Nothing, EKeyReply
<1>2. \/ reply' = Nothing
      \/ \E k : reply' = EKeyReply(k)
      \/ \E e \in Entity, t \in DataType, s \in Slot : GetDKey(e, t, s)
  BY DEF Next, AddIdentity, RemoveIdentity, Grant, GrantDefault, Revoke, GetEKey, Tick
<1> QED
  BY <1>1, <1>2

LEMMA AnswerNamesRequest ==
  ASSUME NEW e \in Entity, NEW t \in DataType, NEW s \in Slot, GetDKey(e, t, s)
  PROVE  reply'.for = e /\ reply'.type = t /\ reply'.slot = s
<1>1. reply' = NoReply(e, t, s) \/ \E c, k : reply' = DKeyReply(e, t, s, c, k)
  BY DEF GetDKey, Answer
<1> QED
  BY <1>1 DEF NoReply, DKeyReply

\* However stale the cache is, a consumer that asks by its identity is answered
\* with the D-KEY of the E-KEY in force, if its schedule covers the slot.
THEOREM IdentityAnswers == Spec => IdentityGetsCurrentKey
<1> DEFINE Current ==
      reply'.what \in {"D-KEY", "none"} =>
        \A c \in Readers(reply'.type, reply'.slot) :
          Identity(reply'.for, c) /\ HasKey(reply'.type, reply'.slot) =>
            /\ reply'.what = "D-KEY"
            /\ reply'.key = CurrentKey(reply'.type, reply'.slot)
<1>1. ASSUME TypeOK, Next PROVE Current
  <2> SUFFICES ASSUME reply'.what \in {"D-KEY", "none"},
                      NEW c \in Readers(reply'.type, reply'.slot),
                      Identity(reply'.for, c), HasKey(reply'.type, reply'.slot)
               PROVE  /\ reply'.what = "D-KEY"
                      /\ reply'.key = CurrentKey(reply'.type, reply'.slot)
    OBVIOUS
  <2>1. PICK e \in Entity, t \in DataType, s \in Slot : GetDKey(e, t, s)
    BY <1>1, OnlyGetDKeyAnswers
  <2>2. reply'.for = e /\ reply'.type = t /\ reply'.slot = s
    BY <2>1, AnswerNamesRequest
  <2>3. reply' = DKeyReply(e, t, s, c, CurrentKey(t, s))
    BY <1>1, <2>1, <2>2, IdentityIsAnswered
  <2> QED
    BY <2>2, <2>3 DEF DKeyReply
<1>2. TypeOK /\ [Next]_vars => [Current]_vars
  BY <1>1
<1> QED
  BY <1>2, TypeCorrect, PTL DEF Spec, IdentityGetsCurrentKey
=============================================================================
