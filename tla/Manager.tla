------------------------------ MODULE Manager -------------------------------
(***************************************************************************)
(* The access manager: class Manager of manager/src/manager.cpp.           *)
(*                                                                         *)
(* Per data type it keeps a NAC GroupManager, whose own database holds     *)
(* schedules (names for windows of time slots) and members (certificates,  *)
(* each under a schedule).  A GroupManager object lives from the first     *)
(* grant until a revocation drops it, and a later grant makes another, with *)
(* an empty database and new key pairs: objects are numbered and the       *)
(* number stands in their keys.  A time slot is a day: every schedule that *)
(* a caller makes covers whole days (manager.cpp:60, service.cpp:208), and *)
(* a group makes one key pair per day.                                     *)
(***************************************************************************)
EXTENDS Naturals

CONSTANTS
  Entity,     \* the names requests use for consumers
  Cert,       \* those of them that name certificates: what groups keep them
              \* as members by, and D-KEYs are named for
  Covers,     \* <<e, c>>: the name e is a prefix of the certificate name c
  DataType,
  Schedule,   \* names of intervals
  EveryDay,   \* SCHEDULE_NAME_EVERY_DAY
  Windows,    \* the windows grants give, sets of time slots
  LastSlot,   \* bound: time slots are 0..LastSlot
  Year,       \* how many slots after now the default schedule ends
  MaxGroups,  \* bound: GroupManager objects made
  NoCert, NoSchedule, NoKey

Slot == 0..LastSlot

ASSUME ManagerAssumption ==
  /\ Cert \subseteq Entity
  /\ Covers \subseteq Entity \X Cert
  /\ \A c \in Cert : <<c, c>> \in Covers
  /\ EveryDay \in Schedule
  /\ Windows \subseteq SUBSET Slot
  /\ LastSlot \in Nat /\ Year \in Nat /\ MaxGroups \in Nat
  /\ NoCert \notin Cert /\ NoSchedule \notin Schedule

\* The key pair of a GroupManager object for a slot; the E-KEY is its public
\* half, a D-KEY its private half encrypted to a certificate.
Key == [type : DataType, group : 1..MaxGroups, slot : Slot]
ASSUME NoKeyAssumption == NoKey \notin Key

NamedInterval == [name : Schedule, window : Windows]

VARIABLES
  identities, \* m_identities
  group,      \* m_groups: the number of the type's object, 0 without one
  groups,     \* how many objects were made
  member,     \* per type, the schedule of each member of its object
  window,     \* per type, the window of each schedule of its object
  dkeyCache,  \* m_dkey_cache: the key whose D-KEY is cached for a certificate
  now,        \* the clock
  held,       \* the D-KEYs handed out: <<certificate, key>>
  reply       \* what the last call returned

db == <<groups, group, member, window>>
vars == <<identities, db, dkeyCache, now, held, reply>>

Nothing == [what |-> "nothing"]
NoReply(e, t, s) == [what |-> "none", for |-> e, type |-> t, slot |-> s]
EKeyReply(k) == [what |-> "E-KEY", key |-> k]
DKeyReply(e, t, s, c, k) ==
  [what |-> "D-KEY", for |-> e, type |-> t, slot |-> s, cert |-> c, key |-> k]

Reply ==
  {Nothing} \cup {EKeyReply(k) : k \in Key}
    \cup {NoReply(e, t, s) : e \in Entity, t \in DataType, s \in Slot}
    \cup [what : {"D-KEY"}, for : Entity, type : DataType, slot : Slot,
          cert : Cert, key : Key]

TypeOK ==
  /\ identities \in [Entity -> Cert \cup {NoCert}]
  /\ group \in [DataType -> 0..MaxGroups]
  /\ groups \in 0..MaxGroups
  /\ member \in [DataType -> [Cert -> Schedule \cup {NoSchedule}]]
  /\ window \in [DataType -> [Schedule -> SUBSET Slot]]
  /\ dkeyCache \in [Cert -> Key \cup {NoKey}]
  /\ now \in Slot
  /\ held \subseteq Cert \X Key
  /\ reply \in Reply

Init ==
  /\ identities = [e \in Entity |-> NoCert]
  /\ group = [t \in DataType |-> 0]
  /\ groups = 0
  /\ member = [t \in DataType |-> [c \in Cert |-> NoSchedule]]
  /\ window = [t \in DataType |-> [n \in Schedule |-> {}]]
  /\ dkeyCache = [c \in Cert |-> NoKey]
  /\ now = 0
  /\ held = {}
  /\ reply = Nothing

IsMember(t, c) == member[t][c] # NoSchedule

-----------------------------------------------------------------------------
(***************************************************************************)
(* Identities                                                              *)
(***************************************************************************)

\* validateCertificate, which runs first, checks nothing.
AddIdentity(e, c) ==
  /\ identities' = [identities EXCEPT ![e] = c]
  /\ reply' = Nothing
  /\ UNCHANGED <<db, dkeyCache, now, held>>

RemoveIdentity(e) ==
  /\ identities' = [identities EXCEPT ![e] = NoCert]
  /\ reply' = Nothing
  /\ UNCHANGED <<db, dkeyCache, now, held>>

-----------------------------------------------------------------------------
(***************************************************************************)
(* Grants                                                                  *)
(***************************************************************************)

\* Altered: a new object for every grant.
CreateGroupAlways(t) ==
  /\ groups < MaxGroups
  /\ groups' = groups + 1
  /\ group' = [group EXCEPT ![t] = groups + 1]

\* createGroup: the type's object, or a new one.
CreateGroup(t) ==
  \/ group[t] # 0 /\ UNCHANGED <<group, groups>>
  \/ /\ group[t] = 0
     /\ groups < MaxGroups
     /\ groups' = groups + 1
     /\ group' = [group EXCEPT ![t] = groups + 1]

\* createSchedule: m_group_schedules is never filled, so the schedule is
\* written whether the object has it already or not.
CreateSchedule(t, ni) ==
  window' = [window EXCEPT ![t][ni.name] = ni.window]

\* updateMemberSchedule, by the name of a member.
UpdateMemberSchedule(t, e, name) ==
  member' = [member EXCEPT ![t] =
               [c \in Cert |-> IF c = e /\ IsMember(t, c) THEN name ELSE @[c]]]

\* Altered: joins a name that has no certificate registered.
AddMemberUnregistered(t, e, name) ==
  \/ e \in Cert /\ member' = [member EXCEPT ![t][e] = name]
  \/ e \notin Cert /\ UNCHANGED member

\* addGroupMember.  An entity without a certificate is logged and skipped; a
\* certificate that is a member already makes addMember throw, and then the
\* member of the entity's own name, if there is one, changes schedule.
AddGroupMember(t, e, name) ==
  LET c == identities[e] IN
  \/ c = NoCert /\ UNCHANGED member
  \/ c # NoCert /\ ~IsMember(t, c) /\ member' = [member EXCEPT ![t][c] = name]
  \/ c # NoCert /\ IsMember(t, c) /\ UpdateMemberSchedule(t, e, name)

Grant(e, t, ni) ==
  /\ CreateGroup(t)
  /\ CreateSchedule(t, ni)
  /\ AddGroupMember(t, e, ni.name)
  /\ reply' = Nothing
  /\ UNCHANGED <<identities, dkeyCache, now, held>>

\* defaultSchedule gives the interval the days of a year where it takes how
\* often it repeats: of the year it covers the first day and the last.
DefaultSchedule ==
  [name |-> EveryDay, window |-> {now, now + Year} \cap Slot]

GrantDefault(e, t) == Grant(e, t, DefaultSchedule)

Tick ==
  /\ now < LastSlot
  /\ now' = now + 1
  /\ reply' = Nothing
  /\ UNCHANGED <<identities, db, dkeyCache, held>>

-----------------------------------------------------------------------------
(***************************************************************************)
(* Revocation                                                              *)
(***************************************************************************)

\* Altered: the group is kept, without the member.
RemoveMemberOnly(e, t) ==
  /\ CreateGroup(t)
  /\ member' = [member EXCEPT ![t] =
                  [c \in Cert |-> IF c = e THEN NoSchedule ELSE @[c]]]
  /\ reply' = Nothing
  /\ UNCHANGED <<identities, window, dkeyCache, now, held>>

\* removeGroupMember: the type's object, made for the purpose if it is not
\* there, drops the member, and is dropped itself with all the others.
Revoke(e, t) ==
  /\ \/ group[t] # 0 /\ UNCHANGED groups
     \/ group[t] = 0 /\ groups < MaxGroups /\ groups' = groups + 1
  /\ group' = [group EXCEPT ![t] = 0]
  /\ member' = [member EXCEPT ![t] = [c \in Cert |-> NoSchedule]]
  /\ window' = [window EXCEPT ![t] = [n \in Schedule |-> {}]]
  /\ reply' = Nothing
  /\ UNCHANGED <<identities, dkeyCache, now, held>>

-----------------------------------------------------------------------------
(***************************************************************************)
(* Keys                                                                    *)
(***************************************************************************)

CurrentKey(t, s) == [type |-> t, group |-> group[t], slot |-> s]

\* Altered: does not ask whether there is a group.
HasKeyUnchecked(t, s) == TRUE

\* GroupManager::getGroupKey makes no key for a slot no schedule covers.
HasKey(t, s) == group[t] # 0 /\ \E n \in Schedule : s \in window[t][n]

\* The members it makes D-KEYs for.
Readers(t, s) == {c \in Cert : IsMember(t, c) /\ s \in window[t][member[t][c]]}

\* Altered: a cached D-KEY is not replaced.
KeepFirst(t, s) ==
  [c \in Cert |-> IF HasKey(t, s) /\ c \in Readers(t, s) /\ dkeyCache[c] = NoKey
                  THEN CurrentKey(t, s) ELSE dkeyCache[c]]

\* getEKey, on its own and at the start of getDKey, caches the D-KEYs that come
\* with the E-KEY, by the name of the certificate only.
Refreshed(t, s) ==
  [c \in Cert |-> IF HasKey(t, s) /\ c \in Readers(t, s)
                  THEN CurrentKey(t, s) ELSE dkeyCache[c]]

GetEKey(t, s) ==
  /\ dkeyCache' = Refreshed(t, s)
  /\ reply' = IF HasKey(t, s) THEN EKeyReply(CurrentKey(t, s)) ELSE Nothing
  /\ UNCHANGED <<identities, db, now, held>>

\* The names in a cache that an entity's name covers, in the order of the map:
\* the entity's own name comes before every longer one.
Cached(cache, e) == {c \in Cert : <<e, c>> \in Covers /\ cache[c] # NoKey}
Found(cache, e, c) == c \in Cached(cache, e) /\ (e \in Cached(cache, e) => c = e)

Answer(e, t, s, cache) ==
  \/ \E c \in Cert :
       /\ Found(cache, e, c)
       /\ held' = held \cup {<<c, cache[c]>>}
       /\ reply' = DKeyReply(e, t, s, c, cache[c])
  \/ /\ Cached(cache, e) = {}
     /\ reply' = NoReply(e, t, s)
     /\ UNCHANGED held

\* The cache is looked up by the entity's exact name first; only a miss asks
\* the group for its keys.
GetDKey(e, t, s) ==
  /\ \/ /\ e \in Cached(dkeyCache, e)
        /\ UNCHANGED dkeyCache
        /\ Answer(e, t, s, dkeyCache)
     \/ /\ e \notin Cached(dkeyCache, e)
        /\ HasKey(t, s)
        /\ dkeyCache' = Refreshed(t, s)
        /\ Answer(e, t, s, Refreshed(t, s))
     \/ /\ e \notin Cached(dkeyCache, e)
        /\ ~HasKey(t, s)
        /\ reply' = NoReply(e, t, s)
        /\ UNCHANGED <<dkeyCache, held>>
  /\ UNCHANGED <<identities, db, now>>

-----------------------------------------------------------------------------
Next ==
  \/ \E e \in Entity, c \in Cert : AddIdentity(e, c)
  \/ \E e \in Entity : RemoveIdentity(e)
  \/ \E e \in Entity, t \in DataType, ni \in NamedInterval : Grant(e, t, ni)
  \/ \E e \in Entity, t \in DataType : GrantDefault(e, t) \/ Revoke(e, t)
  \/ \E t \in DataType, s \in Slot : GetEKey(t, s)
  \/ \E e \in Entity, t \in DataType, s \in Slot : GetDKey(e, t, s)
  \/ Tick

Spec == Init /\ [][Next]_vars

-----------------------------------------------------------------------------
(***************************************************************************)
(* Properties                                                              *)
(***************************************************************************)

\* Revocation is final until a new grant: whoever holds a D-KEY of the type's
\* live group object, or would be served one from the cache, is a member of
\* it.  Keys of a revoked time stay with their holders, and open nothing that
\* is encrypted later (revokeAccess, m_dkey_cache).
RevokedCannotRead ==
  \A t \in DataType, c \in Cert, k \in Key :
    /\ k.type = t /\ k.group = group[t] /\ group[t] # 0
    /\ <<c, k>> \in held \/ dkeyCache[c] = k
    => IsMember(t, c)

\* A consumer that asks by its identity, a proper prefix of the name of one
\* certificate only, is answered with the key the E-KEY of that type and slot
\* has, however stale the cache is (getDKey, getEKey).
Identity(e, c) == e \notin Cert /\ \A d \in Cert : <<e, d>> \in Covers <=> d = c
IdentityGetsCurrentKey ==
  [][reply'.what \in {"D-KEY", "none"} =>
       \A c \in Readers(reply'.type, reply'.slot) :
         Identity(reply'.for, c) /\ HasKey(reply'.type, reply'.slot) =>
           /\ reply'.what = "D-KEY"
           /\ reply'.key = CurrentKey(reply'.type, reply'.slot)]_vars

\* The step that makes a certificate a member of a type's group is a grant of
\* the type to a name that the certificate is registered under: a certificate
\* that was removed, replaced, or is registered under other names only is not
\* joined by it (getIdentity in addGroupMember).
GrantStep(e, t) == (\E ni \in NamedInterval : Grant(e, t, ni)) \/ GrantDefault(e, t)
JoinsAreRegistered ==
  [][\A t \in DataType, c \in Cert :
       ~IsMember(t, c) /\ IsMember(t, c)' =>
         \E e \in Entity : identities[e] = c /\ GrantStep(e, t)]_vars

\* The keys of the manager implement the epochs of AccessEpochs: an epoch is
\* a GroupManager object, the granted are its members.
Epochs == INSTANCE AccessEpochs WITH
  Consumer <- Cert,
  epoch <- group,
  last <- groups,
  granted <- [t \in DataType |-> {c \in Cert : IsMember(t, c)}],
  issued <- {<<h[1], h[2].type, h[2].group>> : h \in held}
ImplementsEpochs == Epochs!Spec

-----------------------------------------------------------------------------
(***************************************************************************)
(* What comments of the code say and the code does not do                  *)
(***************************************************************************)

\* manager.cpp:232 "this consumer were not granted.": a D-KEY is returned for
\* a data type only for a certificate that is granted it.
OnlyGrantedGetKeys == reply.what = "D-KEY" => IsMember(reply.type, reply.cert)

=============================================================================
