----------------------------- MODULE HomeAccess ------------------------------
(***************************************************************************)
(* The access manager and a thermometer of a home: what granting and       *)
(* revoking mean for the temperatures.                                     *)
(*                                                                         *)
(* They share the clock and the E-KEYs.  The manager gives an E-KEY to     *)
(* whoever asks, for any day (Service::onGetEKey asks for no grant).  The  *)
(* network may deliver it to the producer at once, or keep it, in a cache  *)
(* or under way, and deliver it after the manager has moved on.            *)
(***************************************************************************)
EXTENDS Manager, Thermometer

ASSUME HomeAssumption ==
  /\ EKey = Key /\ NoEKey = NoKey /\ DataType = Prefix
  /\ LastSlot = Day(LastHour)

VARIABLES
  published, \* the E-KEYs the manager has given out
  old        \* those of them that it gave before a revocation of their type

network == <<published, old>>
homeVars == <<vars, thermometer, network>>

HomeInit ==
  /\ Init /\ ThermometerInit
  /\ published = {} /\ old = {}

HomeTypeOK == published \subseteq Key /\ old \subseteq published

\* Grants, identities and D-KEYs stay between consumers and the manager.
Manage ==
  /\ \/ \E e \in Entity, c \in Cert : AddIdentity(e, c)
     \/ \E e \in Entity : RemoveIdentity(e)
     \/ \E e \in Entity, t \in DataType, ni \in NamedInterval : Grant(e, t, ni)
     \/ \E e \in Entity, t \in DataType : GrantDefault(e, t)
     \/ \E e \in Entity, t \in DataType, s \in Slot : GetDKey(e, t, s)
  /\ UNCHANGED <<thermometer, network>>

RevokeAccess(e, t) ==
  /\ Revoke(e, t)
  /\ old' = old \cup {k \in published : k.type = t}
  /\ UNCHANGED <<thermometer, published>>

PublishEKey(t, s) ==
  /\ GetEKey(t, s)
  /\ published' = published \cup {k \in {CurrentKey(t, s)} : HasKey(t, s)}
  /\ UNCHANGED <<thermometer, old>>

PassHour ==
  /\ HourPasses
  /\ IF Day(hour + 1) = now THEN UNCHANGED vars ELSE Tick
  /\ UNCHANGED network

DeliverEKey(h, p) == \E k \in published : EKeyComes(h, p, k)

Measure ==
  /\ \/ \E r \in Request, t \in Hour : GetTemperature(r, t)
     \/ \E h \in Hour : GetContentKey(h)
     \/ \E h \in Hour, p \in Prefix :
          EKeyRefused(h, p) \/ EKeyUnusable(h, p) \/ DeliverEKey(h, p)
  /\ UNCHANGED <<vars, network>>

HomeNext ==
  \/ Manage
  \/ \E e \in Entity, t \in DataType : RevokeAccess(e, t)
  \/ \E t \in DataType, s \in Slot : PublishEKey(t, s)
  \/ Measure
  \/ PassHour

HomeSpec == HomeInit /\ [][HomeNext]_homeVars

-----------------------------------------------------------------------------
(***************************************************************************)
(* Properties                                                              *)
(***************************************************************************)

\* A consumer that has lost its grant, but has D-KEYs, decrypts content keys
\* only that were encrypted with an E-KEY given out before the revocation:
\* what the thermometer asks for afterwards shuts it out, whatever E-KEYs of
\* revoked groups are at hand or under way elsewhere (revokeAccess, getEKey,
\* createContentKey).
RevokedReadNoNewData ==
  \A c \in Cert, d \in ckeys :
    <<c, d[2]>> \in held => IsMember(d[2].type, c) \/ d[2] \in old

\* Only a revocation makes content keys unreadable to the members: until there
\* is one, the E-KEY of every content key is of the group in force, whoever is
\* granted meanwhile (grantAccess, createGroup).
GrantsKeepData ==
  \A d \in ckeys : d[2] \notin old => d[2].group = group[d[2].type]

\* Who is granted reads what is made under the grant: a consumer whose schedule
\* covers the day and that asks by its identity has, once it is answered, the
\* D-KEY to every C-KEY of the day, but for those made with an E-KEY given out
\* before a revocation (getDKey, onKeyEncrypted).
ReadersGetTheData ==
  [][reply'.what \in {"D-KEY", "none"} =>
       \A d \in ckeys, c \in Readers(reply'.type, reply'.slot) :
         /\ d[2].type = reply'.type /\ d[2].slot = reply'.slot /\ d[2] \notin old
         /\ Identity(reply'.for, c)
         => <<c, d[2]>> \in held']_vars

=============================================================================
