--------------------------- MODULE ManagerService ---------------------------
(***************************************************************************)
(* The manager as a node serves it: the request handlers of class Service  *)
(* (manager/src/service.cpp), which ManagerServiceNode routes on a node,   *)
(* over the operations of Manager.                                         *)
(*                                                                         *)
(* The paths they are routed under are no prefixes of each other, so that  *)
(* each request is one call of the node.  A handler runs to its end before *)
(* the next begins; only onAddIdentity waits, for the certificate it asks  *)
(* the entity for, and any request may be served while it does.            *)
(***************************************************************************)
EXTENDS Manager, Sequences

CONSTANTS
  ScheduleOf,  \* the schedule name that grant makes of a data type
  GrantWindow, \* the slots of the dates that onGrant gives
  MaxLog       \* bound: acknowledged requests that change the manager

ASSUME ServiceAssumption ==
  /\ ScheduleOf \in [DataType -> Schedule]
  /\ GrantWindow \in Windows
  /\ MaxLog \in Nat

\* The requests that changed the manager, as they were acknowledged.
Event ==
  [op : {"add"}, asked : Entity, name : Cert]
    \cup [op : {"remove"}, name : Entity]
    \cup [op : {"grant", "revoke"}, name : Entity, type : DataType]

VARIABLES
  up,     \* the process has not died of an uncaught exception
  adding, \* entities whose certificate onAddIdentity has asked for; several
          \* requests for one entity are satisfied by the same data
  log,    \* the events so far
  answer  \* whether the last request was answered with data or a Nack

serviceVars == <<vars, up, adding, log, answer>>

ServiceTypeOK ==
  /\ up \in BOOLEAN
  /\ adding \subseteq Entity
  /\ log \in Seq(Event)
  /\ answer \in {"none", "data", "nack"}

ServiceInit ==
  /\ Init
  /\ up = TRUE
  /\ adding = {}
  /\ log = << >>
  /\ answer = "none"

Logged(event) ==
  /\ Len(log) < MaxLog
  /\ log' = Append(log, event)

Answered(what) == up /\ answer' = what

-----------------------------------------------------------------------------
(***************************************************************************)
(* Identities                                                              *)
(***************************************************************************)

\* onAddIdentity: shows an interest for the entity's certificate.
ServeAdd(e) ==
  /\ up
  /\ adding' = adding \cup {e}
  /\ UNCHANGED <<vars, up, log, answer>>

\* onAddIdentityKey, with a certificate: registered under the certificate's
\* own name, not under the one that was asked for.
CertificateComes(e, c) ==
  /\ e \in adding
  /\ <<e, c>> \in Covers
  /\ Answered("data")
  /\ AddIdentity(c, c)
  /\ Logged([op |-> "add", asked |-> e, name |-> c])
  /\ adding' = adding \ {e}
  /\ UNCHANGED up

\* The interest is nacked, which the node only logs.
AddNacked(e) ==
  /\ up
  /\ e \in adding
  /\ adding' = adding \ {e}
  /\ UNCHANGED <<vars, up, log, answer>>

\* The interest times out and the node calls back with an application Nack, or
\* the data is not a certificate: the constructor of Certificate throws, and
\* nothing above the callback catches.
NoCertificateComes(e) ==
  /\ up
  /\ e \in adding
  /\ up' = FALSE
  /\ UNCHANGED <<vars, adding, log, answer>>

\* Altered: an identity that is being added is acknowledged and kept.
RemoveUnlessAdding(e) ==
  /\ Answered("data")
  /\ \/ e \notin adding /\ RemoveIdentity(e)
     \/ e \in adding /\ UNCHANGED vars
  /\ Logged([op |-> "remove", name |-> e])
  /\ UNCHANGED <<up, adding>>

\* onRemoveIdentity; as for grants, the node answers with empty data.
ServeRemove(e) ==
  /\ Answered("data")
  /\ RemoveIdentity(e)
  /\ Logged([op |-> "remove", name |-> e])
  /\ UNCHANGED <<up, adding>>

\* onGetIdentityKey.
ServeIdentity(e) ==
  /\ Answered(IF identities[e] = NoCert THEN "nack" ELSE "data")
  /\ UNCHANGED <<vars, up, adding, log>>

-----------------------------------------------------------------------------
(***************************************************************************)
(* Access                                                                  *)
(***************************************************************************)

\* onGrant: acknowledged whether or not the entity has a certificate.
ServeGrant(e, t) ==
  /\ Answered("data")
  /\ Grant(e, t, [name |-> ScheduleOf[t], window |-> GrantWindow])
  /\ Logged([op |-> "grant", name |-> e, type |-> t])
  /\ UNCHANGED <<up, adding>>

ServeRevoke(e, t) ==
  /\ Answered("data")
  /\ Revoke(e, t)
  /\ Logged([op |-> "revoke", name |-> e, type |-> t])
  /\ UNCHANGED <<up, adding>>

\* onRead: onGetEKey and onGetDKey.
ServeEKey(t, s) ==
  /\ Answered(IF HasKey(t, s) THEN "data" ELSE "nack")
  /\ GetEKey(t, s)
  /\ UNCHANGED <<up, adding, log>>

ServeDKey(e, t, s) ==
  /\ GetDKey(e, t, s)
  /\ Answered(IF reply'.what = "D-KEY" THEN "data" ELSE "nack")
  /\ UNCHANGED <<up, adding, log>>

\* A request that cannot be read.  Handlers find out before they change
\* anything: they answer with a Nack, or throw, and the node's onFailed answers
\* nobody.  Where they take an argument, or the time of an Exclude, without
\* asking whether it is there, the process may die as well, or goes on with
\* what it finds, as with one of the other requests.
ServeUnreadable ==
  /\ \/ \E what \in {"nack", "none"} : Answered(what) /\ UNCHANGED up
     \/ up /\ up' = FALSE /\ UNCHANGED answer
  /\ UNCHANGED <<vars, adding, log>>

\* The clock goes on while requests are served; no handler reads it.
TimePasses == Tick /\ UNCHANGED <<up, adding, log, answer>>

-----------------------------------------------------------------------------
ServiceNext ==
  \/ \E e \in Entity : \/ ServeAdd(e) \/ AddNacked(e) \/ NoCertificateComes(e)
                       \/ ServeRemove(e) \/ ServeIdentity(e)
  \/ \E e \in Entity, c \in Cert : CertificateComes(e, c)
  \/ \E e \in Entity, t \in DataType : ServeGrant(e, t) \/ ServeRevoke(e, t)
  \/ \E t \in DataType, s \in Slot : ServeEKey(t, s)
  \/ \E e \in Entity, t \in DataType, s \in Slot : ServeDKey(e, t, s)
  \/ ServeUnreadable
  \/ TimePasses

ServiceSpec == ServiceInit /\ [][ServiceNext]_serviceVars

-----------------------------------------------------------------------------
(***************************************************************************)
(* Properties                                                              *)
(***************************************************************************)

\* Before the n-th event, the last that was about c's certificate added it.
RegisteredBefore(c, n) ==
  \E i \in 1..(n - 1) :
    /\ log[i].op = "add" /\ log[i].name = c
    /\ \A m \in (i + 1)..(n - 1) : ~(log[m].op = "remove" /\ log[m].name = c)

\* The n-th event granted the type to c's registered certificate.
GrantedAt(c, t, n) ==
  /\ log[n].op = "grant" /\ log[n].name = c /\ log[n].type = t
  /\ RegisteredBefore(c, n)
RevokedAfter(t, n) ==
  \E m \in (n + 1)..Len(log) : log[m].op = "revoke" /\ log[m].type = t

\* Whoever holds a D-KEY was granted its data type, by a grant acknowledged
\* after its certificate was and before a removal of it was; and if the key is
\* the one in force, no revocation was acknowledged since: whatever requests
\* are served while certificates are on their way (service.cpp, manager.cpp).
HeldIsEarned ==
  \A h \in held :
    \E n \in 1..Len(log) :
      /\ GrantedAt(h[1], h[2].type, n)
      /\ h[2].group = group[h[2].type] => ~RevokedAfter(h[2].type, n)

\* The registry is what the acknowledged requests leave.  What is registered,
\* under the name that was asked for or the certificate's own, was added, and
\* no removal of that name was acknowledged since; and of every addition that
\* was acknowledged one of the two names is registered until it is removed
\* (onAddIdentityKey, onRemoveIdentity).
RemovedAfter(e, n) ==
  \E m \in (n + 1)..Len(log) : log[m].op = "remove" /\ log[m].name = e
AddedAs(e, n) == log[n].op = "add" /\ e \in {log[n].asked, log[n].name}

RegistryIsLastWord ==
  /\ \A e \in Entity : identities[e] # NoCert =>
       \E n \in 1..Len(log) :
         AddedAs(e, n) /\ log[n].name = identities[e] /\ ~RemovedAfter(e, n)
  /\ \A n \in 1..Len(log) : log[n].op = "add" =>
       \E e \in Entity : AddedAs(e, n) /\ (identities[e] # NoCert \/ RemovedAfter(e, n))

=============================================================================
