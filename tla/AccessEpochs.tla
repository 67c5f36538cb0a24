---------------------------- MODULE AccessEpochs ----------------------------
(***************************************************************************)
(* What the access manager promises its producers: the content of a data   *)
(* type is encrypted under the key of the type's current epoch, an epoch   *)
(* ends for good when access is revoked, and the key of the current epoch  *)
(* is handed to consumers granted in that epoch only.  Keys of earlier     *)
(* epochs may still be handed to whoever held them in their time.          *)
(***************************************************************************)
EXTENDS Naturals

CONSTANTS Consumer, DataType

VARIABLES
  epoch,    \* the current epoch of each data type, 0 while it has none
  last,     \* the latest epoch that was ever opened
  granted,  \* the consumers granted in the current epoch of each type
  issued    \* the keys handed out: <<consumer, type, epoch>>

vars == <<epoch, last, granted, issued>>

TypeOK ==
  /\ epoch \in [DataType -> Nat]
  /\ last \in Nat
  /\ granted \in [DataType -> SUBSET Consumer]
  /\ issued \subseteq Consumer \X DataType \X Nat

Init ==
  /\ epoch = [t \in DataType |-> 0]
  /\ last = 0
  /\ granted = [t \in DataType |-> {}]
  /\ issued = {}

\* A grant joins consumers to the current epoch, or opens one for them.
Grant(t, joined) ==
  /\ \/ epoch[t] # 0 /\ UNCHANGED <<epoch, last>>
     \/ /\ epoch[t] = 0
        /\ last' > last
        /\ epoch' = [epoch EXCEPT ![t] = last']
  /\ granted' = [granted EXCEPT ![t] = @ \cup joined]
  /\ UNCHANGED issued

\* A revocation ends the epoch for everybody.
Revoke(t) ==
  /\ last' >= last
  /\ epoch' = [epoch EXCEPT ![t] = 0]
  /\ granted' = [granted EXCEPT ![t] = {}]
  /\ UNCHANGED issued

Issue(c, t, e) ==
  /\ e = epoch[t] => c \in granted[t]
  /\ issued' = issued \cup {<<c, t, e>>}
  /\ UNCHANGED <<epoch, last, granted>>

Next ==
  \/ \E t \in DataType, joined \in SUBSET Consumer : last' \in Nat /\ Grant(t, joined)
  \/ \E t \in DataType : last' \in Nat /\ Revoke(t)
  \/ \E c \in Consumer, t \in DataType, e \in 1..last : Issue(c, t, e)

Spec == Init /\ [][Next]_vars

\* Whoever holds the key of a type's current epoch is granted in it: keys of
\* an earlier epoch do not carry over to the next (Manager::revokeAccess).
HoldersAreGranted ==
  \A h \in issued : h[3] = epoch[h[2]] => h[1] \in granted[h[2]]
=============================================================================
