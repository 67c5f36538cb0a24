------------------------- MODULE AccessEpochsProofs -------------------------
(***************************************************************************)
(* The promise of AccessEpochs, for every set of consumers and data types. *)
(***************************************************************************)
EXTENDS AccessEpochs, TLAPS

\* Epochs are opened in increasing order, so that no key issued so far is of
\* an epoch that is still to be opened.
Inv ==
  /\ TypeOK
  /\ \A t \in DataType : epoch[t] <= last
  /\ \A h \in issued : 1 <= h[3] /\ h[3] <= last
  /\ HoldersAreGranted

LEMMA InitInv == Init => Inv
BY DEF Init, Inv, TypeOK, HoldersAreGranted

LEMMA GrantInv ==
  ASSUME Inv, NEW t \in DataType, NEW joined \in SUBSET Consumer,
         last' \in Nat, Grant(t, joined)
  PROVE  Inv'
<1>1. TypeOK'
  BY DEF Inv, TypeOK, Grant
<1>2. last <= last' /\ UNCHANGED issued
  BY DEF Inv, TypeOK, Grant
<1>3. \A u \in DataType : epoch'[u] = epoch[u] \/ (epoch'[u] = last' /\ last' > last)
  BY DEF Inv, TypeOK, Grant
<1>4. \A u \in DataType : granted[u] \subseteq granted'[u]
  BY DEF Inv, TypeOK, Grant
<1>5. \A h \in issued : h[2] \in DataType /\ h[3] \in Nat
  BY DEF Inv, TypeOK
<1>6. \A u \in DataType : epoch'[u] <= last'
  BY <1>2, <1>3 DEF Inv, TypeOK
<1>7. HoldersAreGranted'
  BY <1>2, <1>3, <1>4, <1>5 DEF Inv, TypeOK, HoldersAreGranted
<1>8. \A h \in issued' : 1 <= h[3] /\ h[3] <= last'
  BY <1>2, <1>5 DEF Inv, TypeOK
<1> QED
  BY <1>1, <1>6, <1>7, <1>8 DEF Inv

LEMMA RevokeInv ==
  ASSUME Inv, NEW t \in DataType, last' \in Nat, Revoke(t)
  PROVE  Inv'
<1>1. TypeOK'
  BY DEF Inv, TypeOK, Revoke
<1>2. \A h \in issued : h[2] \in DataType /\ h[3] \in Nat
  BY DEF Inv, TypeOK
<1>3. HoldersAreGranted'
  BY <1>2 DEF Inv, TypeOK, Revoke, HoldersAreGranted
<1>4. \A h \in issued' : 1 <= h[3] /\ h[3] <= last'
  BY <1>2 DEF Inv, TypeOK, Revoke
<1> QED
  BY <1>1, <1>3, <1>4 DEF Inv, TypeOK, Revoke

LEMMA IssueInv ==
  ASSUME Inv, NEW c \in Consumer, NEW t \in DataType, NEW e \in 1..last, Issue(c, t, e)
  PROVE  Inv'
<1>1. e \in Nat
  BY DEF Inv, TypeOK
<1> QED
  BY <1>1 DEF Inv, TypeOK, Issue, HoldersAreGranted

\* Holding the key of the current epoch takes a grant in that epoch: what was
\* issued before a revocation never opens what is encrypted after it.
THEOREM EpochsAreExclusive == Spec => []HoldersAreGranted
<1>1. Inv /\ [Next]_vars => Inv'
  <2> SUFFICES ASSUME Inv, [Next]_vars PROVE Inv'
    OBVIOUS
  <2>1. CASE UNCHANGED vars
    BY <2>1 DEF vars, Inv, TypeOK, HoldersAreGranted
  <2> QED
    BY <2>1, GrantInv, RevokeInv, IssueInv DEF Next
<1>2. Inv => HoldersAreGranted
  BY DEF Inv
<1> QED
  BY <1>1, <1>2, InitInv, PTL DEF Spec
=============================================================================
