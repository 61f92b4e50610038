-------------------------- MODULE PublicationProofs --------------------------
(***************************************************************************)
(* TLAPS proof that the abstract publication protocol gives consumers what *)
(* they rely on: it is a step from "the signal moves over items that are   *)
(* there" to "what the signal covers stays there".                         *)
(***************************************************************************)
EXTENDS Publication, Integers, TLAPS

(***************************************************************************)
(* No step breaks CoveredIsFresh: an item only moves to the signal's round *)
(* or beyond, or is known to be missed, and the signal only moves over     *)
(* items that are there.                                                   *)
(***************************************************************************)
LEMMA ItemStep ==
  ASSUME MaxStamp \in Nat, TypeOK, CoveredIsFresh, [Next]_vars
  PROVE  TypeOK' /\ CoveredIsFresh'
<1> USE DEF TypeOK, CoveredIsFresh, Stamps
<1>1. ASSUME NEW i \in Items, NEW v \in Stamps, NEW gone \in SUBSET Items, Rewrite(i, v, gone)
      PROVE  TypeOK' /\ CoveredIsFresh'
  <2>0. signal \in Int /\ v \in Int /\ \A j \in Items : data[j] \in Int
    OBVIOUS
  <2>1. \A j \in Items : data'[j] = IF j = i THEN v ELSE IF j \in gone THEN 0 ELSE data[j]
    BY <1>1 DEF Rewrite
  <2>2. TypeOK'
    <3>1. data' \in [Items -> 0 .. MaxStamp]
      BY <1>1, <2>1 DEF Rewrite
    <3> QED
      BY <1>1, <3>1 DEF Rewrite
  <2>3. CoveredIsFresh'
    <3> SUFFICES ASSUME NEW j \in covered PROVE j \in missed' \/ data'[j] >= signal
      BY <1>1 DEF Rewrite
    <3>1. CASE j = i
      BY <1>1, <2>0, <2>1, <3>1 DEF Rewrite
    <3>2. CASE j # i
      BY <1>1, <2>0, <2>1, <3>2 DEF Rewrite
    <3> QED
      BY <3>1, <3>2
  <2> QED
    BY <2>2, <2>3
<1>2. ASSUME NEW i \in Items, Miss(i) PROVE TypeOK' /\ CoveredIsFresh'
  BY <1>2 DEF Miss
<1>3. ASSUME NEW v \in Stamps, NEW items \in SUBSET Items, Advertise(v, items)
      PROVE  TypeOK' /\ CoveredIsFresh'
  BY <1>3 DEF Advertise
<1>4. CASE UNCHANGED vars
  BY <1>4 DEF vars
<1> QED
  BY <1>1, <1>2, <1>3, <1>4 DEF Next

(***************************************************************************)
(* Whatever implements Publication keeps the data of the advertised round  *)
(* in the maps until it is lost (poller.go:278).                           *)
(***************************************************************************)
THEOREM SignalIsTrustworthy ==
  ASSUME MaxStamp \in Nat
  PROVE  Spec => []CoveredIsFresh
<1>1. Init => TypeOK /\ CoveredIsFresh
  BY DEF Init, TypeOK, CoveredIsFresh, Stamps
<1>2. TypeOK /\ CoveredIsFresh /\ [Next]_vars => TypeOK' /\ CoveredIsFresh'
  BY ItemStep
<1> QED
  BY <1>1, <1>2, PTL DEF Spec
=============================================================================
