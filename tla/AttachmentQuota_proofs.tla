----------------------- MODULE AttachmentQuota_proofs -----------------------
(***************************************************************************)
(* Proofs about AttachmentQuota, for any number of uploads, writers,       *)
(* listings and API processes, and any quota.                              *)
(***************************************************************************)
EXTENDS AttachmentQuota, TLAPS

Inv == TypeOK /\ ChecksAreCurrent /\ WithinQuota

\* Nothing is locked or measured at the start.
LEMMA InitInv == Init => Inv
  BY QuotaConstants DEF Init, Inv, TypeOK, ChecksAreCurrent, WithinQuota, Requests, Labels,
                        Inside

\* Every step preserves the invariant.
LEMMA InvStep == Inv /\ [Next]_vars => Inv'
<1> SUFFICES ASSUME Inv, [Next]_vars PROVE Inv'
  OBVIOUS
<1> USE QuotaConstants DEF Inv, Requests, Goto, LoopFree, LeaveLoop, Inside
<1>1. ASSUME NEW r \in Requests, Accept(r) PROVE Inv'
  BY <1>1 DEF Accept, TypeOK, ChecksAreCurrent, WithinQuota, Labels
<1>2. ASSUME NEW r \in Requests, Insert(r) PROVE Inv'
  <2>1. r \notin Uploads
    BY <1>2 DEF Insert, TypeOK
  <2> QED
    BY <1>2, <2>1 DEF Insert, TypeOK, ChecksAreCurrent, WithinQuota, Labels
<1>3. ASSUME NEW r \in Requests, EndWriter(r) PROVE Inv'
  BY <1>3 DEF EndWriter, Release, TypeOK, ChecksAreCurrent, WithinQuota, Labels
<1>4. ASSUME NEW u \in Uploads, Read(u) PROVE Inv'
  BY <1>4 DEF Read, TypeOK, ChecksAreCurrent, WithinQuota, Labels
<1>5. ASSUME NEW u \in Uploads, RefuseSize(u) PROVE Inv'
  BY <1>5 DEF RefuseSize, TypeOK, ChecksAreCurrent, WithinQuota, Labels
<1>6. ASSUME NEW u \in Uploads, Enter(u) PROVE Inv'
  BY <1>6 DEF Enter, TypeOK, ChecksAreCurrent, WithinQuota, Labels
<1>7. ASSUME NEW u \in Uploads, Lock(u) PROVE Inv'
  BY <1>7 DEF Lock, TypeOK, ChecksAreCurrent, WithinQuota, Labels
<1>8. ASSUME NEW u \in Uploads, Measure(u) PROVE Inv'
  BY <1>8 DEF Measure, Fits, TypeOK, ChecksAreCurrent, WithinQuota, Labels
<1>9. ASSUME NEW u \in Uploads, RefuseQuota(u) PROVE Inv'
  BY <1>9 DEF RefuseQuota, TypeOK, ChecksAreCurrent, WithinQuota, Labels
<1>10. ASSUME NEW u \in Uploads, Store(u) PROVE Inv'
  <2>1. size[u] \in 1..MaxBytes /\ stored' <= Quota /\ forUpdate = u /\ pc[u] = "store"
    BY <1>10 DEF Store, TypeOK, ChecksAreCurrent
  <2>2. \A v \in Uploads \ {u} : pc'[v] \notin {"measure", "store"}
    BY <1>10, <2>1 DEF Store, TypeOK, ChecksAreCurrent
  <2>3. TypeOK'
    BY <1>10, <2>1 DEF Store, Release, TypeOK, Labels
  <2>4. ChecksAreCurrent'
    BY <1>10, <2>1, <2>2 DEF Store, TypeOK, ChecksAreCurrent
  <2> QED
    BY <2>1, <2>3, <2>4 DEF WithinQuota
<1>11. ASSUME NEW r \in Requests, Lose(r) PROVE Inv'
  <2>1. CASE r \in Uploads
    BY <1>11, <2>1 DEF Lose, Release, TypeOK, ChecksAreCurrent, WithinQuota, Labels
  <2>2. CASE r \notin Uploads
    BY <1>11, <2>2 DEF Lose, Release, TypeOK, ChecksAreCurrent, WithinQuota, Labels
  <2> QED
    BY <2>1, <2>2
<1>12. ASSUME NEW r \in Requests, SendClose(r) PROVE Inv'
  BY <1>12 DEF SendClose, TypeOK, ChecksAreCurrent, WithinQuota, Labels
<1>13. ASSUME NEW r \in Requests, Close(r) PROVE Inv'
  BY <1>13 DEF Close, Release, TypeOK, ChecksAreCurrent, WithinQuota, Labels
<1>14. CASE UNCHANGED vars
  BY <1>14 DEF vars, TypeOK, ChecksAreCurrent, WithinQuota
<1> QED
  BY <1>1, <1>2, <1>3, <1>4, <1>5, <1>6, <1>7, <1>8, <1>9, <1>10, <1>11, <1>12, <1>13, <1>14
  DEF Next, Upload

\* The invariant holds in every reachable state.
LEMMA Invariance == Spec => []Inv
  BY InitInv, InvStep, PTL DEF Spec

\* However uploads interleave, on however many processes, the bytes stored
\* never pass the quota.
THEOREM QuotaHolds == Spec => []WithinQuota
<1>1. Inv => WithinQuota
  BY DEF Inv
<1> QED
  BY <1>1, Invariance, PTL

\* The check an upload made is still true when it stores its attachment.
THEOREM ChecksStayCurrent == Spec => []ChecksAreCurrent
<1>1. Inv => ChecksAreCurrent
  BY DEF Inv
<1> QED
  BY <1>1, Invariance, PTL

\* The stored bytes change only by a charge of the ledger.
LEMMA LedgerStep == Inv /\ [Next]_vars => [Ledger!Next]_stored
<1> SUFFICES ASSUME Inv, [Next]_vars PROVE [Ledger!Next]_stored
  OBVIOUS
<1>1. ASSUME NEW u \in Uploads, Store(u) PROVE Ledger!Next
  <2>1. size[u] \in 1..MaxBytes /\ stored + size[u] <= Quota /\ stored' = stored + size[u]
    BY <1>1 DEF Store, Inv, ChecksAreCurrent, Inside
  <2> QED
    BY <2>1 DEF Ledger!Next, Ledger!Charge
<1> QED
  BY <1>1 DEF Next, Upload, Accept, Insert, EndWriter, Read, RefuseSize, Enter, Lock, Measure,
              RefuseQuota, Lose, SendClose, Close, vars

\* Concurrent uploads implement the ledger: each attachment is charged in one
\* step, within the quota.
THEOREM UploadsImplementLedger == Spec => ImplementsLedger
<1>1. Init => Ledger!Init
  BY DEF Init, Ledger!Init
<1> QED
  BY <1>1, LedgerStep, Invariance, PTL DEF Spec, ImplementsLedger, Ledger!Spec
=============================================================================
