------------------------- MODULE ChangeDetector_proofs ------------------------
(***************************************************************************)
(* The change detector loses no change but by a read that fails, for every *)
(* set of contents and every number of writes and restarts: the detector   *)
(* with its two loops implements DetectorContract.                         *)
(*                                                                         *)
(* The refinement needs only TypeOK: WillRead is chosen so that each step  *)
(* decides by itself whether it takes a mark away.                         *)
(***************************************************************************)
EXTENDS ChangeDetector, TLAPS

LEMMA FingerprintType == ASSUME TypeOK PROVE Fingerprint \in 0 .. writes
<1>1. writes \in Nat BY DEF TypeOK
<1> QED BY <1>1 DEF Fingerprint

LEMMA InitTypeOK == Init => TypeOK
<1> SUFFICES ASSUME Init PROVE TypeOK OBVIOUS
<1>1. file \in Contents \cup {NoContent} BY DEF Init
<1>2. writes \in Nat \ {0} /\ starts \in Nat BY DEF Init
<1>3. event \in BOOLEAN /\ on \in BOOLEAN /\ flag \in BOOLEAN BY DEF Init
<1>4. lastSeen \in 0 .. writes /\ before \in 0 .. writes BY DEF Init
<1>5. pc = "wait" /\ seen = NoContent BY DEF Init
<1>6. baseline \in Contents \cup {NoContent} BY DEF Init
<1> QED BY <1>1, <1>2, <1>3, <1>4, <1>5, <1>6 DEF TypeOK

LEMMA StepTypeOK == TypeOK /\ [Next]_vars => TypeOK'
<1> SUFFICES ASSUME TypeOK, [Next]_vars PROVE TypeOK' OBVIOUS
<1> USE FingerprintType, ContentsAssumption
<1>1. CASE Write BY <1>1 DEF TypeOK, Write, loopVars
<1>2. CASE Remove BY <1>2 DEF TypeOK, Remove, loopVars
<1>3. CASE DeliverEvent BY <1>3 DEF TypeOK, DeliverEvent, fileVars, loopVars
<1>4. CASE MissEvent BY <1>4 DEF TypeOK, MissEvent, fileVars, loopVars
<1>5. CASE Poll BY <1>5 DEF TypeOK, Poll, fileVars, loopVars
<1>6. CASE Wake BY <1>6 DEF TypeOK, Wake, fileVars
<1>7. CASE WindowEnds BY <1>7 DEF TypeOK, WindowEnds, fileVars
<1>8. CASE Digest BY <1>8 DEF TypeOK, Digest, Digestible, fileVars
<1>9. CASE Compare BY <1>9 DEF TypeOK, Compare, SeenBefore, fileVars
<1>10. CASE OnChangeReturns BY <1>10 DEF TypeOK, OnChangeReturns, fileVars
<1>11. CASE SetBaseline BY <1>11 DEF TypeOK, SetBaseline, fileVars, loopVars
<1>12. CASE CheckNow BY <1>12 DEF TypeOK, CheckNow, fileVars, loopVars
<1>13. CASE Start BY <1>13 DEF TypeOK, Start, fileVars, loopVars
<1>14. CASE Stop BY <1>14 DEF TypeOK, Stop, fileVars
<1>15. CASE UNCHANGED vars BY <1>15 DEF TypeOK, vars, fileVars, loopVars
<1> QED
  BY <1>1, <1>2, <1>3, <1>4, <1>5, <1>6, <1>7, <1>8, <1>9, <1>10, <1>11,
     <1>12, <1>13, <1>14, <1>15 DEF Next, Loop

\* TypeOK is an invariant of the detector (ChangeDetector).
THEOREM DetectorTypeCorrect == Spec => []TypeOK
BY InitTypeOK, StepTypeOK, PTL DEF Spec

-----------------------------------------------------------------------------
\* The refinement.

LEMMA InitRefines == Init => Contract!ContractInit
BY DEF Init, Contract!ContractInit, WillRead

LEMMA StepRefines ==
  ASSUME TypeOK, [Next]_vars
  PROVE  [Contract!ContractNext]_(Contract!contractVars)
<1> USE FingerprintType, ContentsAssumption
<1> USE DEF TypeOK, WillRead, fileVars, loopVars
<1>1. CASE Write
  <2>1. on => WillRead' BY <1>1 DEF Write, Fingerprint
  <2>2. ~on => ~WillRead' BY <1>1 DEF Write
  <2> QED BY <1>1, <2>1, <2>2 DEF Write, Contract!Change, Contract!ContractNext
<1>2. CASE Remove
  BY <1>2 DEF Remove, Contract!Vanish, Contract!ContractNext
<1>3. CASE DeliverEvent
  BY <1>3 DEF DeliverEvent, Fingerprint, Contract!Mark, Contract!ContractNext, Contract!contractVars
<1>4. CASE MissEvent
  BY <1>4 DEF MissEvent, Fingerprint, Contract!contractVars
<1>5. CASE Poll
  BY <1>5 DEF Poll, Fingerprint, Contract!contractVars
<1>6. CASE Wake
  BY <1>6 DEF Wake, Fingerprint, Contract!contractVars
<1>7. CASE WindowEnds
  BY <1>7 DEF WindowEnds, Fingerprint, Contract!Read, Contract!ContractNext, Contract!contractVars
<1>8. CASE Digest
  <2>1. CASE Digestible /\ seen' = file
    BY <1>8, <2>1 DEF Digest, Digestible, Contract!Sample, Contract!ContractNext
  <2>2. CASE ~Digestible /\ seen' = seen /\ flag' = TRUE
    BY <1>8, <2>2 DEF Digest, Digestible, Contract!Miss, Contract!ContractNext
  <2>3. CASE DigestErrors /\ seen' = seen
    BY <1>8, <2>3 DEF Digest, Contract!Fail, Contract!ContractNext
  <2> QED BY <1>8, <2>1, <2>2, <2>3 DEF Digest
<1>9. CASE Compare
  BY <1>9 DEF Compare, SeenBefore, Fingerprint, Contract!Report, Contract!ContractNext
<1>10. CASE OnChangeReturns
  BY <1>10 DEF OnChangeReturns, Fingerprint, Contract!contractVars
<1>11. CASE SetBaseline
  BY <1>11 DEF SetBaseline, Fingerprint, Contract!Rebase, Contract!ContractNext
<1>12. CASE CheckNow
  BY <1>12 DEF CheckNow, Fingerprint, Contract!Mark, Contract!ContractNext
<1>13. CASE Start
  BY <1>13 DEF Start, Fingerprint, Contract!Start, Contract!ContractNext
<1>14. CASE Stop
  BY <1>14 DEF Stop, Contract!Stop, Contract!ContractNext
<1>15. CASE UNCHANGED vars
  BY <1>15 DEF vars, Fingerprint, Contract!contractVars
<1> QED
  BY <1>1, <1>2, <1>3, <1>4, <1>5, <1>6, <1>7, <1>8, <1>9, <1>10, <1>11,
     <1>12, <1>13, <1>14, <1>15 DEF Next, Loop

\* No change is left unread, whatever the watcher misses and however the loops
\* interleave, unless a read fails (ChangeDetector).
THEOREM DetectorImplementsContract == Spec => ImplementsContract
<1>1. TypeOK /\ [Next]_vars => [Contract!ContractNext]_(Contract!contractVars)
  BY StepRefines
<1> QED
  BY <1>1, InitRefines, DetectorTypeCorrect, PTL
     DEF Spec, ImplementsContract, Contract!ContractSafety

=============================================================================
