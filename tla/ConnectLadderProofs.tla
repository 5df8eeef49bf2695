------------------------ MODULE ConnectLadderProofs ------------------------
(***************************************************************************)
(* TLAPS proofs about ConnectLadder, for every set of sources and every    *)
(* saturation of the counters: type correctness, the inductive invariant,  *)
(* and the safety properties that follow from it.                          *)
(***************************************************************************)
EXTENDS ConnectLadder, TLAPS

USE DEF AUTH_CYCLES_FOR_MISMATCH

\* What the operators of the bond machine preserve.
LEMMA BondOperators ==
  ASSUME NEW b \in Bonds, NEW c
  PROVE  /\ NewBond \in Bonds
         /\ OnHandshakeSuccess(b) \in Bonds
         /\ OnCycleFailure(b, c) \in Bonds
         /\ OnBondDestroyed(b) \in Bonds
         /\ OnBondDestroyed(b).state = "PAIRING_REQUIRED"
         /\ b.state = "PAIRING_REQUIRED" =>
              OnCycleFailure(b, c).state = "PAIRING_REQUIRED"
         /\ c # "AUTH" => OnCycleFailure(b, c) = b
BY AuthCycleCapAssumption
   DEF Bonds, States, NewBond, OnHandshakeSuccess, OnCycleFailure, Degrades,
       StateAfterRejections, Counted, OnBondDestroyed

\* The saturating counter stays within its bound and never returns to zero.
LEMMA CountedBound ==
  ASSUME NEW n \in 0..AuthCycleCap
  PROVE  Counted(n) \in 0..AuthCycleCap /\ Counted(n) # 0
BY AuthCycleCapAssumption DEF Counted

\* A set-up starts from values of the right types.
LEMMA TypeInit == Init => TypeOK
<1> SUFFICES ASSUME Init PROVE TypeOK
  OBVIOUS
<1>1. bond \in Bonds
  BY AuthCycleCapAssumption DEF Init, NewBond, Bonds, States
<1>2. affinity \in MaybeSource /\ hint \in MaybeSource
  BY DEF Init, StartAffinity, StartHint, MaybeSource
<1>3. device \in MaybeSource
  BY DEF Init, StartAffinity, StartHint, StartDevices, MaybeSource
<1>4. migrating \in BOOLEAN
  BY DEF Init, StartMigrating
<1>5. authSeen = FALSE /\ connected = FALSE /\ unpaired = FALSE
  BY DEF Init
<1>6. wipeSaved = FALSE
  BY DEF Init
<1>7. /\ pc = "idle" /\ cycleSource = None /\ lastClass = "none"
      /\ sourceState = None /\ diskSource = None /\ diskBond = None
  BY DEF Init
<1>8. configured \in Sources \cup {Automatic}
  BY DEF Init
<1>9. rejections = 0 /\ wipes = 0 /\ proven = {}
  BY DEF Init
<1>10. /\ pc \in Control /\ lastClass \in FailureClasses \cup {"none"}
       /\ cycleSource \in MaybeSource
       /\ sourceState \in MaybeSource /\ diskSource \in MaybeSource
       /\ diskBond \in Bonds \cup {None}
  BY <1>7 DEF Control, MaybeSource, FailureClasses
<1>11. rejections \in 0..AuthCycleCap /\ wipes \in Nat /\ proven \subseteq Sources
  BY <1>9, AuthCycleCapAssumption
<1> QED
  BY <1>1, <1>2, <1>3, <1>4, <1>5, <1>6, <1>8, <1>10, <1>11 DEF TypeOK
----------------------------------------------------------------------------
(* Every step keeps the types; a frozen source is a real one (SourcesInv)   *)
(* when a handshake succeeds over it.                                       *)
LEMMA TypeNext == TypeOK /\ SourcesInv /\ [Next]_vars => TypeOK'
<1> SUFFICES ASSUME TypeOK, SourcesInv, [Next]_vars PROVE TypeOK'
  OBVIOUS
<1> USE DEF TypeOK, MaybeSource
<1>1. CASE UNCHANGED vars
  BY <1>1 DEF vars, cycleVars, sourceVars, bondVars, diskVars, historyVars
<1>2. ASSUME NEW option \in Sources \cup {Automatic}, Restart(option)
      PROVE  TypeOK'
  <2>1. affinity' \in MaybeSource
    BY <1>2 DEF Restart, StartAffinity
  <2>2. hint' \in MaybeSource
    BY <1>2 DEF Restart, StartHint
  <2>3. device' \in MaybeSource
    BY <1>2, <2>1 DEF Restart, StartAffinity, StartHint, StartDevices
  <2>4. bond' \in Bonds
    <3>1. NewBond \in Bonds
      BY BondOperators
    <3> QED
      BY <1>2, <3>1 DEF Restart, Restore
  <2>5. migrating' \in BOOLEAN
    BY <1>2 DEF Restart, StartMigrating
  <2> QED
    BY <1>2, <2>1, <2>2, <2>3, <2>4, <2>5 DEF Restart, Control
<1>3. CASE SaveBond
  BY <1>3 DEF SaveBond, cycleVars, sourceVars, bondVars
<1>4. CASE SaveSource
  BY <1>4 DEF SaveSource, cycleVars, sourceVars, bondVars, historyVars
<1>5. ASSUME NEW source \in Sources, SetBleDevice(source) PROVE TypeOK'
  BY <1>5 DEF SetBleDevice, cycleVars, bondVars, diskVars, historyVars
<1>6. CASE StartCycle
  <2>1. device' \in MaybeSource
    BY <1>6 DEF StartCycle
  <2>2. pc' \in Control
    BY <1>6 DEF StartCycle, Control, Rungs
  <2>3. authSeen' \in BOOLEAN
    BY <1>6 DEF StartCycle
  <2>4. cycleSource' = device'
    BY <1>6 DEF StartCycle
  <2>5. UNCHANGED <<lastClass, connected, affinity, hint, migrating,
                    sourceState, bondVars, diskVars, historyVars>>
    BY <1>6 DEF StartCycle
  <2> QED
    BY <2>1, <2>2, <2>3, <2>4, <2>5 DEF bondVars, diskVars, historyVars
<1>7. ASSUME NEW failureClass \in {"AUTH", "TIMEOUT", "LINK"},
             RungRaisesClassified(failureClass)
      PROVE  TypeOK'
  <2>1. rejections' \in 0..AuthCycleCap
    BY <1>7, CountedBound DEF RungRaisesClassified
  <2> QED
    BY <1>7, <2>1
       DEF RungRaisesClassified, AfterFailedRung, Control, Rungs,
           FailureClasses, sourceVars, bondVars, diskVars
<1>8. CASE RungHandshakeFails
  BY <1>8 DEF RungHandshakeFails, AfterFailedRung, Control, Rungs,
              FailureClasses, sourceVars, bondVars, diskVars, historyVars
<1>9. CASE RungDropsAtOnce
  BY <1>9 DEF RungDropsAtOnce, AfterFailedRung, Control, Rungs,
              sourceVars, bondVars, diskVars, historyVars
<1>10. CASE RungRaisesInHandshake
  BY <1>10 DEF RungRaisesInHandshake, Control,
               sourceVars, bondVars, diskVars, historyVars
<1>11. CASE RungSucceeds
  <2>1. cycleSource \in Sources
    BY <1>11 DEF RungSucceeds, SourcesInv
  <2>2. bond' \in Bonds
    BY <1>11, BondOperators DEF RungSucceeds
  <2> QED
    BY <1>11, <2>1, <2>2 DEF RungSucceeds, Control, diskVars
<1>12. ASSUME NEW outcome \in {"CONFIRMED", "ATTEMPTED_UNCONFIRMED", "NOT_SENT"},
              ProxyUnpair(outcome)
       PROVE  TypeOK'
  <2>1. pc' \in Control
    BY <1>12 DEF ProxyUnpair, AfterProxyUnpair, Control, Rungs
  <2>2. CASE RecordAttempt
    BY <2>1, <2>2, BondOperators DEF RecordAttempt, sourceVars, diskVars
  <2>3. CASE outcome = "NOT_SENT"
    BY <1>12, <2>1, <2>3
       DEF ProxyUnpair, sourceVars, bondVars, diskVars, historyVars
  <2> QED
    BY <1>12, <2>2, <2>3 DEF ProxyUnpair
<1>13. CASE FallbackUnpair
  BY <1>13, BondOperators
     DEF FallbackUnpair, RecordAttempt, Control, Rungs, sourceVars, diskVars
<1>14. CASE FallbackNotSent
  BY <1>14 DEF FallbackNotSent, Control, sourceVars, bondVars, diskVars,
               historyVars
<1>15. CASE CycleFails
  BY <1>15, BondOperators
     DEF CycleFails, ReleaseCycle, Control, diskVars, historyVars
<1>16. CASE CycleSucceeds
  BY <1>16 DEF CycleSucceeds, ReleaseCycle, Control, bondVars, diskVars,
               historyVars
<1>17. CASE ReadsRaise
  <2>1. connected' \in BOOLEAN
    BY <1>17 DEF ReadsRaise
  <2>2. pc' \in Control
    BY <1>17 DEF ReadsRaise, Control
  <2>3. UNCHANGED <<cycleSource, authSeen, lastClass, sourceVars, bondVars,
                    diskVars, historyVars>>
    BY <1>17 DEF ReadsRaise
  <2> QED
    BY <2>1, <2>2, <2>3 DEF sourceVars, bondVars, diskVars, historyVars
<1>18. CASE LinkDrops
  <2>1. connected' \in BOOLEAN
    BY <1>18 DEF LinkDrops
  <2>2. UNCHANGED <<cycleVars, sourceVars, bondVars, diskVars, historyVars>>
    BY <1>18 DEF LinkDrops
  <2> QED
    BY <2>1, <2>2
       DEF cycleVars, sourceVars, bondVars, diskVars, historyVars
<1>19. ASSUME ForceRepair PROVE TypeOK'
  <2>1. /\ connected' \in BOOLEAN
        /\ UNCHANGED <<bondVars, rejections, wipes, proven, wipeSaved>>
    BY <1>19 DEF ForceRepair
  <2>3. CASE UNCHANGED <<cycleVars, sourceVars, diskVars>>
    BY <2>1, <2>3 DEF cycleVars, sourceVars, bondVars, diskVars
  <2>4. CASE ReleaseCycle
    BY <2>1, <2>4 DEF ReleaseCycle, Control, bondVars, diskVars
  <2> QED
    BY <1>19, <2>3, <2>4 DEF ForceRepair
<1> QED
  BY <1>1, <1>2, <1>3, <1>4, <1>5, <1>6, <1>7, <1>8, <1>9, <1>10, <1>11,
     <1>12, <1>13, <1>14, <1>15, <1>16, <1>17, <1>18, <1>19 DEF Next
----------------------------------------------------------------------------
(* The inductive invariant, one part at a time.  Each part is stable under  *)
(* every step given the types and the parts it leans on.                    *)

\* A fresh installation satisfies every part of the invariant.
LEMMA LadderInit == Init => LadderInv
<1> SUFFICES ASSUME Init PROVE LadderInv
  OBVIOUS
<1>1. SourcesInv
  BY SourcesAssumption
     DEF Init, SourcesInv, StartAffinity, StartMigrating, StartHint,
         StartDevices, MaybeSource, Rungs
<1>2. ProvenInv
  BY DEF Init, ProvenInv, StartAffinity, StartMigrating
<1>3. LatchInv
  BY DEF Init, LatchInv, LatchedMeansPairingRequired
<1>4. InnocenceInv
  BY DEF Init, InnocenceInv, NewBond
<1>5. SavedInv
  BY DEF Init, SavedInv
<1> QED
  BY <1>1, <1>2, <1>3, <1>4, <1>5 DEF LadderInv

\* The steps of a set-up: the sources start out consistent.
LEMMA SourcesRestart ==
  ASSUME TypeOK, NEW option \in Sources \cup {Automatic}, Restart(option)
  PROVE  SourcesInv'
BY SourcesAssumption
   DEF TypeOK, Restart, SourcesInv, StartAffinity, StartMigrating, StartHint,
       StartDevices, MaybeSource, Rungs

\* No step lets the frozen source, the device or the hint leave the owner.
LEMMA SourcesNext == TypeOK /\ SourcesInv /\ [Next]_vars => SourcesInv'
<1> SUFFICES ASSUME TypeOK, SourcesInv, [Next]_vars PROVE SourcesInv'
  OBVIOUS
<1> USE DEF SourcesInv, Rungs
<1>1. CASE UNCHANGED vars
  BY <1>1 DEF vars, cycleVars, sourceVars
<1>2. ASSUME NEW option \in Sources \cup {Automatic}, Restart(option)
      PROVE  SourcesInv'
  BY <1>2, SourcesRestart
<1>3. CASE SaveBond
  BY <1>3 DEF SaveBond, cycleVars, sourceVars
<1>4. CASE SaveSource
  BY <1>4 DEF SaveSource, cycleVars, sourceVars
<1>5. ASSUME NEW source \in Sources, SetBleDevice(source) PROVE SourcesInv'
  BY <1>5, SourcesAssumption DEF SetBleDevice, Adopts, Preferred, cycleVars
<1>6. CASE StartCycle
  BY <1>6 DEF StartCycle
<1>7. ASSUME NEW failureClass \in {"AUTH", "TIMEOUT", "LINK"},
             RungRaisesClassified(failureClass)
      PROVE  SourcesInv'
  BY <1>7 DEF RungRaisesClassified, AfterFailedRung, MayUnpair,
              SuspectStaleBond, sourceVars
<1>8. CASE RungHandshakeFails
  BY <1>8 DEF RungHandshakeFails, AfterFailedRung, MayUnpair,
              SuspectStaleBond, sourceVars
<1>9. CASE RungDropsAtOnce
  BY <1>9 DEF RungDropsAtOnce, AfterFailedRung, MayUnpair,
              SuspectStaleBond, sourceVars
<1>10. CASE RungRaisesInHandshake
  BY <1>10 DEF RungRaisesInHandshake, sourceVars
<1>11. CASE RungSucceeds
  BY <1>11 DEF RungSucceeds
<1>12. ASSUME NEW outcome \in {"CONFIRMED", "ATTEMPTED_UNCONFIRMED", "NOT_SENT"},
              ProxyUnpair(outcome)
       PROVE  SourcesInv'
  BY <1>12 DEF ProxyUnpair, AfterProxyUnpair, RecordAttempt, sourceVars
<1>13. CASE FallbackUnpair
  BY <1>13 DEF FallbackUnpair, RecordAttempt, sourceVars
<1>14. CASE FallbackNotSent
  BY <1>14 DEF FallbackNotSent, sourceVars
<1>15. CASE CycleFails
  BY <1>15 DEF CycleFails, ReleaseCycle, HintRejected
<1>16. CASE CycleSucceeds
  BY <1>16 DEF CycleSucceeds, ReleaseCycle, HintRejected
<1>17. CASE ReadsRaise
  BY <1>17 DEF ReadsRaise, sourceVars
<1>18. CASE LinkDrops
  BY <1>18 DEF LinkDrops, cycleVars, sourceVars
<1>19. ASSUME ForceRepair PROVE SourcesInv'
  <2>1. CASE UNCHANGED <<cycleVars, sourceVars, diskVars>>
    BY <2>1 DEF cycleVars, sourceVars
  <2>2. CASE ReleaseCycle
    BY <2>2 DEF ReleaseCycle, HintRejected
  <2> QED
    BY <1>19, <2>1, <2>2 DEF ForceRepair
<1> QED
  BY <1>1, <1>2, <1>3, <1>4, <1>5, <1>6, <1>7, <1>8, <1>9, <1>10, <1>11,
     <1>12, <1>13, <1>14, <1>15, <1>16, <1>17, <1>18, <1>19 DEF Next

\* No step makes a source the owner that never completed a handshake.
LEMMA ProvenNext ==
  TypeOK /\ SourcesInv /\ ProvenInv /\ [Next]_vars => ProvenInv'
<1> SUFFICES ASSUME TypeOK, SourcesInv, ProvenInv, [Next]_vars PROVE ProvenInv'
  OBVIOUS
<1> USE DEF ProvenInv
<1>1. CASE UNCHANGED vars
  BY <1>1 DEF vars, sourceVars, diskVars, historyVars
<1>2. ASSUME NEW option \in Sources \cup {Automatic}, Restart(option)
      PROVE  ProvenInv'
  BY <1>2 DEF Restart, StartAffinity, StartMigrating
<1>3. CASE SaveBond
  BY <1>3 DEF SaveBond, sourceVars
<1>4. CASE SaveSource
  BY <1>4 DEF SaveSource, sourceVars, historyVars
<1>5. ASSUME NEW source \in Sources, SetBleDevice(source) PROVE ProvenInv'
  BY <1>5 DEF SetBleDevice, diskVars, historyVars
<1>6. CASE StartCycle
  BY <1>6 DEF StartCycle, diskVars, historyVars
<1>7. ASSUME NEW failureClass \in {"AUTH", "TIMEOUT", "LINK"},
             RungRaisesClassified(failureClass)
      PROVE  ProvenInv'
  BY <1>7 DEF RungRaisesClassified, sourceVars, diskVars
<1>8. CASE RungHandshakeFails \/ RungDropsAtOnce \/ RungRaisesInHandshake
  BY <1>8 DEF RungHandshakeFails, RungDropsAtOnce, RungRaisesInHandshake,
              sourceVars, diskVars, historyVars
<1>9. CASE RungSucceeds
  BY <1>9 DEF RungSucceeds, SourcesInv, diskVars
<1>10. ASSUME NEW outcome \in {"CONFIRMED", "ATTEMPTED_UNCONFIRMED", "NOT_SENT"},
              ProxyUnpair(outcome)
       PROVE  ProvenInv'
  BY <1>10 DEF ProxyUnpair, RecordAttempt, sourceVars, diskVars, historyVars
<1>11. CASE FallbackUnpair \/ FallbackNotSent
  BY <1>11 DEF FallbackUnpair, FallbackNotSent, RecordAttempt, sourceVars,
               diskVars, historyVars
<1>12. CASE CycleFails \/ CycleSucceeds
  BY <1>12 DEF CycleFails, CycleSucceeds, ReleaseCycle, diskVars, historyVars
<1>13. CASE ReadsRaise \/ LinkDrops
  BY <1>13 DEF ReadsRaise, LinkDrops, sourceVars, diskVars, historyVars
<1>14. ASSUME ForceRepair PROVE ProvenInv'
  BY <1>14 DEF ForceRepair, ReleaseCycle, sourceVars, diskVars
<1> QED
  BY <1>1, <1>2, <1>3, <1>4, <1>5, <1>6, <1>7, <1>8, <1>9, <1>10, <1>11,
     <1>12, <1>13, <1>14 DEF Next

\* No step separates the latch, the count of wipes and the bond machine.
LEMMA LatchNext == TypeOK /\ LatchInv /\ [Next]_vars => LatchInv'
<1> SUFFICES ASSUME TypeOK, LatchInv, [Next]_vars PROVE LatchInv'
  OBVIOUS
<1> USE DEF LatchInv, LatchedMeansPairingRequired
<1>1. CASE UNCHANGED vars
  BY <1>1 DEF vars, cycleVars, bondVars, historyVars
<1>2. ASSUME NEW option \in Sources \cup {Automatic}, Restart(option)
      PROVE  LatchInv'
  BY <1>2 DEF Restart
<1>3. CASE SaveBond
  BY <1>3 DEF SaveBond, cycleVars, bondVars
<1>4. CASE SaveSource
  BY <1>4 DEF SaveSource, cycleVars, bondVars, historyVars
<1>5. ASSUME NEW source \in Sources, SetBleDevice(source) PROVE LatchInv'
  BY <1>5 DEF SetBleDevice, cycleVars, bondVars, historyVars
<1>6. CASE StartCycle
  BY <1>6 DEF StartCycle, bondVars, historyVars
<1>7. ASSUME NEW failureClass \in {"AUTH", "TIMEOUT", "LINK"},
             RungRaisesClassified(failureClass)
      PROVE  LatchInv'
  BY <1>7 DEF RungRaisesClassified, AfterFailedRung, MayUnpair, LatchOpen,
              Rungs, bondVars
<1>8. CASE RungHandshakeFails \/ RungDropsAtOnce
  BY <1>8 DEF RungHandshakeFails, RungDropsAtOnce, AfterFailedRung, MayUnpair,
              LatchOpen, Rungs, bondVars, historyVars
<1>9. CASE RungRaisesInHandshake
  BY <1>9 DEF RungRaisesInHandshake, bondVars, historyVars
<1>10. CASE RungSucceeds
  BY <1>10 DEF RungSucceeds
<1>11. ASSUME NEW outcome \in {"CONFIRMED", "ATTEMPTED_UNCONFIRMED", "NOT_SENT"},
              ProxyUnpair(outcome)
       PROVE  LatchInv'
  BY <1>11, BondOperators
     DEF ProxyUnpair, AfterProxyUnpair, RecordAttempt, TypeOK, bondVars,
         historyVars
<1>12. CASE FallbackUnpair
  BY <1>12, BondOperators DEF FallbackUnpair, RecordAttempt, TypeOK
<1>13. CASE FallbackNotSent
  BY <1>13 DEF FallbackNotSent, bondVars, historyVars
<1>14. CASE CycleFails
  BY <1>14, BondOperators DEF CycleFails, ReleaseCycle, TypeOK, historyVars
<1>15. CASE CycleSucceeds
  BY <1>15 DEF CycleSucceeds, ReleaseCycle, bondVars, historyVars
<1>16. CASE ReadsRaise \/ LinkDrops
  BY <1>16 DEF ReadsRaise, LinkDrops, cycleVars, bondVars, historyVars
<1>17. ASSUME ForceRepair PROVE LatchInv'
  BY <1>17 DEF ForceRepair, ReleaseCycle, cycleVars, bondVars
<1> QED
  BY <1>1, <1>2, <1>3, <1>4, <1>5, <1>6, <1>7, <1>8, <1>9, <1>10, <1>11,
     <1>12, <1>13, <1>14, <1>15, <1>16, <1>17 DEF Next

\* No step but a rejection speaks against the bond.
LEMMA InnocenceNext ==
  TypeOK /\ LatchInv /\ InnocenceInv /\ [Next]_vars => InnocenceInv'
<1> SUFFICES ASSUME TypeOK, LatchInv, InnocenceInv, [Next]_vars
             PROVE  InnocenceInv'
  OBVIOUS
<1> USE DEF InnocenceInv
<1>1. CASE UNCHANGED vars
  BY <1>1 DEF vars, cycleVars, bondVars, diskVars, historyVars
<1>2. ASSUME NEW option \in Sources \cup {Automatic}, Restart(option)
      PROVE  InnocenceInv'
  BY <1>2 DEF Restart, Restore, NewBond
<1>3. CASE SaveBond
  BY <1>3 DEF SaveBond, cycleVars, bondVars
<1>4. CASE SaveSource
  BY <1>4 DEF SaveSource, cycleVars, bondVars, historyVars
<1>5. ASSUME NEW source \in Sources, SetBleDevice(source) PROVE InnocenceInv'
  BY <1>5 DEF SetBleDevice, cycleVars, bondVars, diskVars, historyVars
<1>6. CASE StartCycle
  BY <1>6 DEF StartCycle, bondVars, diskVars, historyVars
<1>7. ASSUME NEW failureClass \in {"AUTH", "TIMEOUT", "LINK"},
             RungRaisesClassified(failureClass)
      PROVE  InnocenceInv'
  <2>1. CASE failureClass = "AUTH"
    <3>1. rejections' # 0
      BY <1>7, <2>1, CountedBound DEF RungRaisesClassified, TypeOK
    <3> QED
      BY <3>1
  <2>2. CASE failureClass # "AUTH"
    BY <1>7, <2>2
       DEF RungRaisesClassified, SeesRejection, AfterFailedRung, MayUnpair,
           SuspectStaleBond, AllowUnpair, Rungs, bondVars, diskVars
  <2> QED
    BY <2>1, <2>2
<1>8. CASE RungHandshakeFails
  BY <1>8 DEF RungHandshakeFails, AfterFailedRung, MayUnpair, Rungs,
              SuspectStaleBond, AllowUnpair, bondVars, diskVars, historyVars
<1>9. CASE RungDropsAtOnce
  BY <1>9 DEF RungDropsAtOnce, AfterFailedRung, MayUnpair, Rungs,
              SuspectStaleBond, AllowUnpair, bondVars, diskVars, historyVars
<1>10. CASE RungRaisesInHandshake
  BY <1>10 DEF RungRaisesInHandshake, bondVars, diskVars, historyVars
<1>11. CASE RungSucceeds
  BY <1>11 DEF RungSucceeds, OnHandshakeSuccess, diskVars
<1>12. ASSUME NEW outcome \in {"CONFIRMED", "ATTEMPTED_UNCONFIRMED", "NOT_SENT"},
              ProxyUnpair(outcome)
       PROVE  InnocenceInv'
  BY <1>12 DEF ProxyUnpair, RecordAttempt, historyVars
<1>13. CASE FallbackUnpair
  BY <1>13 DEF FallbackUnpair, RecordAttempt
<1>14. CASE FallbackNotSent
  BY <1>14 DEF FallbackNotSent, bondVars, diskVars, historyVars
<1>15. CASE CycleFails
  <2>1. rejections = 0 => CycleClass # "AUTH"
    BY DEF CycleClass
  <2> QED
    BY <1>15, <2>1, BondOperators
       DEF CycleFails, ReleaseCycle, TypeOK, diskVars, historyVars
<1>16. CASE CycleSucceeds
  BY <1>16 DEF CycleSucceeds, ReleaseCycle, bondVars, diskVars, historyVars
<1>17. CASE ReadsRaise \/ LinkDrops
  BY <1>17 DEF ReadsRaise, LinkDrops, cycleVars, bondVars, diskVars, historyVars
<1>18. ASSUME ForceRepair
       PROVE  InnocenceInv'
  BY <1>18 DEF ForceRepair, ReleaseCycle, cycleVars, bondVars, diskVars
<1> QED
  BY <1>1, <1>2, <1>3, <1>4, <1>5, <1>6, <1>7, <1>8, <1>9, <1>10, <1>11,
     <1>12, <1>13, <1>14, <1>15, <1>16, <1>17, <1>18 DEF Next

\* No step but a handshake takes back a wipe that is on disk.
LEMMA SavedNext == TypeOK /\ SavedInv /\ [Next]_vars => SavedInv'
<1> SUFFICES ASSUME TypeOK, SavedInv, [Next]_vars PROVE SavedInv'
  OBVIOUS
<1> USE DEF SavedInv
<1>1. CASE UNCHANGED vars
  BY <1>1 DEF vars, cycleVars, sourceVars, bondVars, diskVars, historyVars
<1>2. ASSUME NEW option \in Sources \cup {Automatic}, Restart(option)
      PROVE  SavedInv'
  BY <1>2 DEF Restart, Restore
<1>3. CASE SaveBond
  <2>1. bond # None
    BY NoneAssumption DEF TypeOK
  <2> QED
    BY <1>3, <2>1 DEF SaveBond, cycleVars, sourceVars, bondVars
<1>4. CASE SaveSource
  BY <1>4 DEF SaveSource, cycleVars, sourceVars, bondVars, historyVars
<1>5. ASSUME NEW source \in Sources, SetBleDevice(source) PROVE SavedInv'
  BY <1>5 DEF SetBleDevice, cycleVars, bondVars, diskVars, historyVars
<1>6. CASE StartCycle
  BY <1>6 DEF StartCycle, bondVars, diskVars, historyVars
<1>7. ASSUME NEW failureClass \in {"AUTH", "TIMEOUT", "LINK"},
             RungRaisesClassified(failureClass)
      PROVE  SavedInv'
  BY <1>7 DEF RungRaisesClassified, AfterFailedRung, MayUnpair, Rungs,
              SuspectStaleBond, AllowUnpair, sourceVars, bondVars, diskVars
<1>8. CASE RungHandshakeFails \/ RungDropsAtOnce
  BY <1>8 DEF RungHandshakeFails, RungDropsAtOnce, AfterFailedRung, MayUnpair,
              Rungs, SuspectStaleBond, AllowUnpair, sourceVars, bondVars,
              diskVars, historyVars
<1>9. CASE RungRaisesInHandshake
  BY <1>9 DEF RungRaisesInHandshake, bondVars, diskVars, historyVars
<1>10. CASE RungSucceeds
  BY <1>10 DEF RungSucceeds
<1>11. ASSUME NEW outcome \in {"CONFIRMED", "ATTEMPTED_UNCONFIRMED", "NOT_SENT"},
              ProxyUnpair(outcome)
       PROVE  SavedInv'
  BY <1>11, BondOperators
     DEF ProxyUnpair, AfterProxyUnpair, RecordAttempt, TypeOK, sourceVars,
         bondVars, diskVars, historyVars
<1>12. CASE FallbackUnpair
  BY <1>12, BondOperators DEF FallbackUnpair, RecordAttempt, TypeOK, diskVars
<1>13. CASE FallbackNotSent
  BY <1>13 DEF FallbackNotSent, bondVars, diskVars, historyVars
<1>14. CASE CycleFails
  BY <1>14, BondOperators
     DEF CycleFails, ReleaseCycle, TypeOK, diskVars, historyVars
<1>15. CASE CycleSucceeds
  BY <1>15 DEF CycleSucceeds, ReleaseCycle, bondVars, diskVars, historyVars
<1>16. CASE ReadsRaise \/ LinkDrops
  BY <1>16 DEF ReadsRaise, LinkDrops, cycleVars, sourceVars, bondVars,
               diskVars, historyVars
<1>17. ASSUME ForceRepair PROVE SavedInv'
  BY <1>17 DEF ForceRepair, ReleaseCycle, cycleVars, sourceVars, bondVars,
               diskVars
<1> QED
  BY <1>1, <1>2, <1>3, <1>4, <1>5, <1>6, <1>7, <1>8, <1>9, <1>10, <1>11,
     <1>12, <1>13, <1>14, <1>15, <1>16, <1>17 DEF Next
----------------------------------------------------------------------------
IInv == TypeOK /\ LadderInv

(* The invariant is inductive.                                              *)
LEMMA Inductive == IInv /\ [Next]_vars => IInv'
BY TypeNext, SourcesNext, ProvenNext, LatchNext, InnocenceNext, SavedNext
   DEF IInv, LadderInv

(* The inductive invariant of the ladder (connect() and the bond machine)   *)
(* holds in every reachable state; the theorems below follow from it.       *)
THEOREM LadderInvariant == Spec => []IInv
<1>1. Init => IInv
  BY TypeInit, LadderInit DEF IInv
<1> QED
  BY <1>1, Inductive, PTL DEF Spec

(* Every variable of the ladder keeps its type.                             *)
THEOREM TypeCorrect == Spec => []TypeOK
<1>1. IInv => TypeOK
  BY DEF IInv
<1> QED
  BY <1>1, LadderInvariant, PTL

(* However many timeouts, link drops, failed handshakes, restarts and       *)
(* changes of the source option happen, over any set of sources: a bond     *)
(* whose machine has never rejected an SMP exchange is neither degraded nor *)
(* cleared by bond_state.py and the ladder of ble_client.py.                *)
THEOREM HealthyBondIsSafe == Spec => []NoRejectionNoHarm
<1>1. IInv => NoRejectionNoHarm
  BY DEF IInv, LadderInv, InnocenceInv, LatchInv, NoRejectionNoHarm
<1> QED
  BY <1>1, LadderInvariant, PTL

(* Between two good handshakes of one set-up at most one destructive        *)
(* request leaves Home Assistant (_try_unpair and its episode latch).       *)
THEOREM AtMostOneWipe == Spec => []OneWipePerEpisode
<1>1. IInv => OneWipePerEpisode
  BY DEF IInv, LadderInv, LatchInv, OneWipePerEpisode
<1> QED
  BY <1>1, LadderInvariant, PTL

(* The episode latch is never set without the bond machine knowing that the *)
(* bond is gone.                                                            *)
THEOREM LatchAgrees == Spec => []LatchedMeansPairingRequired
<1>1. IInv => LatchedMeansPairingRequired
  BY DEF IInv, LadderInv, LatchInv
<1> QED
  BY <1>1, LadderInvariant, PTL

(* A BlueZ hint whose source rejected the machine is gone when its cycle is *)
(* over (the finally of connect()).                                         *)
THEOREM HintIsProvisional == Spec => []RejectedHintIsDropped
<1>1. IInv => RejectedHintIsDropped
  BY DEF IInv, LadderInv, SourcesInv, RejectedHintIsDropped
<1> QED
  BY <1>1, LadderInvariant, PTL

(* Which steps send a destructive request, and from where.                  *)
LEMMA WipeSteps ==
  ASSUME TypeOK, [Next]_vars, wipes' > wipes
  PROVE  /\ pc \in {"unpair", "fallback"}
         /\ RecordAttempt
<1>1. CASE UNCHANGED vars
  BY <1>1 DEF vars, historyVars, TypeOK
<1>2. ASSUME NEW option \in Sources \cup {Automatic}, Restart(option)
      PROVE  FALSE
  BY <1>2 DEF Restart, TypeOK
<1>3. CASE SaveBond \/ SaveSource \/ StartCycle
  BY <1>3 DEF SaveBond, SaveSource, StartCycle, historyVars, TypeOK
<1>4. ASSUME NEW source \in Sources, SetBleDevice(source) PROVE FALSE
  BY <1>4 DEF SetBleDevice, historyVars, TypeOK
<1>5. ASSUME NEW failureClass \in {"AUTH", "TIMEOUT", "LINK"},
             RungRaisesClassified(failureClass)
      PROVE  FALSE
  BY <1>5 DEF RungRaisesClassified, TypeOK
<1>6. CASE RungHandshakeFails \/ RungDropsAtOnce \/ RungRaisesInHandshake
  BY <1>6 DEF RungHandshakeFails, RungDropsAtOnce, RungRaisesInHandshake,
              historyVars, TypeOK
<1>7. CASE RungSucceeds
  BY <1>7 DEF RungSucceeds, TypeOK
<1>8. ASSUME NEW outcome \in {"CONFIRMED", "ATTEMPTED_UNCONFIRMED", "NOT_SENT"},
             ProxyUnpair(outcome)
      PROVE  pc = "unpair" /\ RecordAttempt
  BY <1>8 DEF ProxyUnpair, historyVars, TypeOK
<1>9. CASE FallbackUnpair
  BY <1>9 DEF FallbackUnpair
<1>10. CASE FallbackNotSent \/ CycleFails \/ CycleSucceeds \/ ReadsRaise
            \/ LinkDrops
  BY <1>10 DEF FallbackNotSent, CycleFails, CycleSucceeds, ReadsRaise,
               LinkDrops, historyVars, TypeOK
<1>11. ASSUME ForceRepair PROVE FALSE
  BY <1>11 DEF ForceRepair, TypeOK
<1> QED
  BY <1>1, <1>2, <1>3, <1>4, <1>5, <1>6, <1>7, <1>8, <1>9, <1>10, <1>11
     DEF Next

(* A destructive request is sent only to the source of the running cycle,   *)
(* which is the affinity and, unless the user is migrating, has completed a *)
(* handshake before (_suspect_stale_bond's bootstrap check).                *)
THEOREM OnlyTheOwnerIsWiped == Spec => WipesHitTheProvenOwner
<1>1. IInv /\ [Next]_vars /\ wipes' > wipes
        => cycleSource = affinity /\ (migrating \/ affinity \in proven)
  <2> SUFFICES ASSUME IInv, [Next]_vars, wipes' > wipes
               PROVE  cycleSource = affinity
                      /\ (migrating \/ affinity \in proven)
    OBVIOUS
  <2>1. pc \in {"unpair", "fallback"}
    BY WipeSteps DEF IInv
  <2> QED
    BY <2>1 DEF IInv, LadderInv, SourcesInv, ProvenInv, Rungs
<1> QED
  BY <1>1, LadderInvariant, PTL DEF Spec, WipesHitTheProvenOwner

(* An unpair that reached the bond store is not repeated before the next    *)
(* good handshake, over any number of crashes and restarts (the persisted   *)
(* PAIRING_REQUIRED of bond_state.py), a source migration excepted.         *)
THEOREM SavedWipeIsNotRepeated == Spec => SavedWipeIsFinal
<1>1. IInv /\ [Next]_vars /\ wipes' > wipes /\ ~ migrating => ~ wipeSaved
  <2> SUFFICES ASSUME IInv, [Next]_vars, wipes' > wipes, ~ migrating
               PROVE  ~ wipeSaved
    OBVIOUS
  <2>1. pc \in {"unpair", "fallback"}
    BY WipeSteps DEF IInv
  <2> QED
    BY <2>1 DEF IInv, LadderInv, SavedInv
<1> QED
  BY <1>1, LadderInvariant, PTL DEF Spec, SavedWipeIsFinal

(* Each step of the ladder is a step of WipeBudget or leaves it alone.      *)
LEMMA BudgetStep ==
  ASSUME IInv, [Next]_vars
  PROVE  \/ Budget!Next
         \/ UNCHANGED <<rejections > 0, 1 - wipes>>
<1> USE DEF TypeOK, IInv
<1>1. CASE UNCHANGED vars
  BY <1>1 DEF vars, historyVars
<1>2. ASSUME NEW option \in Sources \cup {Automatic}, Restart(option)
      PROVE  Budget!NewEpisode
  BY <1>2 DEF Restart, Budget!NewEpisode
<1>3. CASE SaveBond \/ SaveSource \/ StartCycle
  BY <1>3 DEF SaveBond, SaveSource, StartCycle, historyVars
<1>4. ASSUME NEW source \in Sources, SetBleDevice(source)
      PROVE  UNCHANGED <<rejections, wipes>>
  BY <1>4 DEF SetBleDevice, historyVars
<1>5. ASSUME NEW failureClass \in {"AUTH", "TIMEOUT", "LINK"},
             RungRaisesClassified(failureClass)
      PROVE  \/ Budget!Reject
             \/ UNCHANGED <<rejections, wipes>>
  <2>1. wipes' = wipes
    BY <1>5 DEF RungRaisesClassified
  <2>2. rejections' = Counted(rejections) \/ rejections' = rejections
    BY <1>5 DEF RungRaisesClassified
  <2>3. Counted(rejections) > 0
    BY CountedBound, AuthCycleCapAssumption
  <2> QED
    BY <2>1, <2>2, <2>3 DEF Budget!Reject
<1>6. CASE RungHandshakeFails \/ RungDropsAtOnce \/ RungRaisesInHandshake
  BY <1>6 DEF RungHandshakeFails, RungDropsAtOnce, RungRaisesInHandshake,
              historyVars
<1>7. CASE RungSucceeds
  BY <1>7 DEF RungSucceeds, Budget!NewEpisode, Budget!Next
<1>8. ASSUME pc \in {"unpair", "fallback"}, RecordAttempt PROVE Budget!Wipe
  <2>1. ~ unpaired /\ wipes = 0
    BY <1>8 DEF LadderInv, LatchInv
  <2>2. rejections > 0
    BY <1>8, AuthCycleCapAssumption DEF LadderInv, InnocenceInv
  <2>3. wipes' = wipes + 1 /\ rejections' = rejections
    BY <1>8 DEF RecordAttempt
  <2>4. 1 - wipes = 1 /\ (1 - wipes)' = 0
    BY <2>1, <2>3
  <2>5. UNCHANGED (rejections > 0)
    BY <2>3
  <2> QED
    BY <2>2, <2>4, <2>5 DEF Budget!Wipe
<1>9. ASSUME NEW outcome \in {"CONFIRMED", "ATTEMPTED_UNCONFIRMED", "NOT_SENT"},
             ProxyUnpair(outcome)
      PROVE  \/ Budget!Wipe
             \/ UNCHANGED <<rejections, wipes>>
  <2>1. CASE RecordAttempt
    BY <1>8, <1>9, <2>1 DEF ProxyUnpair
  <2>2. CASE ~ RecordAttempt
    BY <1>9, <2>2 DEF ProxyUnpair, historyVars
  <2> QED
    BY <2>1, <2>2
<1>10. CASE FallbackUnpair
  <2>1. Budget!Wipe
    BY <1>8, <1>10 DEF FallbackUnpair
  <2> QED
    BY <2>1 DEF Budget!Next
<1>11. CASE FallbackNotSent \/ CycleFails \/ CycleSucceeds \/ ReadsRaise
            \/ LinkDrops
  BY <1>11 DEF FallbackNotSent, CycleFails, CycleSucceeds, ReadsRaise,
               LinkDrops, historyVars
<1>12. ASSUME ForceRepair
       PROVE  UNCHANGED <<rejections, wipes>>
  <2>1. UNCHANGED <<bondVars, rejections, wipes, proven, wipeSaved>>
    BY <1>12 DEF ForceRepair
  <2> QED
    BY <2>1
<1> QED
  BY <1>1, <1>2, <1>3, <1>4, <1>5, <1>6, <1>7, <1>9, <1>10, <1>11, <1>12
     DEF Next, Budget!Next

(* The ladder implements WipeBudget, for every set of sources: nothing is   *)
(* destroyed before a rejection, and an episode has one request to spend.   *)
THEOREM LadderImplementsBudget == Spec => ImplementsBudget
<1>1. Init => Budget!Init
  BY DEF Init, Budget!Init
<1>2. IInv /\ [Next]_vars => [Budget!Next]_<<rejections > 0, 1 - wipes>>
  BY BudgetStep
<1> QED
  BY <1>1, <1>2, LadderInvariant, PTL DEF Spec, ImplementsBudget, Budget!Spec
=============================================================================
