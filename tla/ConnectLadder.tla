--------------------------- MODULE ConnectLadder ---------------------------
(***************************************************************************)
(* One connect() after another, as ble_client.py runs them under           *)
(* _connect_lock: the rungs pair=False, pair=True and, on evidence, unpair *)
(* followed by pair=True; the bookkeeping of a failed cycle; what reaches  *)
(* disk; a restart of Home Assistant or a reload with other options.       *)
(*                                                                         *)
(* The radio, the proxy and the machine answer as they like.  A BLEDevice  *)
(* is identified with the source (scanner) it came from.  Who calls        *)
(* connect() and when, the failure counter and the repair card belong to   *)
(* module ReconnectSupervisor.                                             *)
(***************************************************************************)
EXTENDS BondState

CONSTANTS Sources,  \* the connectable scanners: local adapters and proxies
          None,     \* Python's None for a source or a device
          Automatic \* the Bluetooth source option left at "automatic"

ASSUME SourcesAssumption == None \notin Sources /\ Automatic \notin Sources

\* An empty store is not a stored bond.
ASSUME NoneAssumption == None \notin Bonds

VARIABLES
  pc,          \* where the cycle that holds _connect_lock stands
  cycleSource, \* _connect_cycle_device and _connect_cycle_source
  authSeen,    \* _auth_fail_seen
  lastClass,   \* _last_failure_class
  connected,   \* _connected
  device,      \* _ble_device and _ble_device_source
  affinity,    \* _ble_source_affinity
  hint,        \* _ble_source_hint
  migrating,   \* _source_migration_pending
  bond,        \* client.bond
  unpaired,    \* _unpaired_this_episode
  sourceState, \* source_state["bonded_source"] of the running set-up
  diskBond,    \* the bond store on disk
  diskSource,  \* the source store on disk
  configured,  \* the Bluetooth source option of the config entry
  \* History of what really happened, which no code reads:
  rejections,  \* cycles of this installation that saw an SMP rejection
  wipes,       \* destructive requests sent since a handshake or a set-up
  proven,      \* sources over which a handshake has ever succeeded
  wipeSaved    \* an unpair is on disk, no handshake has succeeded since

cycleVars   == <<pc, cycleSource, authSeen, lastClass>>
sourceVars  == <<device, affinity, hint, migrating, sourceState>>
bondVars    == <<bond, unpaired>>
diskVars    == <<diskBond, diskSource, configured>>
historyVars == <<rejections, wipes, proven, wipeSaved>>
vars == <<cycleVars, connected, sourceVars, bondVars, diskVars, historyVars>>

Rungs == {"rung1", "rung2", "rung3"}
Control == Rungs \cup {"idle", "unpair", "fallback", "reads", "failed"}

MaybeSource == Sources \cup {None}
----------------------------------------------------------------------------
(* Set-up of the config entry (async_setup_entry): what the new client      *)
(* starts from, given the option, the stored bond owner, the adapter BlueZ  *)
(* calls paired, and the scanners that currently see the machine.           *)

StartAffinity(option, stored) == IF option = Automatic THEN stored ELSE option

StartMigrating(option, stored) == option # Automatic /\ option # stored

\* The BlueZ record is a hint, dropped at once if its scanner sees nothing.
StartHint(option, stored, paired, seeing) ==
  IF StartAffinity(option, stored) = None /\ paired \in seeing
  THEN paired ELSE None

StartDevices(option, stored, paired, seeing) ==
  LET owner == StartAffinity(option, stored)
      held  == StartHint(option, stored, paired, seeing)
  IN  IF owner # None THEN IF owner \in seeing THEN {owner} ELSE {None}
      ELSE IF held # None THEN {held}
      ELSE IF seeing = {} THEN {None} ELSE seeing

Restore(stored) == IF stored = None THEN NewBond ELSE stored

Init ==
  /\ pc = "idle" /\ cycleSource = None /\ authSeen = FALSE
  /\ lastClass = "none" /\ connected = FALSE
  /\ configured \in Sources \cup {Automatic}
  /\ diskBond = None /\ diskSource = None /\ sourceState = None
  /\ affinity = StartAffinity(configured, None)
  /\ migrating = StartMigrating(configured, None)
  /\ \E paired \in MaybeSource, seeing \in SUBSET Sources :
       /\ hint = StartHint(configured, None, paired, seeing)
       /\ device \in StartDevices(configured, None, paired, seeing)
  /\ bond = NewBond /\ unpaired = FALSE
  /\ rejections = 0 /\ wipes = 0
  /\ proven = {} /\ wipeSaved = FALSE

(* A crash or a restart of Home Assistant, or a reload of the entry, with   *)
(* the option as it was or changed: memory is lost, the stores are read.    *)
Restart(option) ==
  /\ pc' = "idle" /\ cycleSource' = None /\ authSeen' = FALSE
  /\ lastClass' = "none" /\ connected' = FALSE
  /\ configured' = option
  /\ affinity' = StartAffinity(option, diskSource)
  /\ migrating' = StartMigrating(option, diskSource)
  /\ \E paired \in MaybeSource, seeing \in SUBSET Sources :
       /\ hint' = StartHint(option, diskSource, paired, seeing)
       /\ device' \in StartDevices(option, diskSource, paired, seeing)
  /\ sourceState' = diskSource
  /\ bond' = Restore(diskBond)
  /\ unpaired' = FALSE
  /\ wipes' = 0
  /\ UNCHANGED <<diskBond, diskSource, rejections, proven,
                 wipeSaved>>

\* The delayed saves of the two stores (5 s and 1 s after the change).
SaveBond ==
  /\ diskBond # bond /\ bond # NewBond
  /\ diskBond' = bond
  /\ wipeSaved' = (wipeSaved \/ bond.state = "PAIRING_REQUIRED")
  /\ UNCHANGED <<cycleVars, connected, sourceVars, bondVars, diskSource,
                 configured, rejections, wipes, proven>>

SaveSource ==
  /\ diskSource # sourceState
  /\ diskSource' = sourceState
  /\ UNCHANGED <<cycleVars, connected, sourceVars, bondVars, diskBond,
                 configured, historyVars>>
----------------------------------------------------------------------------
(* Advertisements.                                                          *)

Preferred == IF affinity # None THEN affinity ELSE hint

\* Variant: the strongest scanner wins.
Adopts_Any(source) == TRUE

\* With an affinity or a hint, other scanners are observed but not adopted.
Adopts(source) == Preferred = None \/ source = Preferred

SetBleDevice(source) ==
  /\ Adopts(source)
  /\ device' = source
  /\ UNCHANGED <<cycleVars, connected, affinity, hint, migrating, sourceState,
                 bondVars, diskVars, historyVars>>

(* A caller passes the presence gate and takes the lock.  With an affinity  *)
(* the gate itself fetches the device from the owner's scanner; a starved   *)
(* scanner lets the attempt through with whatever device is cached.         *)
StartCycle ==
  /\ pc = "idle" /\ ~ connected
  /\ device' \in {device} \cup (IF affinity # None THEN {affinity} ELSE {})
  /\ cycleSource' = device'
  /\ authSeen' = FALSE
  \* NoBleDeviceError ends the whole ladder on the first rung.
  /\ pc' = IF device' = None THEN "failed" ELSE "rung1"
  /\ UNCHANGED <<lastClass, connected, affinity, hint, migrating, sourceState,
                 bondVars, diskVars, historyVars>>
----------------------------------------------------------------------------
(* After both pairing rungs failed: may the bond be cleared?  "rejected" is *)
(* _auth_fail_seen at that point.                                           *)

\* Variant: the bootstrap check on the owner is missing.
SuspectStaleBond_AnyCentral(rejected) == AllowUnpair(bond, rejected)

\* A proven owner of the bond, and evidence that the machine refuses it.
SuspectStaleBond(rejected) == affinity # None /\ AllowUnpair(bond, rejected)

\* Variant: the episode latch is not looked at.
LatchOpen_Always == TRUE

\* One wipe per episode.
LatchOpen == ~ unpaired

\* A migration target must have rejected us in this cycle.
MayUnpair(rejected) ==
  /\ IF migrating THEN rejected ELSE SuspectStaleBond(rejected)
  /\ LatchOpen

\* Where a failed rung leads, without a suspension.
AfterFailedRung(rejected) ==
  CASE pc = "rung1" -> "rung2"
    [] pc = "rung2" -> IF MayUnpair(rejected) THEN "unpair" ELSE "failed"
    [] OTHER        -> "failed"
----------------------------------------------------------------------------
(* The rungs: _try_connect_and_handshake.                                   *)

SeesRejection(failureClass) == failureClass = "AUTH"

\* establish_connection or start_notify raised: the failure is classified.
RungRaisesClassified(failureClass) ==
  /\ pc \in Rungs
  /\ lastClass' = failureClass
  /\ authSeen' = (authSeen \/ SeesRejection(failureClass))
  /\ pc' = AfterFailedRung(authSeen')
  /\ rejections' = IF failureClass = "AUTH" /\ ~ authSeen
                   THEN Counted(rejections) ELSE rejections
  /\ UNCHANGED <<cycleSource, connected, sourceVars, bondVars, diskVars,
                 wipes, proven, wipeSaved>>

\* The HU handshake is not answered, or answered wrongly.
RungHandshakeFails ==
  /\ pc \in Rungs
  /\ pc' = AfterFailedRung(authSeen)
  /\ lastClass' = "HANDSHAKE"
  /\ UNCHANGED <<cycleSource, authSeen, connected, sourceVars, bondVars,
                 diskVars, historyVars>>

\* The client is no longer connected when it is returned: nothing is recorded.
RungDropsAtOnce ==
  /\ pc \in Rungs
  /\ pc' = AfterFailedRung(authSeen)
  /\ UNCHANGED <<cycleSource, authSeen, lastClass, connected, sourceVars,
                 bondVars, diskVars, historyVars>>

\* The link drops under the handshake's write: "Not connected" leaves
\* _try_connect_and_handshake and ends the whole ladder, unclassified.
RungRaisesInHandshake ==
  /\ pc \in Rungs
  /\ pc' = "failed"
  /\ UNCHANGED <<cycleSource, authSeen, lastClass, connected, sourceVars,
                 bondVars, diskVars, historyVars>>

(* A rung succeeds: everything up to the first read, without a suspension.  *)
(* Learning the affinity drops a device that came from elsewhere meanwhile. *)
RungSucceeds ==
  /\ pc \in Rungs
  /\ pc' = "reads"
  /\ connected' = TRUE
  /\ unpaired' = FALSE
  /\ bond' = OnHandshakeSuccess(bond)
  /\ migrating' = FALSE
  /\ IF affinity = None
     THEN /\ affinity' = cycleSource /\ hint' = None
          /\ IF device = cycleSource
             THEN UNCHANGED <<device, cycleSource>>
             ELSE device' = None /\ cycleSource' = None
     ELSE UNCHANGED <<affinity, hint, device, cycleSource>>
  /\ sourceState' = cycleSource
  /\ wipes' = 0 /\ wipeSaved' = FALSE
  /\ proven' = proven \cup {cycleSource}
  /\ UNCHANGED <<authSeen, lastClass, diskVars, rejections>>
----------------------------------------------------------------------------
(* _try_unpair, first through the proxy of the affinity source, then, only  *)
(* if nothing was sent, by connecting and calling unpair().                 *)

\* What _record_attempt does once a destructive request may have left.
RecordAttempt ==
  /\ unpaired' = TRUE
  /\ bond' = OnBondDestroyed(bond)
  /\ wipes' = wipes + 1
  /\ UNCHANGED <<cycleSource, authSeen, lastClass, connected, sourceVars,
                 diskVars, rejections, proven, wipeSaved>>

\* Variant: an unconfirmed request is answered by the fallback too.
AfterProxyUnpair_Retry(outcome) ==
  IF outcome = "CONFIRMED" THEN "rung3" ELSE "fallback"

\* Only a request that was never sent is answered by the fallback.
AfterProxyUnpair(outcome) == IF outcome = "NOT_SENT" THEN "fallback" ELSE "rung3"

ProxyUnpair(outcome) ==
  /\ pc = "unpair"
  /\ pc' = AfterProxyUnpair(outcome)
  /\ IF outcome = "NOT_SENT"
     THEN UNCHANGED <<cycleSource, authSeen, lastClass, connected, sourceVars,
                      bondVars, diskVars, historyVars>>
     ELSE RecordAttempt

\* Confirmed or not, an unpair() that was called counts as sent.
FallbackUnpair ==
  /\ pc = "fallback"
  /\ pc' = "rung3"
  /\ RecordAttempt

\* No link for the fallback, or a backend without unpair(): NOT_SENT.
FallbackNotSent ==
  /\ pc = "fallback"
  /\ pc' = "failed"
  /\ UNCHANGED <<cycleSource, authSeen, lastClass, connected, sourceVars,
                 bondVars, diskVars, historyVars>>
----------------------------------------------------------------------------
(* The end of a cycle.                                                      *)

\* Variant: a rejected hint is kept for the next cycle.
HintRejected_Never == FALSE

(* connect()'s finally: a hint whose source rejected us is dropped, with    *)
(* the device that came from it, and the frozen source is released.         *)
HintRejected ==
  /\ affinity = None /\ hint # None
  /\ authSeen /\ cycleSource = hint

ReleaseCycle ==
  /\ pc' = "idle"
  /\ cycleSource' = None
  /\ hint' = IF HintRejected THEN None ELSE hint
  /\ device' = IF HintRejected /\ device = cycleSource THEN None ELSE device
  /\ UNCHANGED <<authSeen, lastClass, affinity, migrating, sourceState,
                 diskVars>>

\* The class under which the caller counts the failed cycle.
CycleClass ==
  LET seen == IF authSeen THEN "AUTH" ELSE lastClass
  IN  IF seen = "AUTH" /\ migrating THEN "LINK" ELSE seen

\* connect() returns False and its caller runs _note_connect_failure at once.
CycleFails ==
  /\ pc = "failed"
  /\ ReleaseCycle
  /\ bond' = OnCycleFailure(bond, CycleClass)
  /\ UNCHANGED <<connected, unpaired, historyVars>>

\* The reads are over: callbacks are told and connect() returns True.
CycleSucceeds ==
  /\ pc = "reads"
  /\ ReleaseCycle
  /\ UNCHANGED <<connected, bondVars, historyVars>>

\* A read raised: connect() fails after all.
ReadsRaise ==
  /\ pc = "reads"
  /\ pc' = "failed"
  /\ connected' = FALSE
  /\ UNCHANGED <<cycleSource, authSeen, lastClass, sourceVars, bondVars,
                 diskVars, historyVars>>

\* _on_disconnect, or the poll loop giving up.
LinkDrops ==
  /\ connected
  /\ connected' = FALSE
  /\ UNCHANGED <<cycleVars, sourceVars, bondVars, diskVars, historyVars>>

(* _async_force_repair and the local branch of _async_repair_pairing:       *)
(* disconnect() closes the link and cancels the reconnect task, whose cycle *)
(* is then released without being counted; a cycle of the set-up task goes  *)
(* on.  That the proxy may erase its bonds leaves no trace in this state.   *)
ForceRepair ==
  /\ connected' = FALSE
  /\ \/ UNCHANGED <<cycleVars, sourceVars, diskVars>>
     \/ pc # "idle" /\ ReleaseCycle
  /\ UNCHANGED <<bondVars, rejections, wipes, proven, wipeSaved>>
----------------------------------------------------------------------------
Next ==
  \/ \E option \in Sources \cup {Automatic} : Restart(option)
  \/ SaveBond \/ SaveSource
  \/ \E source \in Sources : SetBleDevice(source)
  \/ StartCycle
  \/ \E failureClass \in {"AUTH", "TIMEOUT", "LINK"} :
        RungRaisesClassified(failureClass)
  \/ RungHandshakeFails \/ RungDropsAtOnce \/ RungRaisesInHandshake
  \/ RungSucceeds
  \/ \E outcome \in {"CONFIRMED", "ATTEMPTED_UNCONFIRMED", "NOT_SENT"} :
        ProxyUnpair(outcome)
  \/ FallbackUnpair \/ FallbackNotSent
  \/ CycleFails \/ CycleSucceeds \/ ReadsRaise
  \/ LinkDrops
  \/ ForceRepair

Spec == Init /\ [][Next]_vars
----------------------------------------------------------------------------
TypeOK ==
  /\ pc \in Control
  /\ cycleSource \in MaybeSource /\ device \in MaybeSource
  /\ affinity \in MaybeSource /\ hint \in MaybeSource
  /\ sourceState \in MaybeSource /\ diskSource \in MaybeSource
  /\ configured \in Sources \cup {Automatic}
  /\ authSeen \in BOOLEAN /\ connected \in BOOLEAN /\ migrating \in BOOLEAN
  /\ unpaired \in BOOLEAN
  /\ lastClass \in FailureClasses \cup {"none"}
  /\ bond \in Bonds /\ diskBond \in Bonds \cup {None}
  /\ rejections \in 0..AuthCycleCap /\ wipes \in Nat
  /\ proven \subseteq Sources
  /\ wipeSaved \in BOOLEAN

(* Without a single SMP rejection in the life of the installation the bond  *)
(* is never degraded and never cleared, whatever timeouts, link drops,      *)
(* failed handshakes, restarts and source changes happen (the regression    *)
(* _suspect_stale_bond recalls).                                            *)
NoRejectionNoHarm ==
  rejections = 0 => bond.state \in {"UNKNOWN", "TRUSTED"} /\ wipes = 0

(* Between two good handshakes of one set-up at most one destructive        *)
(* request leaves Home Assistant, through the proxy or the fallback.        *)
OneWipePerEpisode == wipes <= 1

\* The episode latch and the bond machine agree that the bond is gone.
LatchedMeansPairingRequired == unpaired => bond.state = "PAIRING_REQUIRED"

(* A hint whose source rejected us does not survive its cycle.              *)
RejectedHintIsDropped == pc = "idle" /\ hint # None => ~ authSeen

(* A destructive request goes to the source of the running cycle, which is  *)
(* the affinity and, outside a migration, has completed a handshake before: *)
(* a central that never owned the bond is not asked to clear it.            *)
WipesHitTheProvenOwner ==
  [][wipes' > wipes =>
       cycleSource = affinity /\ (migrating \/ affinity \in proven)]_vars

(* Once an unpair is on disk it is not repeated, over any number of         *)
(* restarts, until a handshake succeeds (a migration excepted).             *)
SavedWipeIsFinal == [][wipes' > wipes /\ ~ migrating => ~ wipeSaved]_vars

(* The ladder implements WipeBudget: no destruction without a rejection, at *)
(* most one per episode.                                                    *)
Budget == INSTANCE WipeBudget WITH rejected <- rejections > 0, left <- 1 - wipes

ImplementsBudget == Budget!Spec

(* bond_state.py:10-11 and _suspect_stale_bond: clearing a bond takes at    *)
(* least two distinct connect cycles with a classified rejection.           *)
UnpairNeedsTwoRejectedCycles ==
  [][wipes' > wipes /\ ~ migrating => rejections >= AUTH_CYCLES_FOR_MISMATCH]_vars
----------------------------------------------------------------------------
(* The inductive invariant behind the safety properties.                    *)

\* The frozen source, the cached device and the hint never leave the owner.
SourcesInv ==
  /\ hint # None => /\ affinity = None
                    /\ device \in {None, hint} /\ cycleSource \in {None, hint}
  /\ affinity # None => device \in {None, affinity}
                        /\ cycleSource \in {None, affinity}
  /\ migrating => affinity # None
  /\ pc \in Rungs \cup {"unpair", "fallback"} => cycleSource # None
  /\ pc \in {"unpair", "fallback"} => affinity # None
  /\ hint # None /\ authSeen => pc # "idle" /\ cycleSource = hint

\* Outside a migration the affinity, and every stored owner, is proven.
ProvenInv ==
  /\ affinity # None /\ ~ migrating => affinity \in proven
  /\ sourceState # None => sourceState \in proven
  /\ diskSource # None => diskSource \in proven

\* The latch, the count of wipes and the bond machine move together.
LatchInv ==
  /\ wipes = IF unpaired THEN 1 ELSE 0
  /\ LatchedMeansPairingRequired
  /\ pc \in {"unpair", "fallback"} => ~ unpaired

\* Without a rejection nothing in memory or on disk speaks against the bond.
InnocenceInv ==
  rejections = 0 =>
    /\ ~ authSeen /\ lastClass # "AUTH" /\ ~ unpaired
    /\ bond.state \in {"UNKNOWN", "TRUSTED"}
    /\ diskBond # None => diskBond.state \in {"UNKNOWN", "TRUSTED"}
    /\ pc \notin {"unpair", "fallback"}

\* A wipe on disk keeps memory and disk in PAIRING_REQUIRED.
SavedInv ==
  /\ wipeSaved => /\ bond.state = "PAIRING_REQUIRED"
                  /\ diskBond # None /\ diskBond.state = "PAIRING_REQUIRED"
  /\ pc \in {"unpair", "fallback"} /\ ~ migrating =>
       bond.state \in {"SUSPECT", "MISMATCH"}

LadderInv == SourcesInv /\ ProvenInv /\ LatchInv /\ InnocenceInv /\ SavedInv
=============================================================================
