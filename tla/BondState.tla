----------------------------- MODULE BondState -----------------------------
(***************************************************************************)
(* The bond-health state machine of bond_state.py, as operators on its     *)
(* snapshot [state, cycles]: what Home Assistant believes of the bond      *)
(* between one Bluetooth central and the coffee machine.  The connect      *)
(* ladder (module ConnectLadder) holds the snapshot and applies these      *)
(* operators; timestamps and the audit history carry no decision and are   *)
(* left out.                                                               *)
(***************************************************************************)
EXTENDS Integers

CONSTANT AuthCycleCap  \* where the counter of auth-fail cycles saturates

\* Distinct connect cycles with an SMP rejection that make destruction legal.
AUTH_CYCLES_FOR_MISMATCH == 2

(* The counter is only ever compared with AUTH_CYCLES_FOR_MISMATCH, so      *)
(* saturating it at any higher value loses nothing.                         *)
ASSUME AuthCycleCapAssumption ==
  AuthCycleCap \in Nat /\ AuthCycleCap >= AUTH_CYCLES_FOR_MISMATCH

States == {"UNKNOWN", "TRUSTED", "SUSPECT", "MISMATCH", "PAIRING_REQUIRED"}

\* FAILURE_* of const.py; "none" is a client that has not failed yet.
FailureClasses == {"AUTH", "TIMEOUT", "LINK", "HANDSHAKE"}

Bonds == [state : States, cycles : 0..AuthCycleCap]

NewBond == [state |-> "UNKNOWN", cycles |-> 0]

\* Variant: the counter has no bound.
Counted_Unbounded(n) == n + 1

Counted(n) == IF n < AuthCycleCap THEN n + 1 ELSE n

OnHandshakeSuccess(b) == [state |-> "TRUSTED", cycles |-> 0]

\* Variant: the latch of a destroyed bond is forgotten on the next rejection.
StateAfterRejections_Forgetful(s, n) ==
  IF n >= AUTH_CYCLES_FOR_MISMATCH THEN "MISMATCH" ELSE "SUSPECT"

\* The state an SMP rejection leads to once the counter stands at n.
StateAfterRejections(s, n) ==
  IF s = "PAIRING_REQUIRED" THEN s
  ELSE IF n >= AUTH_CYCLES_FOR_MISMATCH THEN "MISMATCH" ELSE "SUSPECT"

\* Variant: a timeout is taken for a rejection.
Degrades_Timeouts(failureClass) == failureClass \in {"AUTH", "TIMEOUT"}

\* Only AUTH-class failures move the machine.
Degrades(failureClass) == failureClass = "AUTH"

OnCycleFailure(b, failureClass) ==
  IF ~ Degrades(failureClass) THEN b
  ELSE [state  |-> StateAfterRejections(b.state, Counted(b.cycles)),
        cycles |-> Counted(b.cycles)]

OnBondDestroyed(b) == [b EXCEPT !.state = "PAIRING_REQUIRED"]

AllowUnpair(b, currentCycleAuth) ==
  \/ b.state = "MISMATCH"
  \/ b.state = "SUSPECT" /\ currentCycleAuth
=============================================================================
