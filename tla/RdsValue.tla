------------------------------ MODULE RdsValue ------------------------------
(***************************************************************************)
(* One received item of the Radio Data System: RdsValue<T, Tag> of         *)
(* filters/fm/rds_state.h.  Every item is received again and again, each   *)
(* time in a block the error correction judged Valid, Corrected or         *)
(* Uncorrectable.  The object keeps what it shows (sentValue), what it     *)
(* heard last (lastValue, with the bits that carried it, lastCheck) and    *)
(* when it last believed something (lastUpdate).                           *)
(***************************************************************************)
EXTENDS Integers

CONSTANTS Unset,      \* what a member holds before it is first assigned
          Validity    \* seconds an item of each tag may be shown unconfirmed

Tags == {"Programme", "Clock", "Text", "Current"}

ASSUME ValidityAssumption == Validity \in [Tags -> Nat]

\* RdsDecodingStatus: the order of the numbers is used by the code.
Uncorrectable == 0
Corrected == 1
Valid == 2

NewValue == [sent |-> FALSE, sentValue |-> Unset, hasCorrected |-> FALSE,
             lastValue |-> Unset, lastCheck |-> Unset, lastUpdate |-> 0]

(* Mutant: any second reception confirms.                                  *)
BelievedTwice(r, v, c, s) == s = Valid \/ (s = Corrected /\ r.hasCorrected)

(***************************************************************************)
(* Is value v, carried by bits c of status s, to be shown?  A Valid block  *)
(* is; a Corrected one is when its bits repeat those of the reception      *)
(* before, or when it confirms what is shown and nothing else is pending.  *)
(***************************************************************************)
Believed(r, v, c, s) ==
  \/ s = Valid
  \/ s = Corrected /\ r.hasCorrected /\ r.lastCheck = c
  \/ s = Corrected /\ ~r.hasCorrected /\ r.sent /\ r.sentValue = v

(* Mutant: the bits are only remembered while a value is pending.          *)
SetValueForgetting(r, v, c, s, t) ==
  IF s = Uncorrectable THEN r
  ELSE IF Believed(r, v, c, s)
  THEN [r EXCEPT !.sent = TRUE, !.sentValue = v, !.hasCorrected = FALSE,
                 !.lastValue = v, !.lastUpdate = t]
  ELSE [r EXCEPT !.hasCorrected = TRUE, !.lastValue = v, !.lastCheck = c]

SetValue(r, v, c, s, t) ==
  IF s = Uncorrectable THEN r
  ELSE IF Believed(r, v, c, s)
  THEN [sent |-> TRUE, sentValue |-> v, hasCorrected |-> FALSE,
        lastValue |-> v, lastCheck |-> c, lastUpdate |-> t]
  ELSE [r EXCEPT !.hasCorrected = TRUE, !.lastValue = v, !.lastCheck = c]

\* The signal changing() is raised, before the new value is stored.
Changing(r, v, c, s) ==
  /\ Believed(r, v, c, s)
  /\ r.sent => r.sentValue # v

\* What was pending stays pending.
Invalidate(r) ==
  IF r.sent THEN [r EXCEPT !.sent = FALSE, !.lastUpdate = 0] ELSE r

Expired(r, tag, everything, t) ==
  everything \/ t - r.lastUpdate > Validity[tag]

\* The CHECKs of value() and of lastValue().
HasValue(r) == r.sent
HasLastValue(r) == r.sent \/ r.hasCorrected
=============================================================================
