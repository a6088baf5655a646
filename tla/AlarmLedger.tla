------------------------------ MODULE AlarmLedger ------------------------------
(***************************************************************************)
(* What the gateway promises about the alarms it receives, whatever fails: *)
(* an alarm is owed to the cloud from its reception on, it stops being     *)
(* owed when the cloud has it or when Slots newer ones have come, and what *)
(* is not owed any more is never owed again.  AlarmForwarding is shown to  *)
(* implement this module.                                                  *)
(***************************************************************************)
EXTENDS Naturals

CONSTANT Slots

VARIABLES received,   \* alarms received so far; an alarm is its count
          owed,       \* alarms still to be sent
          arrived     \* alarms the cloud has

LedgerInit == received = 0 /\ owed = {} /\ arrived = {}

\* Only a new alarm displaces, and only the one that is Slots older.
Receive ==
    /\ received' = received + 1
    /\ owed' = {a \in owed \cup {received'} : received' - a < Slots}
    /\ arrived' = arrived

\* The cloud gets an alarm, owed or not: posts overlap, answers are lost.
Arrive(a) ==
    /\ arrived' = arrived \cup {a}
    /\ UNCHANGED <<received, owed>>

\* The gateway learns of it, one alarm at a time.
Settle(a) ==
    /\ a \in arrived
    /\ owed' = owed \ {a}
    /\ UNCHANGED <<received, arrived>>

LedgerNext == Receive \/ \E a \in 1..received : Arrive(a) \/ Settle(a)

LedgerSpec == LedgerInit /\ [][LedgerNext]_<<received, owed, arrived>>
==============================================================================
