---------------------------- MODULE TuneSession ----------------------------
(***************************************************************************)
(* What a tune session promises, whatever the radio and the amplifier do   *)
(* (the abstract specification of TuneOrchestrator).                       *)
(*                                                                         *)
(*   - the carrier is asked for only inside a session, never once a stop   *)
(*     has been requested, and once per sub-band;                          *)
(*   - a carrier that came on is asked to go off before anything else;     *)
(*   - once a sub-band has failed, or the session is ending for any other  *)
(*     reason, the carrier is not asked for again;                         *)
(*   - the radio transmits outside of that window only after a carrier     *)
(*     command that raised, so that its outcome is not known.              *)
(***************************************************************************)

VARIABLES
  stage,   \* how far the session is
  halted,  \* a stop has been requested
  tx,      \* the radio is transmitting
  unsure   \* the last carrier command raised

vars == <<stage, halted, tx, unsure>>

Stages == {"idle", "preparing", "keying", "keyed", "unkeying", "ending"}

TypeOK ==
  /\ stage \in Stages
  /\ halted \in BOOLEAN /\ tx \in BOOLEAN /\ unsure \in BOOLEAN

(* The radio transmits only while the session still owes a carrier-off.    *)
Accounted == tx => stage \in {"keyed", "unkeying"} \/ unsure

Init ==
  /\ stage = "idle"
  /\ halted = FALSE /\ tx = FALSE /\ unsure = FALSE

Start ==
  /\ stage = "idle" /\ stage' = "preparing"
  /\ halted' = FALSE
  /\ UNCHANGED <<tx, unsure>>

Halt == ~halted /\ halted' = TRUE /\ UNCHANGED <<stage, tx, unsure>>

Key ==
  /\ stage = "preparing" /\ ~halted /\ stage' = "keying"
  /\ UNCHANGED <<halted, tx, unsure>>

Keyed ==
  /\ stage = "keying" /\ stage' = "keyed"
  /\ tx' = TRUE
  /\ UNCHANGED <<halted, unsure>>

KeyRaised ==
  /\ stage = "keying" /\ stage' = "ending"
  /\ tx' \in {tx, TRUE} /\ unsure' = TRUE
  /\ UNCHANGED halted

Unkey ==
  /\ stage = "keyed" /\ stage' = "unkeying"
  /\ UNCHANGED <<halted, tx, unsure>>

Unkeyed ==
  /\ stage = "unkeying" /\ stage' \in {"preparing", "ending"}
  /\ \/ tx' = FALSE /\ unsure' = FALSE
     \/ tx' \in {tx, FALSE} /\ unsure' = TRUE
  /\ UNCHANGED halted

GiveUp ==
  /\ stage = "preparing" /\ stage' = "ending"
  /\ UNCHANGED <<halted, tx, unsure>>

Finish ==
  /\ stage = "ending" /\ stage' = "idle"
  /\ UNCHANGED <<halted, tx, unsure>>

Next == Start \/ Halt \/ Key \/ Keyed \/ KeyRaised \/ Unkey \/ Unkeyed
        \/ GiveUp \/ Finish

Spec == Init /\ [][Next]_vars
=============================================================================
