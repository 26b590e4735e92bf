----------------------------- MODULE TuneProofs -----------------------------
(***************************************************************************)
(* Proofs about TuneOrchestrator, for every number of sub-bands and every  *)
(* behaviour of the radio and the amplifier.                               *)
(*                                                                         *)
(* The segments of the coroutine call each other the way the code does     *)
(* (StartCycle -> CycleFails -> Unwind -> HandBack), so each gets two      *)
(* lemmas: its types and where it can leave the coroutine waiting (Leaves),*)
(* and what it says, keeps and owes (Cycles, Unwinds, Says).  The proofs   *)
(* of the actions cite those lemmas and never expand a segment again.      *)
(***************************************************************************)
EXTENDS TuneOrchestrator, TLAPS

(* What every segment fixes, well typed, with the next await in points.    *)
Leaves(points) ==
  /\ task' \in Frame
  /\ task'.pc \in points
  /\ out' \in Seq(Phases)
  /\ cmds' \in Seq(Keycodes)
  /\ owed' \in BOOLEAN

(* An await leaves a frame that waits where it was told to.                *)
LEMMA AwaitLeaves ==
  ASSUME NEW t \in Frame, NEW said \in Seq(Phases), NEW point \in Points,
         Await(t, point, said)
  PROVE  /\ task' \in Frame /\ task'.pc = point
         /\ out' \in Seq(Phases)
  BY DEF Await, Frame

(* Queueing a keycode keeps the queue one of keycodes.                     *)
LEMMA SendType ==
  ASSUME TypeOK, NEW c \in Keycodes, SendKeycode(c)
  PROVE  cmds' \in Seq(Keycodes)
  BY DEF SendKeycode, TypeOK

(* One more phase said.                                                    *)
LEMMA SaidMore ==
  ASSUME NEW said \in Seq(Phases), NEW p \in Phases
  PROVE  Append(said, p) \in Seq(Phases)
  OBVIOUS

(* Giving OPERATE back leaves the coroutine at its last two awaits.        *)
LEMMA HandBackLeaves ==
  ASSUME TypeOK, NEW t \in Frame, NEW said \in Seq(Phases), HandBack(t, said)
  PROVE  Leaves({"oper", "release"})
<1> USE DEF Leaves, Points, Ending, Preparing
<1>1. CASE /\ ~t.wasOper
           /\ Await(t, "release", said)
           /\ UNCHANGED <<cmds, owed>>
  BY <1>1, AwaitLeaves DEF TypeOK
<1>2. CASE /\ Await(t, "release", Append(said, "OPER_RESTORED"))
           /\ owed' = FALSE
           /\ UNCHANGED cmds
  <2>1. Append(said, "OPER_RESTORED") \in Seq(Phases)
    BY SaidMore DEF Phases
  <2> QED BY <1>2, <2>1, AwaitLeaves DEF TypeOK
<1>3. CASE /\ SendKeycode("oper")
           /\ Await(t, "oper", said)
           /\ owed' = FALSE
  <2>1. cmds' \in Seq(Keycodes)
    BY <1>3, SendType DEF Keycodes
  <2> QED BY <1>3, <2>1, AwaitLeaves
<1> QED BY <1>1, <1>2, <1>3 DEF HandBack

(* So does what follows the restore.                                       *)
LEMMA AfterRestoreLeaves ==
  ASSUME TypeOK, NEW t \in Frame, NEW said \in Seq(Phases),
         AfterRestore(t, said)
  PROVE  Leaves({"oper", "release"})
<1> DEFINE more == IF t.cancelled THEN Append(said, "ABORT") ELSE said
<1>1. more \in Seq(Phases)
  BY SaidMore DEF Phases
<1>2. HandBack(t, more)
  BY DEF AfterRestore
<1> QED BY <1>1, <1>2, HandBackLeaves

(* Unwinding never leads back into a cycle.                                *)
LEMMA UnwindLeaves ==
  ASSUME TypeOK, NEW t \in Frame, NEW said \in Seq(Phases), Unwind(t, said)
  PROVE  Leaves(Ending)
<1>1. CASE /\ Await(t, "restore", said)
           /\ UNCHANGED <<cmds, owed>>
  BY <1>1, AwaitLeaves DEF Leaves, Points, Ending, TypeOK
<1>2. CASE AfterRestore(t, said)
  BY <1>2, AfterRestoreLeaves DEF Leaves, Ending
<1> QED BY <1>1, <1>2 DEF Unwind

(* A cycle that fails unwinds.                                             *)
LEMMA CycleFailsLeaves ==
  ASSUME TypeOK, NEW t \in Frame, NEW said \in Seq(Phases),
         CycleFails(t, said)
  PROVE  Leaves(Ending)
<1> DEFINE more == said \o (IF IsSweep(t) THEN <<"FAIL", "FAIL">>
                                          ELSE <<"FAIL">>)
<1>1. <<"FAIL">> \in Seq(Phases) /\ <<"FAIL", "FAIL">> \in Seq(Phases)
  BY DEF Phases
<1>2. more \in Seq(Phases)
  BY <1>1
<1>3. Unwind(t, more)
  BY DEF CycleFails
<1> QED BY <1>2, <1>3, UnwindLeaves

(* Where the code before the TUNE key can leave the coroutine waiting.     *)
Setup == {"mode", "stby", "freq", "power"} \cup Ending

(* A cycle starts by setting the radio up, or fails.                       *)
LEMMA StartCycleLeaves ==
  ASSUME TypeOK, NEW t \in Frame, NEW said \in Seq(Phases),
         StartCycle(t, said)
  PROVE  Leaves(Setup)
<1> DEFINE begun == Append(said, "STARTED")
<1>1. begun \in Seq(Phases) /\ Append(begun, "FAIL") \in Seq(Phases)
      /\ Append(begun, "PREFLIGHT_OK") \in Seq(Phases)
  BY SaidMore DEF Phases
<1>2. CASE CycleFails(t, Append(begun, "FAIL"))
  BY <1>1, <1>2, CycleFailsLeaves DEF Leaves, Setup
<1>3. CASE /\ Await(t, IF WantsFreq(t) THEN "freq" ELSE "power",
                    Append(begun, "PREFLIGHT_OK"))
           /\ UNCHANGED <<cmds, owed>>
  BY <1>1, <1>3, AwaitLeaves DEF Leaves, Setup, Points, Preparing, TypeOK
<1> QED BY <1>2, <1>3 DEF StartCycle

(* So does the next sub-band, unless the sweep is over.                    *)
LEMMA NextCentreLeaves ==
  ASSUME TypeOK, NEW t \in Frame, NEW said \in Seq(Phases),
         NextCentre(t, said)
  PROVE  Leaves(Setup)
<1>1. \A p \in {"SWEEP_DONE", "ABORT", "SWEEP_STEP"} :
        Append(said, p) \in Seq(Phases)
  BY SaidMore DEF Phases
<1>2. CASE Unwind(t, Append(said, "SWEEP_DONE"))
  BY <1>1, <1>2, UnwindLeaves DEF Leaves, Setup
<1>3. CASE Unwind(t, Append(said, "ABORT"))
  BY <1>1, <1>3, UnwindLeaves DEF Leaves, Setup
<1>4. CASE /\ t.step < N
           /\ StartCycle([t EXCEPT !.step = @ + 1],
                         Append(said, "SWEEP_STEP"))
  <2>1. [t EXCEPT !.step = @ + 1] \in Frame
    BY <1>4, NAssumption DEF Frame
  <2> QED BY <1>1, <1>4, <2>1, StartCycleLeaves
<1> QED BY <1>2, <1>3, <1>4 DEF NextCentre

(* An amplifier in STBY starts a cycle.                                    *)
LEMMA InStbyLeaves ==
  ASSUME TypeOK, NEW t \in Frame, NEW said \in Seq(Phases), InStby(t, said)
  PROVE  Leaves(Setup)
<1>1. /\ Append(said, "STBY_SET") \in Seq(Phases)
      /\ said \o <<"STBY_SET", "SWEEP_STARTED">> \in Seq(Phases)
  BY DEF Phases
<1> QED BY <1>1, NextCentreLeaves, StartCycleLeaves DEF InStby

(* The amplifier is waited for, or a cycle starts.                         *)
LEMMA EnsureStbyLeaves ==
  ASSUME TypeOK, NEW t \in Frame, NEW said \in Seq(Phases),
         EnsureStby(t, said)
  PROVE  Leaves(Setup)
<1>1. CASE InStby(t, said)
  BY <1>1, InStbyLeaves
<1>2. CASE /\ SendKeycode("oper")
           /\ Await(t, "stby", said)
           /\ owed' = TRUE
  <2>1. cmds' \in Seq(Keycodes)
    BY <1>2, SendType DEF Keycodes
  <2> QED BY <1>2, <2>1, AwaitLeaves DEF Leaves, Setup, Points, Preparing
<1> QED BY <1>1, <1>2 DEF EnsureStby

(* After the snapshot come the mode, STBY or a cycle.                      *)
LEMMA TakeSnapshotLeaves ==
  ASSUME TypeOK, NEW t \in Frame, NEW known \in SUBSET Fields,
         NEW said \in Seq(Phases), TakeSnapshot(t, known, said)
  PROVE  Leaves(Setup)
<1> DEFINE u == [t EXCEPT !.snap = known]
           more == Append(said, "VFO_SAVED")
<1>1. u \in Frame /\ more \in Seq(Phases)
      /\ Append(more, "MODE_SET") \in Seq(Phases)
  BY SaidMore DEF Frame, Phases
<1>2. SetTuneMode(u, more)
  BY DEF TakeSnapshot
<1> HIDE DEF u, more
<1>3. CASE EnsureStby(u, Append(more, "MODE_SET")) \/ EnsureStby(u, more)
  BY <1>1, <1>3, EnsureStbyLeaves
<1>4. CASE Await(u, "mode", more) /\ UNCHANGED <<cmds, owed>>
  BY <1>1, <1>4, AwaitLeaves DEF Leaves, Setup, Points, Preparing, TypeOK
<1> QED BY <1>2, <1>3, <1>4 DEF SetTuneMode

-----------------------------------------------------------------------------
(* Where each action of the session leaves the coroutine. *)

(* A new session has the frame of one.                                     *)
LEMMA NewFrameType ==
  ASSUME NEW k \in Kinds
  PROVE  NewFrame(k) \in Frame /\ NewFrame(k).pc = "connect"
<1>1. "connect" \in Points
  BY DEF Points, Preparing
<1>2. 0 \in 0 .. N
  BY NAssumption
<1> QED BY <1>1, <1>2 DEF NewFrame, Frame

(* Where each await on the radio leads.                                    *)
LEMMA RadioLeaves ==
  ASSUME TypeOK, NEW r \in Outcomes, NEW m \in Outcomes
  PROVE  /\ Connected => Leaves({"where"} \cup Setup)
         /\ ConnectFailed => Leaves(Ending)
         /\ BandRead => Leaves(Setup)
         /\ BandNotRead => Leaves(Setup)
         /\ ModeSet(r) => Leaves(Setup)
         /\ FreqSet(r) => Leaves(Setup)
         /\ PowerSet(r) => Leaves({"ledOn"} \cup Ending)
         /\ CarrierOn(r) => Leaves(IF Raised(r) THEN Ending ELSE {"ledOff"})
         /\ CarrierOff(r) => Leaves({"pause"} \cup Ending)
         /\ Restored(r, m) => Leaves(Ending)
         /\ Released => Leaves({"idle"})
<1> USE DEF Points, Preparing, Ending, Setup
<1>0. /\ task \in Frame /\ <<>> \in Seq(Phases)
      /\ \A p \in Phases : <<p>> \in Seq(Phases)
      /\ \A p, q \in Phases : <<p, q>> \in Seq(Phases)
      /\ Phases = Phases \cup {"BAND_CHECKED", "FAIL", "MODE_SET", "FREQ_SET",
           "TUNE_SENT", "CARRIER_ON", "CARRIER_OFF", "SUCCESS",
           "VFO_RESTORED"}
  BY DEF TypeOK, Phases
<1>1. ASSUME Connected PROVE Leaves({"where"} \cup Setup)
  <2>1. CASE \E known \in SUBSET Fields : TakeSnapshot(task, known, <<>>)
    BY <1>0, <2>1, TakeSnapshotLeaves DEF Leaves
  <2>2. CASE Await(task, "where", <<>>) /\ UNCHANGED <<cmds, owed>>
    BY <1>0, <2>2, AwaitLeaves DEF Leaves, TypeOK
  <2> QED BY <1>1, <2>1, <2>2 DEF Connected
<1>2. ASSUME ConnectFailed PROVE Leaves(Ending)
  BY <1>0, <1>2, HandBackLeaves DEF ConnectFailed, Leaves
<1>3. ASSUME BandRead PROVE Leaves(Setup)
  BY <1>0, <1>3, TakeSnapshotLeaves DEF BandRead
<1>4. ASSUME BandNotRead PROVE Leaves(Setup)
  <2>1. CASE HandBack(task, <<"FAIL">>)
    BY <1>0, <2>1, HandBackLeaves DEF Leaves
  <2>2. CASE \E known \in SUBSET Fields :
               TakeSnapshot(task, known, <<"BAND_CHECKED">>)
    BY <1>0, <2>2, TakeSnapshotLeaves
  <2> QED BY <1>4, <2>1, <2>2 DEF BandNotRead
<1>5. ASSUME ModeSet(r) PROVE Leaves(Setup)
  <2>1. CASE EnsureStby(task, <<"MODE_SET">>)
    BY <1>0, <2>1, EnsureStbyLeaves
  <2>2. CASE Unwind(task, <<"FAIL">>)
    BY <1>0, <2>2, UnwindLeaves DEF Leaves
  <2> QED BY <1>5, <2>1, <2>2 DEF ModeSet
<1>6. ASSUME FreqSet(r) PROVE Leaves(Setup)
  <2>1. CASE Await(task, "power", <<"FREQ_SET">>) /\ UNCHANGED <<cmds, owed>>
    BY <1>0, <2>1, AwaitLeaves DEF Leaves, TypeOK
  <2>2. CASE CycleFails(task, <<"FAIL">>)
    BY <1>0, <2>2, CycleFailsLeaves DEF Leaves
  <2> QED BY <1>6, <2>1, <2>2 DEF FreqSet
<1>7. ASSUME PowerSet(r) PROVE Leaves({"ledOn"} \cup Ending)
  <2>1. CASE /\ SendKeycode("tune")
             /\ Await(task, "ledOn", <<"TUNE_SENT">>)
             /\ UNCHANGED owed
    <3>1. cmds' \in Seq(Keycodes)
      BY <2>1, SendType DEF Keycodes
    <3> QED BY <1>0, <2>1, <3>1, AwaitLeaves DEF Leaves, TypeOK
  <2>2. CASE CycleFails(task, <<"FAIL">>)
    BY <1>0, <2>2, CycleFailsLeaves DEF Leaves
  <2> QED BY <1>7, <2>1, <2>2 DEF PowerSet
<1>8. ASSUME CarrierOn(r)
      PROVE  Leaves(IF Raised(r) THEN Ending ELSE {"ledOff"})
  <2>1. CASE ~Raised(r)
    BY <1>0, <1>8, <2>1, AwaitLeaves DEF CarrierOn, Leaves, TypeOK
  <2>2. CASE Raised(r)
    BY <1>0, <1>8, <2>2, CycleFailsLeaves DEF CarrierOn, Leaves
  <2> QED BY <2>1, <2>2
<1>9. ASSUME CarrierOff(r) PROVE Leaves({"pause"} \cup Ending)
  <2> DEFINE off == IF Raised(r) THEN "FAIL" ELSE "CARRIER_OFF"
  <2>0. <<off>> \in Seq(Phases) /\ <<off, "SUCCESS">> \in Seq(Phases)
    BY <1>0
  <2>1. \/ Await(task, "pause", <<off, "SUCCESS">>) /\ UNCHANGED <<cmds, owed>>
        \/ Unwind(task, <<off, "SUCCESS">>)
        \/ CycleFails(task, <<off>>)
    BY <1>9 DEF CarrierOff
  <2> HIDE DEF off
  <2>2. CASE Await(task, "pause", <<off, "SUCCESS">>)
             /\ UNCHANGED <<cmds, owed>>
    BY <1>0, <2>0, <2>2, AwaitLeaves DEF Leaves, TypeOK
  <2>3. CASE Unwind(task, <<off, "SUCCESS">>)
    BY <1>0, <2>0, <2>3, UnwindLeaves DEF Leaves
  <2>4. CASE CycleFails(task, <<off>>)
    BY <1>0, <2>0, <2>4, CycleFailsLeaves DEF Leaves
  <2> QED BY <2>1, <2>2, <2>3, <2>4
<1>10. ASSUME Restored(r, m) PROVE Leaves(Ending)
  <2>1. AfterRestore(task, <<"FAIL">>) \/ AfterRestore(task, <<"VFO_RESTORED">>)
    BY <1>10 DEF Restored
  <2> QED BY <1>0, <2>1, AfterRestoreLeaves DEF Leaves
<1>11. ASSUME Released PROVE Leaves({"idle"})
  <2> DEFINE t == [NewFrame("single") EXCEPT !.snap = task.snap]
  <2>1. t \in Frame
    <3>1. NewFrame("single") \in Frame
      BY NewFrameType DEF Kinds
    <3>2. task.snap \in SUBSET Fields
      BY <1>0 DEF Frame
    <3> QED BY <3>1, <3>2 DEF Frame
  <2>2. Await(t, "idle", <<>>) /\ UNCHANGED <<cmds, owed>>
    BY <1>11 DEF Released
  <2> HIDE DEF t
  <2> QED BY <1>0, <2>1, <2>2, AwaitLeaves DEF Leaves, TypeOK
<1> QED BY <1>1, <1>2, <1>3, <1>4, <1>5, <1>6, <1>7, <1>8, <1>9, <1>10, <1>11

(* Where each await on the amplifier leads.                                *)
LEMMA WaitLeaves ==
  ASSUME TypeOK
  PROVE  /\ StbySeen => Leaves(Setup)
         /\ StbyTimeout => Leaves(Ending)
         /\ StbyStopped => Leaves(Ending)
         /\ LedOnSeen => Leaves({"key"})
         /\ LedOnMissed => Leaves(Ending)
         /\ LedOffSeen => Leaves({"unkey"})
         /\ LedOffMissed => Leaves({"unkey"})
         /\ PauseOver => Leaves(Setup)
         /\ OperWaited => Leaves({"release"})
<1> USE DEF Points, Preparing, Ending, Setup
<1>0. /\ task \in Frame /\ <<>> \in Seq(Phases)
      /\ \A p \in {"FAIL", "ABORT", "LED_ON", "LED_OFF", "OPER_RESTORED"} :
           <<p>> \in Seq(Phases)
  BY DEF TypeOK, Phases
<1>a. /\ [task EXCEPT !.wasOper = TRUE] \in Frame
      /\ [task EXCEPT !.cancelled = TRUE] \in Frame
      /\ [task EXCEPT !.success = TRUE] \in Frame
      /\ [task EXCEPT !.success = FALSE] \in Frame
  BY <1>0 DEF Frame
<1>1. ASSUME StbySeen PROVE Leaves(Setup)
  BY <1>0, <1>a, <1>1, InStbyLeaves DEF StbySeen
<1>2. ASSUME StbyTimeout PROVE Leaves(Ending)
  BY <1>0, <1>2, UnwindLeaves DEF StbyTimeout
<1>3. ASSUME StbyStopped PROVE Leaves(Ending)
  BY <1>0, <1>a, <1>3, UnwindLeaves DEF StbyStopped
<1>4. ASSUME LedOnSeen PROVE Leaves({"key"})
  BY <1>0, <1>4, AwaitLeaves DEF LedOnSeen, Leaves, TypeOK
<1>5. ASSUME LedOnMissed PROVE Leaves(Ending)
  BY <1>0, <1>5, CycleFailsLeaves DEF LedOnMissed
<1>6. ASSUME LedOffSeen PROVE Leaves({"unkey"})
  BY <1>0, <1>a, <1>6, AwaitLeaves DEF LedOffSeen, Leaves, TypeOK
<1>7. ASSUME LedOffMissed PROVE Leaves({"unkey"})
  BY <1>0, <1>a, <1>7, AwaitLeaves DEF LedOffMissed, Leaves, TypeOK
<1>8. ASSUME PauseOver PROVE Leaves(Setup)
  BY <1>0, <1>a, <1>8, NextCentreLeaves DEF PauseOver
<1>9. ASSUME OperWaited PROVE Leaves({"release"})
  BY <1>0, <1>9, AwaitLeaves DEF OperWaited, Leaves, TypeOK
<1> QED BY <1>1, <1>2, <1>3, <1>4, <1>5, <1>6, <1>7, <1>8, <1>9

-----------------------------------------------------------------------------
(* Type correctness. *)

(* Every step of the coroutine fixes a well-typed frame.                   *)
LEMMA SessionLeaves ==
  ASSUME TypeOK, Session
  PROVE  Leaves(Points)
<1>1. RadioOutcomes \subseteq Outcomes
  BY OutcomesAssumption
<1>2. CASE RadioStep
  <2> USE DEF Leaves, Setup, Points, Preparing, Ending
  <2>1. CASE Connected \/ ConnectFailed \/ BandRead \/ BandNotRead \/ Released
    <3>1. "ok" \in Outcomes
      BY DEF Outcomes
    <3> QED BY <2>1, <3>1, RadioLeaves
  <2>2. ASSUME NEW r \in RadioOutcomes,
               ModeSet(r) \/ FreqSet(r) \/ PowerSet(r) \/ CarrierOn(r)
               \/ CarrierOff(r)
        PROVE  Leaves(Points)
    BY <1>1, <2>2, RadioLeaves
  <2>3. ASSUME NEW f \in RadioOutcomes, NEW m \in RadioOutcomes, Restored(f, m)
        PROVE  Leaves(Points)
    BY <1>1, <2>3, RadioLeaves
  <2> QED BY <1>2, <2>1, <2>2, <2>3 DEF RadioStep
<1>3. CASE AmpWait
  BY <1>3, WaitLeaves DEF AmpWait, Leaves, Setup, Points, Preparing, Ending
<1> QED BY <1>2, <1>3 DEF Session

(* The variables no segment writes. *)
OthersOK ==
  /\ stop \in BOOLEAN
  /\ amp \in Amp
  /\ seen \in [op : {"default", "Oper", "Stby"}, led : BOOLEAN]
  /\ vfo \in Vfo
  /\ tx \in BOOLEAN /\ held \in BOOLEAN
  /\ home \in [mode : Modes, oper : BOOLEAN, known : BOOLEAN]
  /\ complained \in BOOLEAN /\ unsure \in BOOLEAN
  /\ tuned \subseteq Freqs

(* The other variables keep their types over an await on the radio.        *)
LEMMA RadioOthers ==
  ASSUME TypeOK, RadioStep, complained' \in BOOLEAN
  PROVE  OthersOK'
<1> USE DEF TypeOK, OthersOK, At
<1>1. CASE Connected \/ ConnectFailed \/ BandRead \/ BandNotRead \/ Released
  BY <1>1 DEF Connected, ConnectFailed, BandRead, BandNotRead, Released
<1>2. ASSUME NEW r \in RadioOutcomes, ModeSet(r) PROVE OthersOK'
  BY <1>2 DEF ModeSet, Vfo, Modes
<1>3. ASSUME NEW r \in RadioOutcomes, FreqSet(r) PROVE OthersOK'
  <2>1. Target(task) \in Freqs
    BY NAssumption DEF Target, Frame, Freqs
  <2> QED BY <1>3, <2>1 DEF FreqSet, Vfo
<1>4. ASSUME NEW r \in RadioOutcomes, PowerSet(r) PROVE OthersOK'
  BY <1>4 DEF PowerSet
<1>5. ASSUME NEW r \in RadioOutcomes, CarrierOn(r) PROVE OthersOK'
  BY <1>5 DEF CarrierOn, Applied, Raised
<1>6. ASSUME NEW r \in RadioOutcomes, CarrierOff(r) PROVE OthersOK'
  BY <1>6 DEF CarrierOff, Applied, Raised
<1>7. ASSUME NEW f \in RadioOutcomes, NEW m \in RadioOutcomes, Restored(f, m)
      PROVE  OthersOK'
  <2>1. 0 \in Freqs /\ vfo.freq \in Freqs /\ vfo.mode \in Modes
        /\ home.mode \in Modes
    BY NAssumption DEF Freqs, Vfo
  <2>2. vfo' \in Vfo
    BY <1>7, <2>1 DEF Restored, Vfo
  <2> QED BY <1>7, <2>2 DEF Restored
<1> QED BY <1>1, <1>2, <1>3, <1>4, <1>5, <1>6, <1>7 DEF RadioStep

(* And over an await on the amplifier.                                     *)
LEMMA WaitOthers ==
  ASSUME TypeOK, AmpWait, complained' \in BOOLEAN
  PROVE  OthersOK'
<1>1. CASE LedOffSeen
  <2>1. tuned' \subseteq Freqs
    BY <1>1 DEF LedOffSeen, TypeOK, Vfo
  <2> QED BY <1>1, <2>1 DEF LedOffSeen, At, TypeOK, OthersOK
<1>2. CASE ~LedOffSeen
  BY <1>2 DEF AmpWait, StbySeen, StbyTimeout, StbyStopped, LedOnSeen,
     LedOnMissed, LedOffMissed, PauseOver, OperWaited, At, TypeOK, OthersOK
<1> QED BY <1>1, <1>2

(* Every reachable state is well typed: task, the coroutine's frame, waits *)
(* at one of its awaits with the step inside the sweep (tune_band's loop). *)
THEOREM TypeCorrect == Spec => []TypeOK
<1>1. Init => TypeOK
  <2> SUFFICES ASSUME Init PROVE TypeOK
    OBVIOUS
  <2>1. task \in Frame
    <3>1. "idle" \in Points /\ NewFrame("single") \in Frame
      BY NewFrameType DEF Points, Kinds
    <3> QED BY <3>1 DEF Init, Frame
  <2>2. vfo \in Vfo
    BY NAssumption DEF Init, Vfo, Freqs
  <2>3. out \in Seq(Phases) /\ cmds \in Seq(Keycodes)
    BY DEF Init
  <2>4. amp \in Amp
    BY DEF Init, Amp
  <2>5. home \in [mode : Modes, oper : BOOLEAN, known : BOOLEAN]
    BY <2>2, <2>4 DEF Init, Vfo, Amp
  <2> QED BY <2>1, <2>2, <2>3, <2>4, <2>5 DEF Init, TypeOK
<1>2. TypeOK /\ [Next]_vars => TypeOK'
  <2> SUFFICES ASSUME TypeOK, [Next]_vars PROVE TypeOK'
    OBVIOUS
  <2>1. CASE Session
    <3>1. complained' \in BOOLEAN
      BY <2>1 DEF Session, TypeOK
    <3>2. OthersOK'
      BY <2>1, <3>1, RadioOthers, WaitOthers DEF Session
    <3> QED BY <2>1, <3>2, SessionLeaves DEF Leaves, OthersOK, TypeOK
  <2>2. ASSUME NEW k \in Kinds, Request(k) PROVE TypeOK'
    <3>1. task' \in Frame
      BY <2>2, NewFrameType DEF Request
    <3>a. vfo' \in Vfo
      <4>1. vfo \in Vfo /\ vfo' = [vfo EXCEPT !.freq = 0]
        BY <2>2 DEF Request, TypeOK
      <4> QED BY <4>1, NAssumption DEF Vfo, Freqs
    <3>b. StatusIsTrue \in BOOLEAN
      BY DEF StatusIsTrue
    <3>2. home' \in [mode : Modes, oper : BOOLEAN, known : BOOLEAN]
      BY <2>2, <3>b DEF Request, TypeOK, Vfo, Amp
    <3>3. out' \in Seq(Phases) /\ tuned' \subseteq Freqs
      BY <2>2 DEF Request
    <3>4. /\ UNCHANGED <<cmds, amp, seen, tx, held, unsure>>
          /\ stop' = FALSE /\ owed' = FALSE /\ complained' = FALSE
      BY <2>2 DEF Request
    <3> QED BY <3>1, <3>a, <3>2, <3>3, <3>4 DEF TypeOK
  <2>3. CASE RefuseRequest
    <3>1. out' \in Seq(Phases)
      BY <2>3 DEF RefuseRequest, Phases
    <3>2. UNCHANGED <<task, stop, cmds, amp, seen, vfo, tx, held, home, owed,
                      complained, unsure, tuned>>
      BY <2>3 DEF RefuseRequest, histVars
    <3> QED BY <3>1, <3>2 DEF TypeOK
  <2>4. CASE Stop
    BY <2>4 DEF Stop, TypeOK, histVars
  <2>5. CASE AmpObeys
    <3>1. cmds' \in Seq(Keycodes)
      BY <2>5 DEF AmpObeys, TypeOK
    <3>2. amp' \in Amp
      BY <2>5 DEF AmpObeys, TypeOK, Amp
    <3> QED BY <2>5, <3>1, <3>2 DEF AmpObeys, Outside, TypeOK, histVars
  <2>6. CASE AmpTuned
    BY <2>6 DEF AmpTuned, Outside, TypeOK, histVars, Amp
  <2>7. CASE CsvFrame
    BY <2>7 DEF CsvFrame, Reported, Outside, TypeOK, histVars
  <2>8. CASE RcuFrame
    BY <2>8 DEF RcuFrame, Outside, TypeOK, histVars, Amp
  <2>9. CASE Press
    <3>1. amp' \in Amp
      BY <2>9 DEF Press, TypeOK, Amp
    <3> QED BY <2>9, <3>1 DEF Press, Outside, TypeOK, histVars
  <2>10. CASE UNCHANGED vars
    BY <2>10 DEF vars, TypeOK
  <2> QED BY <2>1, <2>2, <2>3, <2>4, <2>5, <2>6, <2>7, <2>8, <2>9, <2>10
          DEF Next, Client, World
<1> QED BY <1>1, <1>2, PTL DEF Spec

-----------------------------------------------------------------------------
(* The session keeps TuneSession's promises. *)

(* Every step of the coroutine, as a step of the abstract session: tx and  *)
(* unsure change only with the carrier commands, and the carrier is asked  *)
(* for only from the LED wait, whose poll looks at the stop flag first.    *)
LEMMA SessionStages ==
  ASSUME TypeOK, Session
  PROVE  Promise!Next \/ UNCHANGED Promise!vars
<1> USE DEF Promise!Next, Promise!vars, Stage, Setup, Points, Preparing, Ending,
            Leaves, At
<1>1. ASSUME Connected \/ ConnectFailed \/ BandRead \/ BandNotRead
      PROVE  Promise!GiveUp \/ UNCHANGED Promise!vars
  <2>1. "ok" \in Outcomes
    BY DEF Outcomes
  <2>2. task'.pc \in {"where"} \cup Setup
    BY <1>1, <2>1, RadioLeaves
  <2>3. task.pc \in {"connect", "where"} /\ UNCHANGED <<stop, tx, unsure>>
    BY <1>1 DEF Connected, ConnectFailed, BandRead, BandNotRead
  <2> QED BY <2>2, <2>3 DEF Promise!GiveUp
<1>2. ASSUME NEW r \in Outcomes, ModeSet(r) \/ FreqSet(r) \/ PowerSet(r)
      PROVE  Promise!GiveUp \/ UNCHANGED Promise!vars
  <2>1. task'.pc \in {"ledOn"} \cup Setup
    BY <1>2, RadioLeaves
  <2>2. task.pc \in {"mode", "freq", "power"} /\ UNCHANGED <<stop, tx, unsure>>
    BY <1>2 DEF ModeSet, FreqSet, PowerSet
  <2> QED BY <2>1, <2>2 DEF Promise!GiveUp
<1>3. ASSUME NEW r \in Outcomes, CarrierOn(r)
      PROVE  Promise!Keyed \/ Promise!KeyRaised
  <2>1. task'.pc \in (IF Raised(r) THEN Ending ELSE {"ledOff"})
    BY <1>3, RadioLeaves
  <2>2. /\ task.pc = "key" /\ UNCHANGED stop
        /\ tx' = (tx \/ Applied(r)) /\ unsure' = (unsure \/ Raised(r))
    BY <1>3 DEF CarrierOn
  <2>3. tx \in BOOLEAN /\ unsure \in BOOLEAN
    BY DEF TypeOK
  <2>4. CASE Raised(r)
    <3>1. tx' \in {tx, TRUE} /\ unsure' = TRUE
      BY <2>2, <2>3, <2>4
    <3> QED BY <2>1, <2>2, <2>4, <3>1 DEF Promise!KeyRaised
  <2>5. CASE ~Raised(r)
    <3>1. tx' = TRUE /\ unsure' = unsure
      BY <2>2, <2>3, <2>5 DEF Raised, Applied
    <3> QED BY <2>1, <2>2, <2>5, <3>1 DEF Promise!Keyed
  <2> QED BY <2>4, <2>5
<1>4. ASSUME NEW r \in Outcomes, CarrierOff(r)
      PROVE  Promise!Unkeyed
  <2>1. task'.pc \in {"pause"} \cup Ending
    BY <1>4, RadioLeaves
  <2>2. /\ task.pc = "unkey" /\ UNCHANGED stop
        /\ tx' = (tx /\ ~Applied(r)) /\ unsure' = Raised(r)
    BY <1>4 DEF CarrierOff
  <2>3. tx \in BOOLEAN
    BY DEF TypeOK
  <2>4. \/ tx' = FALSE /\ unsure' = FALSE
        \/ tx' \in {tx, FALSE} /\ unsure' = TRUE
    BY <2>2, <2>3 DEF Applied, Raised
  <2> QED BY <2>1, <2>2, <2>4 DEF Promise!Unkeyed
<1>5. ASSUME NEW f \in Outcomes, NEW m \in Outcomes, Restored(f, m)
      PROVE  UNCHANGED Promise!vars
  <2>1. task'.pc \in Ending
    BY <1>5, RadioLeaves
  <2> QED BY <1>5, <2>1 DEF Restored
<1>6. ASSUME Released PROVE Promise!Finish
  <2>1. "ok" \in Outcomes
    BY DEF Outcomes
  <2>2. task'.pc = "idle"
    BY <1>6, <2>1, RadioLeaves
  <2> QED BY <1>6, <2>2 DEF Released, Promise!Finish
<1>7. ASSUME StbySeen \/ StbyTimeout \/ StbyStopped \/ LedOnMissed \/ PauseOver
      PROVE  Promise!GiveUp \/ UNCHANGED Promise!vars
  <2>1. task'.pc \in Setup
    BY <1>7, WaitLeaves
  <2>2. task.pc \in {"stby", "ledOn", "pause"} /\ UNCHANGED <<stop, tx, unsure>>
    BY <1>7 DEF StbySeen, StbyTimeout, StbyStopped, LedOnMissed, PauseOver
  <2> QED BY <2>1, <2>2 DEF Promise!GiveUp
<1>8. ASSUME LedOnSeen PROVE Promise!Key
  <2>1. task'.pc = "key"
    BY <1>8, WaitLeaves
  <2> QED BY <1>8, <2>1 DEF LedOnSeen, Promise!Key
<1>9. ASSUME LedOffSeen \/ LedOffMissed PROVE Promise!Unkey
  <2>1. task'.pc = "unkey"
    BY <1>9, WaitLeaves
  <2> QED BY <1>9, <2>1 DEF LedOffSeen, LedOffMissed, Promise!Unkey
<1>10. ASSUME OperWaited PROVE UNCHANGED Promise!vars
  <2>1. task'.pc = "release"
    BY <1>10, WaitLeaves
  <2> QED BY <1>10, <2>1 DEF OperWaited
<1>11. RadioOutcomes \subseteq Outcomes
  BY OutcomesAssumption
<1> QED BY <1>1, <1>2, <1>3, <1>4, <1>5, <1>6, <1>7, <1>8, <1>9, <1>10, <1>11
        DEF Session, RadioStep, AmpWait

(* Every step is one of the abstract session, or a stutter.                *)
LEMMA StepPromise ==
  TypeOK /\ [Next]_vars => [Promise!Next]_Promise!vars
<1> SUFFICES ASSUME TypeOK, [Next]_vars
             PROVE  Promise!Next \/ UNCHANGED Promise!vars
  OBVIOUS
<1>1. CASE Session
  BY <1>1, SessionStages
<1>2. ASSUME NEW k \in Kinds, Request(k) PROVE Promise!Next
  <2>1. task'.pc = "connect"
    BY <1>2, NewFrameType DEF Request
  <2> QED BY <1>2, <2>1 DEF Request, Running, Promise!Next, Promise!Start,
                            Stage, Preparing, Ending
<1>3. CASE Stop
  BY <1>3 DEF Stop, Promise!Next, Promise!Halt, Stage, histVars
<1>4. CASE RefuseRequest \/ World
  BY <1>4 DEF RefuseRequest, World, AmpObeys, AmpTuned, CsvFrame, RcuFrame,
              Press, Outside, histVars, Promise!vars, Stage
<1>5. CASE UNCHANGED vars
  BY <1>5 DEF vars, Promise!vars, Stage
<1> QED BY <1>1, <1>2, <1>3, <1>4, <1>5 DEF Next, Client

(* TuneOrchestrator implements TuneSession: whatever the radio and the     *)
(* amplifier do, the carrier is asked for only inside a session that has   *)
(* not been stopped, is asked to go off after every cycle it came on in,   *)
(* and is not asked for again once a cycle has failed.                     *)
THEOREM Implementation == Spec => ImplementsSession
<1>1. Init => Promise!Init
  BY DEF Init, Promise!Init, Stage, Preparing, Ending, NewFrame
<1> QED BY <1>1, StepPromise, TypeCorrect, PTL DEF Spec, ImplementsSession, Promise!Spec

StageIsPc == /\ Stage = "keying" <=> task.pc = "key"
             /\ Stage \in {"keyed", "unkeying"} <=> task.pc \in {"ledOff", "unkey"}

(* The stages of the abstract session, told by the await.                  *)
LEMMA StageReadsPc == TypeOK => StageIsPc
  BY DEF TypeOK, Frame, Points, Stage, StageIsPc, Preparing, Ending

(* The radio transmits only while the coroutine still owes a carrier-off,  *)
(* or after a carrier command that raised (the finally of _run_one_cycle). *)
THEOREM CarrierIsAccounted == Spec => []CarrierAccounted
<1>1. Init => Promise!Accounted
  BY DEF Init, Promise!Accounted
<1>2. TypeOK /\ Promise!Accounted /\ [Next]_vars => Promise!Accounted'
  <2> SUFFICES ASSUME TypeOK, Promise!Accounted, [Next]_vars
               PROVE  Promise!Accounted'
    OBVIOUS
  <2>1. Promise!Next \/ UNCHANGED Promise!vars
    BY StepPromise
  <2>2. tx \in BOOLEAN /\ unsure \in BOOLEAN
    BY DEF TypeOK
  <2> HIDE DEF Stage
  <2> QED BY <2>1, <2>2
          DEF Promise!Accounted, Promise!vars, Promise!Next, Promise!Start,
              Promise!Halt, Promise!Key, Promise!Keyed, Promise!KeyRaised,
              Promise!Unkey, Promise!Unkeyed, Promise!GiveUp, Promise!Finish
<1>3. TypeOK /\ Promise!Accounted => CarrierAccounted
  BY StageReadsPc DEF StageIsPc, Promise!Accounted, CarrierAccounted
<1> QED BY <1>1, <1>2, <1>3, TypeCorrect, PTL DEF Spec

(* A stop that arrives before the carrier has been asked for keeps it off: *)
(* the LED poll looks at the flag before it looks at the LED.              *)
THEOREM StopKeepsCarrierOff == Spec => StopNeverKeys
<1>1. TypeOK /\ TypeOK' /\ [Next]_vars
        => [stop /\ task.pc # "key" => task'.pc # "key"]_vars
  <2> SUFFICES ASSUME TypeOK, TypeOK', [Next]_vars, stop, task.pc # "key"
               PROVE  task'.pc # "key"
    OBVIOUS
  <2>1. Promise!Next \/ UNCHANGED Promise!vars
    BY StepPromise
  <2>2. Stage # "keying" /\ (Stage' = "keying" <=> task'.pc = "key")
    <3>1. StageIsPc
      BY StageReadsPc
    <3>2. StageIsPc'
      BY DEF TypeOK, Frame, Points, Stage, StageIsPc, Preparing, Ending
    <3> QED BY <3>1, <3>2 DEF StageIsPc
  <2>3. Stage' # "keying"
    BY <2>1, <2>2
       DEF Promise!vars, Promise!Next, Promise!Start, Promise!Halt, Promise!Key,
           Promise!Keyed, Promise!KeyRaised, Promise!Unkey, Promise!Unkeyed,
           Promise!GiveUp, Promise!Finish
  <2> QED BY <2>2, <2>3
<1> QED BY <1>1, TypeCorrect, PTL DEF Spec, StopNeverKeys

-----------------------------------------------------------------------------
(* What each segment says and does. *)

(* The phases of the step are those of said and some of more.              *)
Says(said, more) ==
  /\ ToSet(said) \subseteq ToSet(out')
  /\ ToSet(out') \subseteq ToSet(said) \cup more

(* The locals that outlive a cycle are those of t. *)
Keeps(t) ==
  /\ task'.kind = t.kind
  /\ task'.snap = t.snap
  /\ task'.wasOper = t.wasOper
  /\ task'.cancelled = t.cancelled

(* The phases of a queue of phases that grew by one, or by two.            *)
LEMMA OneMoreSaid ==
  ASSUME NEW said \in Seq(Phases), NEW p \in Phases
  PROVE  /\ Append(said, p) \in Seq(Phases)
         /\ ToSet(Append(said, p)) = ToSet(said) \cup {p}
         /\ said \o <<p>> \in Seq(Phases)
         /\ ToSet(said \o <<p>>) = ToSet(said) \cup {p}
<1>1. said \o <<p>> = Append(said, p)
  OBVIOUS
<1>2. Append(said, p) \in Seq(Phases)
  OBVIOUS
<1>3. ASSUME NEW x
      PROVE  x \in ToSet(Append(said, p)) <=> x \in ToSet(said) \cup {p}
  <2>1. /\ DOMAIN Append(said, p) = DOMAIN said \cup {Len(said) + 1}
        /\ Append(said, p)[Len(said) + 1] = p
        /\ \A i \in DOMAIN said : Append(said, p)[i] = said[i]
    OBVIOUS
  <2> QED BY <2>1 DEF ToSet
<1> QED BY <1>1, <1>2, <1>3

(* OPERATE is pressed and waited for if it was taken and is not back yet.  *)
HandsBack(t) ==
  /\ owed' = (owed /\ ~t.wasOper)
  /\ \/ /\ task'.pc = "release"
        /\ cmds' = cmds
        /\ t.wasOper => OpStatus = "Oper"
     \/ /\ task'.pc = "oper"
        /\ t.wasOper /\ OpStatus # "Oper"
        /\ cmds' = Append(cmds, "oper")

(* The restore if there is anything to restore, or a cancellation reported *)
(* and OPERATE given back.                                                 *)
Unwinds(t) ==
  \/ task'.pc = "restore" /\ t.snap # {} /\ UNCHANGED <<cmds, owed>>
  \/ /\ t.snap = {}
     /\ t.cancelled => Complaint
     /\ HandsBack(t)

(* A cycle under way: the radio is set up for its centre.                  *)
Begins(t, step) ==
  /\ task'.pc = IF WantsFreq(t) THEN "freq" ELSE "power"
  /\ task'.step = step
  /\ OpStatus = "Stby"
  /\ UNCHANGED <<cmds, owed>>

(* HandBack says no more than OPER_RESTORED.                               *)
LEMMA HandBackDoes ==
  ASSUME TypeOK, NEW t \in Frame, NEW said \in Seq(Phases), HandBack(t, said)
  PROVE  Keeps(t) /\ Says(said, {"OPER_RESTORED"}) /\ HandsBack(t)
<1>1. /\ "OPER_RESTORED" \in Phases
      /\ t.wasOper \in BOOLEAN /\ owed \in BOOLEAN
  BY DEF Phases, Frame, TypeOK
<1>2. ToSet(Append(said, "OPER_RESTORED")) = ToSet(said) \cup {"OPER_RESTORED"}
  BY <1>1, OneMoreSaid
<1>3. /\ Keeps(t)
      /\ out' \in {said, Append(said, "OPER_RESTORED")}
  BY DEF HandBack, Await, Frame, Keeps
<1>4. Says(said, {"OPER_RESTORED"})
  BY <1>2, <1>3 DEF Says
<1>5. HandsBack(t)
  BY <1>1 DEF HandBack, Await, Frame, HandsBack, SendKeycode
<1> QED BY <1>3, <1>4, <1>5

(* A cancellation is reported before OPERATE is given back.                *)
LEMMA AfterRestoreDoes ==
  ASSUME TypeOK, NEW t \in Frame, NEW said \in Seq(Phases),
         AfterRestore(t, said)
  PROVE  /\ Keeps(t) /\ Says(said, {"ABORT", "OPER_RESTORED"})
         /\ HandsBack(t)
         /\ t.cancelled => "ABORT" \in ToSet(out')
<1> DEFINE more == IF t.cancelled THEN Append(said, "ABORT") ELSE said
<1>1. "ABORT" \in Phases
  BY DEF Phases
<1>2. /\ more \in Seq(Phases)
      /\ ToSet(more) = ToSet(said) \cup (IF t.cancelled THEN {"ABORT"} ELSE {})
  BY <1>1, OneMoreSaid
<1>3. HandBack(t, more)
  BY DEF AfterRestore
<1> HIDE DEF more
<1>4. Keeps(t) /\ Says(more, {"OPER_RESTORED"}) /\ HandsBack(t)
  BY <1>2, <1>3, HandBackDoes
<1> QED BY <1>2, <1>4 DEF Says

(* So it is when there is nothing to restore.                              *)
LEMMA UnwindDoes ==
  ASSUME TypeOK, NEW t \in Frame, NEW said \in Seq(Phases), Unwind(t, said)
  PROVE  Keeps(t) /\ Says(said, {"ABORT", "OPER_RESTORED"}) /\ Unwinds(t)
<1>1. CASE t.snap # {} /\ Await(t, "restore", said) /\ UNCHANGED <<cmds, owed>>
  BY <1>1 DEF Await, Frame, Keeps, Says, Unwinds
<1>2. CASE t.snap = {} /\ AfterRestore(t, said)
  BY <1>2, AfterRestoreDoes DEF Unwinds, Complaint
<1> QED BY <1>1, <1>2 DEF Unwind

(* Phases that say a session went wrong. *)
Complaints == {"FAIL", "ABORT"}

(* A failed cycle says so. *)
LEMMA CycleFailsDoes ==
  ASSUME TypeOK, NEW t \in Frame, NEW said \in Seq(Phases),
         CycleFails(t, said)
  PROVE  /\ Keeps(t) /\ Says(said, Complaints \cup {"OPER_RESTORED"})
         /\ Unwinds(t) /\ "FAIL" \in ToSet(out')
<1> DEFINE more == said \o (IF IsSweep(t) THEN <<"FAIL", "FAIL">>
                                          ELSE <<"FAIL">>)
<1>1. "FAIL" \in Phases
  BY DEF Phases
<1>2. more \in Seq(Phases) /\ ToSet(more) = ToSet(said) \cup {"FAIL"}
  <2>1. CASE IsSweep(t)
    <3>1. more = Append(Append(said, "FAIL"), "FAIL")
      BY <1>1, <2>1
    <3>2. /\ Append(said, "FAIL") \in Seq(Phases)
          /\ ToSet(Append(said, "FAIL")) = ToSet(said) \cup {"FAIL"}
      BY <1>1, OneMoreSaid
    <3>3. /\ Append(Append(said, "FAIL"), "FAIL") \in Seq(Phases)
          /\ ToSet(Append(Append(said, "FAIL"), "FAIL"))
               = ToSet(Append(said, "FAIL")) \cup {"FAIL"}
      BY <1>1, <3>2, OneMoreSaid
    <3> QED BY <3>1, <3>2, <3>3
  <2>2. CASE ~IsSweep(t)
    BY <1>1, <2>2, OneMoreSaid
  <2> QED BY <2>1, <2>2
<1>3. Unwind(t, more)
  BY DEF CycleFails
<1> HIDE DEF more
<1>4. Keeps(t) /\ Says(more, {"ABORT", "OPER_RESTORED"}) /\ Unwinds(t)
  BY <1>2, <1>3, UnwindDoes
<1> QED BY <1>2, <1>4 DEF Says, Complaints

(* A cycle that starts is under way, or has failed.                        *)
LEMMA StartCycleDoes ==
  ASSUME TypeOK, NEW t \in Frame, NEW said \in Seq(Phases),
         StartCycle(t, said)
  PROVE  /\ Keeps(t)
         /\ Says(said, Complaints \cup {"STARTED", "PREFLIGHT_OK", "OPER_RESTORED"})
         /\ Begins(t, t.step) \/ (Unwinds(t) /\ Complaint)
<1> DEFINE begun == Append(said, "STARTED")
           ready == OpStatus = "Stby" /\ ~seen.led
<1>1. {"STARTED", "FAIL", "PREFLIGHT_OK"} \subseteq Phases
  BY DEF Phases
<1>2. begun \in Seq(Phases) /\ ToSet(begun) = ToSet(said) \cup {"STARTED"}
  BY <1>1, OneMoreSaid
<1> HIDE DEF begun
<1>3. /\ Append(begun, "FAIL") \in Seq(Phases)
      /\ ToSet(Append(begun, "FAIL")) = ToSet(begun) \cup {"FAIL"}
      /\ ToSet(Append(begun, "PREFLIGHT_OK")) = ToSet(begun) \cup {"PREFLIGHT_OK"}
  BY <1>1, <1>2, OneMoreSaid
<1>4. \/ CycleFails(t, Append(begun, "FAIL"))
      \/ /\ ready
         /\ Await(t, IF WantsFreq(t) THEN "freq" ELSE "power",
                  Append(begun, "PREFLIGHT_OK"))
         /\ UNCHANGED <<cmds, owed>>
  BY DEF StartCycle, begun
<1>5. CASE CycleFails(t, Append(begun, "FAIL"))
  <2>1. /\ Keeps(t)
        /\ Says(Append(begun, "FAIL"), Complaints \cup {"OPER_RESTORED"})
        /\ Unwinds(t) /\ "FAIL" \in ToSet(out')
    BY <1>3, <1>5, CycleFailsDoes
  <2> QED BY <1>2, <1>3, <2>1 DEF Says, Complaints, Complaint
<1>6. CASE /\ ready
           /\ Await(t, IF WantsFreq(t) THEN "freq" ELSE "power",
                    Append(begun, "PREFLIGHT_OK"))
           /\ UNCHANGED <<cmds, owed>>
  <2>1. Keeps(t) /\ Begins(t, t.step) /\ out' = Append(begun, "PREFLIGHT_OK")
    BY <1>6 DEF Await, Frame, Keeps, Begins
  <2> QED BY <1>2, <1>3, <2>1 DEF Says
<1> QED BY <1>4, <1>5, <1>6

(* All phases but the two that promise something.                          *)
Quiet == Phases \ {"VFO_RESTORED", "SWEEP_DONE"}

(* The next cycle is under way, or the session has complained and unwinds. *)
Cycles(t, step) ==
  Keeps(t) /\ (Begins(t, step) \/ (Unwinds(t) /\ Complaint))

(* A failed cycle, a complaint among the phases, makes no promise.         *)
LEMMA QuietPhases ==
  /\ {"STARTED", "PREFLIGHT_OK", "OPER_RESTORED", "SWEEP_STARTED", "SWEEP_STEP",
      "STBY_SET", "MODE_SET", "VFO_SAVED"} \cup Complaints \subseteq Quiet
  /\ Quiet \subseteq Phases
  BY DEF Quiet, Phases, Complaints

(* The head of the sweep's loop: the next centre, or an end of the sweep,  *)
(* which is a SWEEP_DONE only after the last centre.                       *)
LEMMA NextCentreDoes ==
  ASSUME TypeOK, NEW t \in Frame, NEW said \in Seq(Phases),
         NextCentre(t, said)
  PROVE  /\ t.step = N \/ Cycles(t, t.step + 1)
         /\ t.step = N => Keeps(t) /\ Unwinds(t)
         /\ Says(said, Quiet \cup (IF t.step = N THEN {"SWEEP_DONE"} ELSE {}))
<1>1. \A p \in {"SWEEP_DONE", "ABORT", "SWEEP_STEP"} :
        /\ Append(said, p) \in Seq(Phases)
        /\ ToSet(Append(said, p)) = ToSet(said) \cup {p}
  BY OneMoreSaid DEF Phases
<1>2. t.step \in 0 .. N /\ N \in Nat
  BY NAssumption DEF Frame
<1>3. CASE t.step = N /\ Unwind(t, Append(said, "SWEEP_DONE"))
  <2>1. /\ Keeps(t) /\ Unwinds(t)
        /\ Says(Append(said, "SWEEP_DONE"), {"ABORT", "OPER_RESTORED"})
    BY <1>1, <1>3, UnwindDoes
  <2> QED BY <1>1, <1>3, <2>1, QuietPhases DEF Says, Complaints
<1>4. CASE t.step < N /\ Unwind(t, Append(said, "ABORT"))
  <2>1. /\ Keeps(t) /\ Unwinds(t)
        /\ Says(Append(said, "ABORT"), {"ABORT", "OPER_RESTORED"})
    BY <1>1, <1>4, UnwindDoes
  <2>2. "ABORT" \in ToSet(out') /\ t.step # N
    BY <1>1, <1>2, <1>4, <2>1 DEF Says
  <2>3. Says(said, Quiet)
    BY <1>1, <2>1, QuietPhases DEF Says, Complaints
  <2> QED BY <2>1, <2>2, <2>3 DEF Cycles, Complaint
<1>5. CASE /\ t.step < N
           /\ StartCycle([t EXCEPT !.step = @ + 1],
                         Append(said, "SWEEP_STEP"))
  <2> DEFINE u == [t EXCEPT !.step = @ + 1]
  <2>1. /\ u \in Frame /\ u.step = t.step + 1 /\ u.kind = t.kind
        /\ u.snap = t.snap /\ u.wasOper = t.wasOper
        /\ u.cancelled = t.cancelled
    BY <1>2, <1>5 DEF Frame
  <2>2. StartCycle(u, Append(said, "SWEEP_STEP"))
    BY <1>5
  <2> HIDE DEF u
  <2>3. /\ Keeps(u)
        /\ Says(Append(said, "SWEEP_STEP"),
                Complaints \cup {"STARTED", "PREFLIGHT_OK", "OPER_RESTORED"})
        /\ Begins(u, u.step) \/ (Unwinds(u) /\ Complaint)
    BY <1>1, <2>1, <2>2, StartCycleDoes
  <2>4. Cycles(t, t.step + 1)
    BY <2>1, <2>3 DEF Cycles, Keeps, Begins, Unwinds, HandsBack, WantsFreq
  <2>5. Says(said, Quiet) /\ t.step # N
    BY <1>1, <1>2, <1>5, <2>3, QuietPhases DEF Says
  <2> QED BY <2>4, <2>5
<1> QED BY <1>3, <1>4, <1>5 DEF NextCentre

(* The step of the first cycle. *)
First(t) == IF IsSweep(t) THEN 1 ELSE t.step

(* The amplifier is in STBY: the first cycle starts.                       *)
LEMMA InStbyDoes ==
  ASSUME TypeOK, NEW t \in Frame, NEW said \in Seq(Phases), InStby(t, said),
         IsSweep(t) => t.step = 0
  PROVE  Cycles(t, First(t)) /\ Says(said, Quiet)
<1>1. CASE IsSweep(t) /\ NextCentre(t, said \o <<"STBY_SET", "SWEEP_STARTED">>)
  <2> DEFINE more == said \o <<"STBY_SET", "SWEEP_STARTED">>
  <2>1. more = Append(Append(said, "STBY_SET"), "SWEEP_STARTED")
    OBVIOUS
  <2>2. "STBY_SET" \in Phases /\ "SWEEP_STARTED" \in Phases
    BY DEF Phases
  <2>3. /\ Append(said, "STBY_SET") \in Seq(Phases)
        /\ ToSet(Append(said, "STBY_SET")) = ToSet(said) \cup {"STBY_SET"}
    BY <2>2, OneMoreSaid
  <2>4. /\ Append(Append(said, "STBY_SET"), "SWEEP_STARTED") \in Seq(Phases)
        /\ ToSet(Append(Append(said, "STBY_SET"), "SWEEP_STARTED"))
             = ToSet(Append(said, "STBY_SET")) \cup {"SWEEP_STARTED"}
    BY <2>2, <2>3, OneMoreSaid
  <2>5. /\ more \in Seq(Phases)
        /\ ToSet(more) = ToSet(said) \cup {"STBY_SET", "SWEEP_STARTED"}
    BY <2>1, <2>3, <2>4
  <2>6. NextCentre(t, more) /\ t.step # N /\ t.step = 0
    BY <1>1, NAssumption
  <2> HIDE DEF more
  <2>7. Cycles(t, t.step + 1) /\ Says(more, Quiet)
    BY <2>5, <2>6, NextCentreDoes
  <2>8. Says(said, Quiet)
    BY <2>5, <2>7, QuietPhases DEF Says
  <2> QED BY <1>1, <2>6, <2>7, <2>8 DEF First
<1>2. CASE ~IsSweep(t) /\ StartCycle(t, Append(said, "STBY_SET"))
  <2>1. "STBY_SET" \in Phases
    BY DEF Phases
  <2>2. /\ Append(said, "STBY_SET") \in Seq(Phases)
        /\ ToSet(Append(said, "STBY_SET")) = ToSet(said) \cup {"STBY_SET"}
    BY <2>1, OneMoreSaid
  <2>3. /\ Keeps(t)
        /\ Says(Append(said, "STBY_SET"),
                Complaints \cup {"STARTED", "PREFLIGHT_OK", "OPER_RESTORED"})
        /\ Begins(t, t.step) \/ (Unwinds(t) /\ Complaint)
    BY <1>2, <2>2, StartCycleDoes
  <2>4. Says(said, Quiet)
    BY <2>2, <2>3, QuietPhases DEF Says
  <2> QED BY <1>2, <2>3, <2>4 DEF Cycles, First
<1> QED BY <1>1, <1>2 DEF InStby

(* OPERATE is pressed, and STBY waited for. *)
TakesOper(t) ==
  /\ task'.pc = "stby" /\ task'.step = t.step
  /\ OpStatus = "Oper"
  /\ cmds' = Append(cmds, "oper")
  /\ owed' = TRUE

(* CW is asked for, with a mode to put back. *)
AsksMode(t) ==
  /\ task'.pc = "mode" /\ task'.step = t.step
  /\ "mode" \in t.snap
  /\ UNCHANGED <<cmds, owed>>

(* The amplifier in STBY, or sent there. *)
LEMMA EnsureStbyDoes ==
  ASSUME TypeOK, NEW t \in Frame, NEW said \in Seq(Phases),
         EnsureStby(t, said), IsSweep(t) => t.step = 0
  PROVE  /\ Cycles(t, First(t)) \/ (Keeps(t) /\ TakesOper(t))
         /\ Says(said, Quiet)
<1>1. CASE InStby(t, said)
  BY <1>1, InStbyDoes
<1>2. CASE /\ OpStatus = "Oper"
           /\ SendKeycode("oper")
           /\ Await(t, "stby", said)
           /\ owed' = TRUE
  BY <1>2 DEF SendKeycode, Await, Frame, Keeps, TakesOper, Says
<1> QED BY <1>1, <1>2 DEF EnsureStby

(* The frame with what the snapshot holds.                                 *)
Snapped(t, known) == [t EXCEPT !.snap = known]

Prepares(t) ==
  \/ Cycles(t, First(t))
  \/ Keeps(t) /\ (TakesOper(t) \/ AsksMode(t))

(* After the snapshot: the mode, STBY or the first cycle.                  *)
LEMMA TakeSnapshotDoes ==
  ASSUME TypeOK, NEW t \in Frame, NEW known \in SUBSET Fields,
         NEW said \in Seq(Phases), TakeSnapshot(t, known, said),
         IsSweep(t) => t.step = 0
  PROVE  Prepares(Snapped(t, known)) /\ Says(said, Quiet)
<1> DEFINE u == Snapped(t, known)
           more == Append(said, "VFO_SAVED")
<1>1. "VFO_SAVED" \in Phases /\ "MODE_SET" \in Phases
  BY DEF Phases
<1>2. more \in Seq(Phases) /\ ToSet(more) = ToSet(said) \cup {"VFO_SAVED"}
  BY <1>1, OneMoreSaid
<1>3. u \in Frame /\ (IsSweep(u) => u.step = 0)
  BY DEF Frame, Snapped, IsSweep
<1>4. SetTuneMode(u, more)
  BY DEF TakeSnapshot, Snapped
<1> HIDE DEF u, more
<1>5. /\ Append(more, "MODE_SET") \in Seq(Phases)
      /\ ToSet(Append(more, "MODE_SET")) = ToSet(more) \cup {"MODE_SET"}
  BY <1>1, <1>2, OneMoreSaid
<1>6. CASE EnsureStby(u, Append(more, "MODE_SET"))
  <2>1. /\ Cycles(u, First(u)) \/ (Keeps(u) /\ TakesOper(u))
        /\ Says(Append(more, "MODE_SET"), Quiet)
    BY <1>3, <1>5, <1>6, EnsureStbyDoes
  <2>2. Says(said, Quiet)
    BY <1>2, <1>5, <2>1, QuietPhases DEF Says
  <2> QED BY <2>1, <2>2 DEF Prepares, u
<1>7. CASE EnsureStby(u, more)
  <2>1. /\ Cycles(u, First(u)) \/ (Keeps(u) /\ TakesOper(u))
        /\ Says(more, Quiet)
    BY <1>2, <1>3, <1>7, EnsureStbyDoes
  <2>2. Says(said, Quiet)
    BY <1>2, <2>1, QuietPhases DEF Says
  <2> QED BY <2>1, <2>2 DEF Prepares, u
<1>8. CASE /\ "mode" \in u.snap
           /\ Await(u, "mode", more)
           /\ UNCHANGED <<cmds, owed>>
  <2>1. Keeps(u) /\ AsksMode(u) /\ out' = more
    BY <1>3, <1>8 DEF Await, Frame, Keeps, AsksMode
  <2>2. Says(said, Quiet)
    BY <1>2, <2>1, QuietPhases DEF Says
  <2> QED BY <2>1, <2>2 DEF Prepares, u
<1> QED BY <1>4, <1>6, <1>7, <1>8 DEF SetTuneMode

-----------------------------------------------------------------------------
(* Three accounts of a session, kept whatever the amplifier does: what the *)
(* sweep has done, what the rig is owed, what the amplifier is owed.  None *)
(* of the properties they prove is inductive: each speaks of the session's *)
(* end, or of one phase, and says nothing of the awaits that lead there.   *)

(* Awaits before the first cycle, and those between FREQ_SET and LED_OFF.  *)
BeforeCycles == {"connect", "where", "mode", "stby"}
OnDial == {"power", "ledOn", "key", "ledOff"}
Leaving == {"oper", "release", "idle"}

(* Centre by centre: the cycle under way is that of task.step, on its own  *)
(* frequency, and every centre before it was tuned.                        *)
SweepOnCourse ==
  /\ task.pc = "pause" => IsSweep(task)
  /\ IsSweep(task) =>
       /\ task.pc \in BeforeCycles => task.step = 0 /\ tuned = {}
       /\ task.pc \in {"freq"} \cup OnDial =>
            task.step > 0 /\ tuned = 1 .. task.step - 1
       /\ task.pc \in OnDial => vfo.freq = task.step
       /\ (task.pc = "unkey" /\ task.success) \/ task.pc = "pause" =>
            task.step > 0 /\ tuned = 1 .. task.step

(* The mode is touched only when it can be put back, and the rig is as it  *)
(* was found once past the restore, unless the session complained.        *)
RigOnLoan ==
  /\ task.pc \in {"connect", "where"} => task.snap = {}
  /\ task.pc = "mode" => "mode" \in task.snap
  /\ "mode" \notin task.snap => vfo.mode = home.mode
  /\ task.pc \in Leaving /\ ~complained =>
       /\ vfo.mode = home.mode
       /\ "freq" \in task.snap => vfo.freq = 0

(* Who still has OPERATE to give back, when it is owed without a complaint.*)
OperOnLoan ==
  owed /\ ~complained =>
    \/ task.pc = "stby"
    \/ task.pc = "restore" /\ task.cancelled
    \/ task.wasOper /\ task.pc \notin Leaving

(* What the awaits on the radio lead to. *)
LEMMA RadioDoes ==
  ASSUME TypeOK, SweepOnCourse, RigOnLoan,
         NEW r \in Outcomes, NEW m \in Outcomes
  PROVE  /\ Connected =>
              \/ /\ task'.pc = "where" /\ task'.step = task.step /\ Keeps(task)
                 /\ UNCHANGED <<cmds, owed>>
              \/ \E known \in SUBSET Fields : Prepares(Snapped(task, known))
         /\ ConnectFailed \/ BandRead \/ BandNotRead =>
              \/ Keeps(task) /\ Unwinds(task) /\ Complaint
              \/ \E known \in SUBSET Fields : Prepares(Snapped(task, known))
         /\ ModeSet(r) =>
              IF Raised(r)
              THEN Keeps(task) /\ Unwinds(task) /\ Complaint
              ELSE Prepares(task) /\ task'.pc # "mode"
         /\ FreqSet(r) =>
              IF Raised(r)
              THEN Keeps(task) /\ Unwinds(task) /\ Complaint
              ELSE /\ task'.pc = "power" /\ task'.step = task.step /\ Keeps(task)
                   /\ UNCHANGED <<cmds, owed>>
         /\ PowerSet(r) =>
              IF Raised(r)
              THEN Keeps(task) /\ Unwinds(task) /\ Complaint
              ELSE /\ task'.pc = "ledOn" /\ task'.step = task.step /\ Keeps(task)
                   /\ cmds' = Append(cmds, "tune") /\ UNCHANGED owed
         /\ CarrierOn(r) =>
              IF Raised(r)
              THEN Keeps(task) /\ Unwinds(task) /\ Complaint
              ELSE /\ task'.pc = "ledOff" /\ task'.step = task.step /\ Keeps(task)
                   /\ UNCHANGED <<cmds, owed>>
         /\ CarrierOff(r) =>
              \/ Keeps(task) /\ Unwinds(task)
              \/ /\ task'.pc = "pause" /\ task'.step = task.step /\ Keeps(task)
                 /\ task.success /\ IsSweep(task)
                 /\ UNCHANGED <<cmds, owed>>
         /\ Restored(r, m) =>
              /\ Keeps(task) /\ HandsBack(task)
              /\ task.cancelled => Complaint
              /\ ~Complaint =>
                   /\ "freq" \in task.snap => vfo'.freq = 0
                   /\ IF "mode" \in task.snap THEN vfo'.mode = home.mode
                                              ELSE vfo'.mode = vfo.mode
         /\ \/ Connected \/ ConnectFailed \/ BandRead \/ BandNotRead \/ ModeSet(r)
            \/ FreqSet(r) \/ PowerSet(r) \/ CarrierOn(r) \/ CarrierOff(r)
            => ToSet(out') \subseteq Quiet
<1> USE DEF At
<1>0. /\ task \in Frame /\ <<>> \in Seq(Phases) /\ ToSet(<<>>) = {}
      /\ \A p \in Phases : <<p>> \in Seq(Phases) /\ ToSet(<<p>>) = {p}
      /\ \A p, q \in Phases : /\ <<p, q>> \in Seq(Phases)
                              /\ ToSet(<<p, q>>) = {p, q}
      /\ {"BAND_CHECKED", "FAIL", "MODE_SET", "FREQ_SET", "TUNE_SENT",
          "CARRIER_ON", "CARRIER_OFF", "SUCCESS"} \subseteq Quiet
      /\ {"FAIL", "VFO_RESTORED", "OPER_RESTORED"} \subseteq Phases
  BY QuietPhases DEF TypeOK, Phases, ToSet, Quiet
<1>a. task.pc \in BeforeCycles /\ IsSweep(task) => task.step = 0
  BY DEF SweepOnCourse
<1> USE QuietPhases
<1>1. ASSUME Connected
      PROVE  /\ \/ /\ task'.pc = "where" /\ task'.step = task.step /\ Keeps(task)
                   /\ UNCHANGED <<cmds, owed>>
                \/ \E known \in SUBSET Fields : Prepares(Snapped(task, known))
             /\ ToSet(out') \subseteq Quiet
  <2>1. CASE \E known \in SUBSET Fields : TakeSnapshot(task, known, <<>>)
    <3>1. PICK known \in SUBSET Fields : TakeSnapshot(task, known, <<>>)
      BY <2>1
    <3>2. Prepares(Snapped(task, known)) /\ Says(<<>>, Quiet)
      BY <1>0, <1>1, <1>a, <3>1, TakeSnapshotDoes DEF Connected, BeforeCycles
    <3> QED BY <1>0, <3>2 DEF Says
  <2>2. CASE Await(task, "where", <<>>) /\ UNCHANGED <<cmds, owed>>
    BY <1>0, <2>2 DEF Await, Frame, Keeps
  <2> QED BY <1>1, <2>1, <2>2 DEF Connected
<1>2. ASSUME ConnectFailed \/ BandRead \/ BandNotRead
      PROVE  /\ \/ Keeps(task) /\ Unwinds(task) /\ Complaint
                \/ \E known \in SUBSET Fields : Prepares(Snapped(task, known))
             /\ ToSet(out') \subseteq Quiet
  <2>1. task.pc \in {"connect", "where"} /\ task.snap = {}
    BY <1>2 DEF ConnectFailed, BandRead, BandNotRead, RigOnLoan
  <2>2. CASE HandBack(task, <<"FAIL">>)
    <3>1. Keeps(task) /\ Says(<<"FAIL">>, {"OPER_RESTORED"}) /\ HandsBack(task)
      BY <1>0, <2>2, HandBackDoes
    <3> QED BY <1>0, <2>1, <3>1 DEF Says, Unwinds, Complaint
  <2>3. CASE \E known \in SUBSET Fields :
               TakeSnapshot(task, known, <<"BAND_CHECKED">>)
    <3>1. PICK known \in SUBSET Fields :
            TakeSnapshot(task, known, <<"BAND_CHECKED">>)
      BY <2>3
    <3>2. Prepares(Snapped(task, known)) /\ Says(<<"BAND_CHECKED">>, Quiet)
      BY <1>0, <1>a, <2>1, <3>1, TakeSnapshotDoes DEF BeforeCycles
    <3> QED BY <1>0, <3>2 DEF Says
  <2> QED BY <1>2, <2>2, <2>3 DEF ConnectFailed, BandRead, BandNotRead
<1>3. ASSUME Unwind(task, <<"FAIL">>) \/ CycleFails(task, <<"FAIL">>)
      PROVE  /\ Keeps(task) /\ Unwinds(task) /\ Complaint
             /\ ToSet(out') \subseteq Quiet
  <2>1. Keeps(task) /\ Unwinds(task) /\ Says(<<"FAIL">>, Quiet)
    BY <1>0, <1>3, UnwindDoes, CycleFailsDoes DEF Says, Complaints
  <2> QED BY <1>0, <2>1 DEF Says, Complaint
<1>4. ASSUME ModeSet(r)
      PROVE  /\ IF Raised(r)
                THEN Keeps(task) /\ Unwinds(task) /\ Complaint
                ELSE Prepares(task) /\ task'.pc # "mode"
             /\ ToSet(out') \subseteq Quiet
  <2>1. CASE Raised(r)
    BY <1>3, <1>4, <2>1 DEF ModeSet
  <2>2. CASE ~Raised(r)
    <3>1. EnsureStby(task, <<"MODE_SET">>)
      BY <1>4, <2>2 DEF ModeSet
    <3>2. /\ Cycles(task, First(task)) \/ (Keeps(task) /\ TakesOper(task))
          /\ Says(<<"MODE_SET">>, Quiet)
      BY <1>0, <1>4, <1>a, <3>1, EnsureStbyDoes DEF ModeSet, BeforeCycles
    <3>3. task'.pc # "mode"
      BY <3>2 DEF Cycles, Begins, Unwinds, HandsBack, TakesOper
    <3> QED BY <1>0, <2>2, <3>2, <3>3 DEF Prepares, Says
  <2> QED BY <2>1, <2>2
<1>5. ASSUME FreqSet(r)
      PROVE  /\ IF Raised(r)
                THEN Keeps(task) /\ Unwinds(task) /\ Complaint
                ELSE /\ task'.pc = "power" /\ task'.step = task.step
                     /\ Keeps(task) /\ UNCHANGED <<cmds, owed>>
             /\ ToSet(out') \subseteq Quiet
  <2>1. CASE Raised(r)
    BY <1>3, <1>5, <2>1 DEF FreqSet
  <2>2. CASE ~Raised(r)
    BY <1>0, <1>5, <2>2 DEF FreqSet, Await, Frame, Keeps
  <2> QED BY <2>1, <2>2
<1>6. ASSUME PowerSet(r)
      PROVE  /\ IF Raised(r)
                THEN Keeps(task) /\ Unwinds(task) /\ Complaint
                ELSE /\ task'.pc = "ledOn" /\ task'.step = task.step
                     /\ Keeps(task)
                     /\ cmds' = Append(cmds, "tune") /\ UNCHANGED owed
             /\ ToSet(out') \subseteq Quiet
  <2>1. CASE Raised(r)
    BY <1>3, <1>6, <2>1 DEF PowerSet
  <2>2. CASE ~Raised(r)
    BY <1>0, <1>6, <2>2 DEF PowerSet, SendKeycode, Await, Frame, Keeps
  <2> QED BY <2>1, <2>2
<1>7. ASSUME CarrierOn(r)
      PROVE  /\ IF Raised(r)
                THEN Keeps(task) /\ Unwinds(task) /\ Complaint
                ELSE /\ task'.pc = "ledOff" /\ task'.step = task.step
                     /\ Keeps(task) /\ UNCHANGED <<cmds, owed>>
             /\ ToSet(out') \subseteq Quiet
  <2>1. CASE Raised(r)
    BY <1>3, <1>7, <2>1 DEF CarrierOn
  <2>2. CASE ~Raised(r)
    BY <1>0, <1>7, <2>2 DEF CarrierOn, Await, Frame, Keeps
  <2> QED BY <2>1, <2>2
<1>8. ASSUME CarrierOff(r)
      PROVE  /\ \/ Keeps(task) /\ Unwinds(task)
                \/ /\ task'.pc = "pause" /\ task'.step = task.step
                   /\ Keeps(task) /\ task.success /\ IsSweep(task)
                   /\ UNCHANGED <<cmds, owed>>
             /\ ToSet(out') \subseteq Quiet
  <2> DEFINE off == IF Raised(r) THEN "FAIL" ELSE "CARRIER_OFF"
  <2>0. /\ <<off>> \in Seq(Phases) /\ ToSet(<<off>>) \subseteq Quiet
        /\ <<off, "SUCCESS">> \in Seq(Phases)
        /\ ToSet(<<off, "SUCCESS">>) \subseteq Quiet
    BY <1>0
  <2>1. \/ /\ task.success /\ IsSweep(task)
           /\ Await(task, "pause", <<off, "SUCCESS">>)
           /\ UNCHANGED <<cmds, owed>>
        \/ Unwind(task, <<off, "SUCCESS">>)
        \/ CycleFails(task, <<off>>)
    BY <1>8 DEF CarrierOff
  <2> HIDE DEF off
  <2>2. CASE /\ task.success /\ IsSweep(task)
             /\ Await(task, "pause", <<off, "SUCCESS">>)
             /\ UNCHANGED <<cmds, owed>>
    BY <1>0, <2>0, <2>2 DEF Await, Frame, Keeps
  <2>3. CASE Unwind(task, <<off, "SUCCESS">>)
    BY <1>0, <2>0, <2>3, UnwindDoes DEF Says, Complaints
  <2>4. CASE CycleFails(task, <<off>>)
    BY <1>0, <2>0, <2>4, CycleFailsDoes DEF Says, Complaints
  <2> QED BY <2>1, <2>2, <2>3, <2>4
<1>9. ASSUME Restored(r, m)
      PROVE  /\ Keeps(task) /\ HandsBack(task)
             /\ task.cancelled => Complaint
             /\ ~Complaint =>
                  /\ "freq" \in task.snap => vfo'.freq = 0
                  /\ IF "mode" \in task.snap THEN vfo'.mode = home.mode
                                             ELSE vfo'.mode = vfo.mode
  <2> DEFINE raised == \/ "freq" \in task.snap /\ Raised(r)
                       \/ "mode" \in task.snap /\ Raised(m)
             first == IF raised THEN "FAIL" ELSE "VFO_RESTORED"
  <2>1. AfterRestore(task, <<first>>)
    BY <1>9 DEF Restored
  <2>2. /\ first \in Phases /\ <<first>> \in Seq(Phases)
        /\ ToSet(<<first>>) = {first}
    BY <1>0
  <2>3. /\ Keeps(task) /\ HandsBack(task)
        /\ Says(<<first>>, {"ABORT", "OPER_RESTORED"})
        /\ task.cancelled => "ABORT" \in ToSet(out')
    BY <1>0, <2>1, <2>2, AfterRestoreDoes
  <2>4. raised => Complaint
    BY <2>2, <2>3 DEF Says, Complaint
  <2>5. ~raised =>
          /\ "freq" \in task.snap => vfo'.freq = 0
          /\ IF "mode" \in task.snap THEN vfo'.mode = home.mode
                                     ELSE vfo'.mode = vfo.mode
    BY <1>9 DEF Restored, Applied, Raised
  <2> QED BY <2>3, <2>4, <2>5 DEF Complaint
<1> QED BY <1>1, <1>2, <1>4, <1>5, <1>6, <1>7, <1>8, <1>9

(* The frame once OPERATE is known to be taken, and once cancelled.        *)
Taken == [task EXCEPT !.wasOper = TRUE]
Cancelled == [task EXCEPT !.cancelled = TRUE]

(* What the awaits on the amplifier lead to. *)
LEMMA WaitDoes ==
  ASSUME TypeOK, SweepOnCourse
  PROVE  /\ StbySeen => Cycles(Taken, First(Taken))
         /\ StbyTimeout => Keeps(task) /\ Unwinds(task) /\ Complaint
         /\ StbyStopped =>
              \/ Keeps(task) /\ Unwinds(task) /\ Complaint
              \/ Keeps(Cancelled) /\ Unwinds(Cancelled)
         /\ LedOnSeen => /\ task'.pc = "key" /\ task'.step = task.step
                         /\ Keeps(task) /\ UNCHANGED <<cmds, owed>>
         /\ LedOnMissed => Keeps(task) /\ Unwinds(task) /\ Complaint
         /\ LedOffSeen \/ LedOffMissed =>
              /\ task'.pc = "unkey" /\ task'.step = task.step /\ Keeps(task)
              /\ UNCHANGED <<cmds, owed>>
              /\ task'.success => LedOffSeen
         /\ PauseOver => \/ task.step = N /\ Keeps(task) /\ Unwinds(task)
                         \/ Cycles(task, task.step + 1)
         /\ OperWaited => /\ task'.pc = "release" /\ Keeps(task)
                          /\ UNCHANGED <<cmds, owed>>
                          /\ OpStatus = "Oper" \/ Complaint
         /\ AmpWait => \/ ToSet(out') \subseteq Quiet
                       \/ /\ PauseOver /\ task.step = N
                          /\ "VFO_RESTORED" \notin ToSet(out')
<1> USE DEF At
<1>0. /\ task \in Frame /\ <<>> \in Seq(Phases) /\ ToSet(<<>>) = {}
      /\ \A p \in Phases : <<p>> \in Seq(Phases) /\ ToSet(<<p>>) = {p}
      /\ {"FAIL", "ABORT", "LED_ON", "LED_OFF", "OPER_RESTORED"} \subseteq Quiet
      /\ "VFO_RESTORED" \notin Quiet \cup {"SWEEP_DONE"}
  BY QuietPhases DEF TypeOK, Phases, ToSet, Quiet
<1> USE QuietPhases
<1>1. ASSUME StbySeen
      PROVE  Cycles(Taken, First(Taken)) /\ ToSet(out') \subseteq Quiet
  <2>1. /\ Taken \in Frame /\ InStby(Taken, <<>>)
        /\ IsSweep(Taken) => Taken.step = 0
    BY <1>0, <1>1 DEF StbySeen, Taken, Frame, IsSweep, SweepOnCourse, BeforeCycles
  <2>2. Cycles(Taken, First(Taken)) /\ Says(<<>>, Quiet)
    BY <1>0, <2>1, InStbyDoes
  <2> QED BY <1>0, <2>2 DEF Says
<1>2. ASSUME NEW p \in Complaints, Unwind(task, <<p>>) \/ CycleFails(task, <<p>>)
      PROVE  /\ Keeps(task) /\ Unwinds(task) /\ Complaint
             /\ ToSet(out') \subseteq Quiet
  <2>1. <<p>> \in Seq(Phases) /\ ToSet(<<p>>) = {p} /\ p \in Quiet
    BY <1>0
  <2>2. Keeps(task) /\ Unwinds(task) /\ Says(<<p>>, Quiet)
    BY <1>0, <1>2, <2>1, UnwindDoes, CycleFailsDoes DEF Says, Complaints
  <2> QED BY <2>1, <2>2 DEF Says, Complaint, Complaints
<1>3. ASSUME StbyTimeout \/ LedOnMissed
      PROVE  /\ Keeps(task) /\ Unwinds(task) /\ Complaint
             /\ ToSet(out') \subseteq Quiet
  BY <1>2, <1>3 DEF StbyTimeout, LedOnMissed, Complaints
<1>4. ASSUME StbyStopped
      PROVE  /\ \/ Keeps(task) /\ Unwinds(task) /\ Complaint
                \/ Keeps(Cancelled) /\ Unwinds(Cancelled)
             /\ ToSet(out') \subseteq Quiet
  <2>1. CASE Unwind(task, <<"ABORT">>)
    BY <1>2, <2>1 DEF Complaints
  <2>2. CASE Unwind(Cancelled, <<>>)
    <3>1. Cancelled \in Frame
      BY <1>0 DEF Cancelled, Frame
    <3>2. Keeps(Cancelled) /\ Unwinds(Cancelled)
          /\ Says(<<>>, {"ABORT", "OPER_RESTORED"})
      BY <1>0, <2>2, <3>1, UnwindDoes
    <3> QED BY <1>0, <3>2 DEF Says
  <2> QED BY <1>4, <2>1, <2>2 DEF StbyStopped, Cancelled
<1>5. ASSUME LedOnSeen
      PROVE  /\ task'.pc = "key" /\ task'.step = task.step
             /\ Keeps(task) /\ UNCHANGED <<cmds, owed>>
             /\ ToSet(out') \subseteq Quiet
  BY <1>0, <1>5 DEF LedOnSeen, Await, Frame, Keeps
<1>6. ASSUME LedOffSeen \/ LedOffMissed
      PROVE  /\ task'.pc = "unkey" /\ task'.step = task.step /\ Keeps(task)
             /\ UNCHANGED <<cmds, owed>>
             /\ task'.success => LedOffSeen
             /\ ToSet(out') \subseteq Quiet
  BY <1>0, <1>6 DEF LedOffSeen, LedOffMissed, Await, Frame, Keeps
<1>7. ASSUME PauseOver
      PROVE  /\ \/ task.step = N /\ Keeps(task) /\ Unwinds(task)
                \/ Cycles(task, task.step + 1)
             /\ \/ ToSet(out') \subseteq Quiet
                \/ task.step = N /\ ToSet(out') \subseteq Quiet \cup {"SWEEP_DONE"}
  <2> DEFINE u == [task EXCEPT !.success = FALSE]
  <2>1. /\ u \in Frame /\ u.step = task.step /\ u.kind = task.kind
        /\ u.snap = task.snap /\ u.wasOper = task.wasOper
        /\ u.cancelled = task.cancelled
    BY <1>0 DEF Frame
  <2>2. NextCentre(u, <<>>)
    BY <1>7 DEF PauseOver
  <2> HIDE DEF u
  <2>3. /\ u.step = N \/ Cycles(u, u.step + 1)
        /\ u.step = N => Keeps(u) /\ Unwinds(u)
        /\ Says(<<>>, Quiet \cup (IF u.step = N THEN {"SWEEP_DONE"} ELSE {}))
    BY <1>0, <2>1, <2>2, NextCentreDoes
  <2>4. \/ task.step = N /\ Keeps(task) /\ Unwinds(task)
        \/ Cycles(task, task.step + 1)
    BY <2>1, <2>3 DEF Cycles, Keeps, Begins, Unwinds, HandsBack, WantsFreq
  <2> QED BY <1>0, <2>1, <2>3, <2>4 DEF Says
<1>8. ASSUME OperWaited
      PROVE  /\ task'.pc = "release" /\ Keeps(task)
             /\ UNCHANGED <<cmds, owed>>
             /\ OpStatus = "Oper" \/ Complaint
             /\ ToSet(out') \subseteq Quiet
  <2>1. CASE OpStatus = "Oper" /\ Await(task, "release", <<"OPER_RESTORED">>)
    BY <1>0, <1>8, <2>1 DEF OperWaited, Await, Frame, Keeps
  <2>2. CASE Await(task, "release", <<"FAIL">>)
    BY <1>0, <1>8, <2>2 DEF OperWaited, Await, Frame, Keeps, Complaint
  <2> QED BY <1>8, <2>1, <2>2 DEF OperWaited
<1>9. AmpWait => \/ ToSet(out') \subseteq Quiet
                 \/ /\ PauseOver /\ task.step = N
                    /\ "VFO_RESTORED" \notin ToSet(out')
  BY <1>0, <1>1, <1>3, <1>4, <1>5, <1>6, <1>7, <1>8 DEF AmpWait
<1> QED BY <1>1, <1>3, <1>4, <1>5, <1>6, <1>7, <1>8, <1>9

-----------------------------------------------------------------------------
(* The three accounts together. *)
SessionInv == SweepOnCourse /\ RigOnLoan /\ OperOnLoan

(* Unwinding keeps them, if the mode is either as it was found or in the   *)
(* snapshot, and OPERATE, if owed, is known to be, or there is a complaint.*)
LEMMA UnwindKeeps ==
  ASSUME TypeOK, NEW t \in Frame, Keeps(t), Unwinds(t),
         complained' = (complained \/ Complaint),
         "mode" \notin t.snap => vfo'.mode = home'.mode,
         owed => complained' \/ t.wasOper \/ t.cancelled
  PROVE  SessionInv'
<1>1. task'.pc \in {"restore", "oper", "release"}
  BY DEF Unwinds, HandsBack
<1>2. SweepOnCourse'
  BY <1>1 DEF SweepOnCourse, BeforeCycles, OnDial
<1>3. RigOnLoan'
  BY <1>1 DEF RigOnLoan, Keeps, Unwinds, Leaving
<1>4. OperOnLoan'
  <2>1. CASE task'.pc = "restore" /\ UNCHANGED owed
    BY <2>1 DEF OperOnLoan, Keeps, Leaving
  <2>2. CASE HandsBack(t) /\ (t.cancelled => Complaint)
    BY <2>2 DEF OperOnLoan, HandsBack
  <2> QED BY <2>1, <2>2 DEF Unwinds
<1> QED BY <1>2, <1>3, <1>4 DEF SessionInv

(* So does a first or a next cycle, of a sweep on its course.              *)
LEMMA CyclesKeeps ==
  ASSUME TypeOK, NEW t \in Frame, NEW step, Cycles(t, step),
         complained' = (complained \/ Complaint),
         "mode" \notin t.snap => vfo'.mode = home'.mode,
         owed => complained' \/ t.wasOper,
         IsSweep(t) => step \in Nat \ {0} /\ tuned' = 1 .. step - 1
  PROVE  SessionInv'
<1>1. CASE Begins(t, step)
  <2>1. task'.pc \in {"freq", "power"} /\ task'.kind = t.kind
        /\ (IsSweep(t) => task'.pc = "freq") /\ Keeps(t)
    BY <1>1 DEF Begins, Cycles, Keeps, WantsFreq, IsSweep
  <2>2. SweepOnCourse'
    BY <1>1, <2>1 DEF Begins, SweepOnCourse, IsSweep, BeforeCycles, OnDial
  <2>3. RigOnLoan'
    BY <2>1 DEF RigOnLoan, Keeps, Leaving
  <2>4. OperOnLoan'
    BY <1>1, <2>1 DEF OperOnLoan, Begins, Keeps, Leaving
  <2> QED BY <2>2, <2>3, <2>4 DEF SessionInv
<1>2. CASE Unwinds(t) /\ Complaint
  BY <1>2, UnwindKeeps DEF Cycles
<1> QED BY <1>1, <1>2 DEF Cycles

(* So does the way to the first cycle. *)
LEMMA PreparesKeeps ==
  ASSUME TypeOK, NEW t \in Frame, Prepares(t),
         complained' = (complained \/ Complaint),
         "mode" \notin t.snap => vfo'.mode = home'.mode,
         owed => complained' \/ t.wasOper,
         IsSweep(t) => t.step = 0 /\ tuned' = {}
  PROVE  SessionInv'
<1>1. CASE Cycles(t, First(t))
  <2>1. IsSweep(t) => First(t) \in Nat \ {0} /\ tuned' = 1 .. First(t) - 1
    BY DEF First
  <2> QED BY <1>1, <2>1, CyclesKeeps
<1>2. CASE Keeps(t) /\ (TakesOper(t) \/ AsksMode(t))
  <2>1. task'.pc \in {"stby", "mode"} /\ task'.step = t.step
    BY <1>2 DEF TakesOper, AsksMode
  <2>2. SweepOnCourse'
    BY <1>2, <2>1 DEF SweepOnCourse, Keeps, IsSweep, BeforeCycles, OnDial
  <2>3. RigOnLoan'
    BY <1>2, <2>1 DEF RigOnLoan, Keeps, Leaving, TakesOper, AsksMode
  <2>4. OperOnLoan'
    BY <1>2, <2>1 DEF OperOnLoan, Keeps, Leaving, TakesOper, AsksMode
  <2> QED BY <2>2, <2>3, <2>4 DEF SessionInv
<1> QED BY <1>1, <1>2 DEF Prepares

(* Every await on the radio keeps them.                                    *)
LEMMA RadioKeepsInv ==
  ASSUME TypeOK, SessionInv, RadioStep,
         complained' = (complained \/ Complaint)
  PROVE  SessionInv'
<1> USE DEF At
<1>0. /\ task \in Frame /\ SweepOnCourse /\ RigOnLoan /\ OperOnLoan
      /\ task.step \in 0 .. N /\ N \in Nat
      /\ complained \in BOOLEAN /\ owed \in BOOLEAN
  BY NAssumption DEF TypeOK, SessionInv, Frame
<1>a. "ok" \in Outcomes /\ RadioOutcomes \subseteq Outcomes
  BY OutcomesAssumption DEF Outcomes
<1>1. ASSUME NEW known \in SUBSET Fields, Prepares(Snapped(task, known)),
             UNCHANGED <<home, vfo, tuned>>,
             task.pc \in {"connect", "where"}
      PROVE  SessionInv'
  <2> DEFINE u == Snapped(task, known)
  <2>1. /\ u \in Frame /\ u.step = task.step /\ u.kind = task.kind
        /\ u.wasOper = task.wasOper
    BY <1>0 DEF Frame, Snapped
  <2>2. "mode" \notin u.snap => vfo'.mode = home'.mode
    BY <1>0, <1>1 DEF RigOnLoan
  <2>3. owed => complained' \/ u.wasOper
    BY <1>0, <1>1, <2>1 DEF OperOnLoan
  <2>4. IsSweep(u) => u.step = 0 /\ tuned' = {}
    BY <1>0, <1>1, <2>1 DEF SweepOnCourse, IsSweep, BeforeCycles
  <2> HIDE DEF u
  <2> QED BY <1>1, <2>1, <2>2, <2>3, <2>4, PreparesKeeps DEF u
<1>2. ASSUME Keeps(task), Unwinds(task), Complaint, UNCHANGED home,
             vfo'.mode = vfo.mode \/ "mode" \in task.snap
      PROVE  SessionInv'
  <2>1. "mode" \notin task.snap => vfo'.mode = home'.mode
    BY <1>0, <1>2 DEF RigOnLoan
  <2> QED BY <1>0, <1>2, <2>1, UnwindKeeps
<1>3. CASE Connected
  <2>1. CASE /\ task'.pc = "where" /\ task'.step = task.step /\ Keeps(task)
             /\ UNCHANGED <<cmds, owed>>
    BY <1>0, <1>3, <2>1
       DEF Connected, SessionInv, SweepOnCourse, RigOnLoan, OperOnLoan, Keeps,
           IsSweep, BeforeCycles, OnDial, Leaving
  <2>2. CASE \E known \in SUBSET Fields : Prepares(Snapped(task, known))
    BY <1>1, <1>3, <2>2 DEF Connected
  <2> QED BY <1>0, <1>3, <1>a, <2>1, <2>2, RadioDoes
<1>4. CASE ConnectFailed \/ BandRead \/ BandNotRead
  <2>1. /\ UNCHANGED <<home, vfo, tuned>>
        /\ task.pc \in {"connect", "where"}
    BY <1>4 DEF ConnectFailed, BandRead, BandNotRead
  <2> QED BY <1>0, <1>1, <1>2, <1>4, <1>a, <2>1, RadioDoes
<1>5. ASSUME NEW r \in RadioOutcomes, ModeSet(r) PROVE SessionInv'
  <2>1. /\ task.pc = "mode" /\ "mode" \in task.snap
        /\ UNCHANGED <<home, tuned>>
    BY <1>0, <1>5 DEF ModeSet, RigOnLoan
  <2>2. CASE Raised(r)
    BY <1>0, <1>2, <1>5, <1>a, <2>1, <2>2, RadioDoes
  <2>3. CASE ~Raised(r)
    <3>1. Prepares(task)
      BY <1>0, <1>5, <1>a, <2>3, RadioDoes
    <3>2. owed => complained' \/ task.wasOper
      BY <1>0, <2>1 DEF OperOnLoan
    <3>3. IsSweep(task) => task.step = 0 /\ tuned' = {}
      BY <1>0, <2>1 DEF SweepOnCourse, BeforeCycles
    <3> QED BY <1>0, <2>1, <3>1, <3>2, <3>3, PreparesKeeps
  <2> QED BY <2>2, <2>3
<1>6. ASSUME NEW r \in RadioOutcomes, FreqSet(r) PROVE SessionInv'
  <2>1. task.pc = "freq" /\ UNCHANGED <<home, tuned>> /\ vfo'.mode = vfo.mode
    BY <1>6 DEF FreqSet, TypeOK, Vfo
  <2>2. CASE Raised(r)
    BY <1>0, <1>2, <1>6, <1>a, <2>1, <2>2, RadioDoes
  <2>3. CASE ~Raised(r)
    <3>1. /\ task'.pc = "power" /\ task'.step = task.step /\ Keeps(task)
          /\ UNCHANGED <<cmds, owed>>
      BY <1>0, <1>6, <1>a, <2>3, RadioDoes
    <3>2. vfo'.freq = Target(task)
      BY <1>6, <2>3 DEF FreqSet, Applied, Raised, TypeOK, Vfo
    <3>3. SweepOnCourse'
      BY <1>0, <2>1, <3>1, <3>2 DEF SweepOnCourse, Keeps, IsSweep, Target,
                                    BeforeCycles, OnDial
    <3>4. RigOnLoan' /\ OperOnLoan'
      BY <1>0, <2>1, <3>1 DEF RigOnLoan, OperOnLoan, Keeps, Leaving
    <3> QED BY <3>3, <3>4 DEF SessionInv
  <2> QED BY <2>2, <2>3
<1>7. ASSUME NEW r \in RadioOutcomes, PowerSet(r) \/ CarrierOn(r)
      PROVE  SessionInv'
  <2>1. task.pc \in {"power", "key"} /\ UNCHANGED <<home, tuned, vfo>>
    BY <1>7 DEF PowerSet, CarrierOn
  <2>2. CASE Raised(r)
    BY <1>0, <1>2, <1>7, <1>a, <2>1, <2>2, RadioDoes
  <2>3. CASE ~Raised(r)
    <3>1. /\ task'.pc \in {"ledOn", "ledOff"} /\ task'.step = task.step
          /\ Keeps(task) /\ UNCHANGED owed
      BY <1>0, <1>7, <1>a, <2>3, RadioDoes
    <3>2. SweepOnCourse'
      BY <1>0, <2>1, <3>1 DEF SweepOnCourse, Keeps, IsSweep, BeforeCycles, OnDial
    <3>3. RigOnLoan' /\ OperOnLoan'
      BY <1>0, <2>1, <3>1 DEF RigOnLoan, OperOnLoan, Keeps, Leaving
    <3> QED BY <3>2, <3>3 DEF SessionInv
  <2> QED BY <2>2, <2>3
<1>8. ASSUME NEW r \in RadioOutcomes, CarrierOff(r) PROVE SessionInv'
  <2>1. task.pc = "unkey" /\ UNCHANGED <<home, tuned, vfo>>
    BY <1>8 DEF CarrierOff
  <2>2. CASE Keeps(task) /\ Unwinds(task)
    <3>1. "mode" \notin task.snap => vfo'.mode = home'.mode
      BY <1>0, <2>1 DEF RigOnLoan
    <3>2. owed => complained' \/ task.wasOper
      BY <1>0, <2>1 DEF OperOnLoan
    <3> QED BY <1>0, <2>2, <3>1, <3>2, UnwindKeeps
  <2>3. CASE /\ task'.pc = "pause" /\ task'.step = task.step /\ Keeps(task)
             /\ task.success /\ IsSweep(task)
             /\ UNCHANGED <<cmds, owed>>
    <3>1. SweepOnCourse'
      BY <1>0, <2>1, <2>3 DEF SweepOnCourse, Keeps, IsSweep, BeforeCycles, OnDial
    <3>2. RigOnLoan' /\ OperOnLoan'
      BY <1>0, <2>1, <2>3 DEF RigOnLoan, OperOnLoan, Keeps, Leaving
    <3> QED BY <3>1, <3>2 DEF SessionInv
  <2> QED BY <1>0, <1>8, <1>a, <2>2, <2>3, RadioDoes
<1>9. ASSUME NEW f \in RadioOutcomes, NEW m \in RadioOutcomes, Restored(f, m)
      PROVE  SessionInv'
  <2>1. task.pc = "restore" /\ UNCHANGED home
    BY <1>9 DEF Restored
  <2>2. /\ Keeps(task) /\ HandsBack(task)
        /\ task.cancelled => Complaint
        /\ ~Complaint =>
             /\ "freq" \in task.snap => vfo'.freq = 0
             /\ IF "mode" \in task.snap THEN vfo'.mode = home.mode
                                        ELSE vfo'.mode = vfo.mode
    BY <1>0, <1>9, <1>a, RadioDoes
  <2>3. "mode" \notin task.snap => vfo'.mode = vfo.mode
    BY <1>9 DEF Restored
  <2>4. task'.pc \in {"release", "oper"}
    BY <2>2 DEF HandsBack
  <2>5. SweepOnCourse'
    BY <2>4 DEF SweepOnCourse, BeforeCycles, OnDial
  <2>6. RigOnLoan'
    BY <1>0, <2>1, <2>2, <2>3, <2>4 DEF RigOnLoan, Keeps, Leaving
  <2>7. OperOnLoan'
    BY <1>0, <2>1, <2>2, <2>4 DEF OperOnLoan, HandsBack, Leaving
  <2> QED BY <2>5, <2>6, <2>7 DEF SessionInv
<1>10. CASE Released
  <2>1. /\ task.pc = "release" /\ UNCHANGED <<home, owed, vfo, tuned>>
        /\ task'.pc = "idle" /\ task'.snap = task.snap
    BY <1>10 DEF Released, Await, NewFrame
  <2>2. SweepOnCourse'
    BY <2>1 DEF SweepOnCourse, BeforeCycles, OnDial
  <2>3. RigOnLoan'
    BY <1>0, <2>1 DEF RigOnLoan, Leaving
  <2>4. OperOnLoan'
    BY <1>0, <2>1 DEF OperOnLoan, Leaving
  <2> QED BY <2>2, <2>3, <2>4 DEF SessionInv
<1> QED BY <1>3, <1>4, <1>5, <1>6, <1>7, <1>8, <1>9, <1>10 DEF RadioStep

(* So does every await on the amplifier.                                   *)
LEMMA WaitKeepsInv ==
  ASSUME TypeOK, SessionInv, AmpWait,
         complained' = (complained \/ Complaint)
  PROVE  SessionInv'
<1> USE DEF At
<1>0. /\ task \in Frame /\ SweepOnCourse /\ RigOnLoan /\ OperOnLoan
      /\ task.step \in 0 .. N /\ N \in Nat
      /\ complained \in BOOLEAN /\ owed \in BOOLEAN
  BY NAssumption DEF TypeOK, SessionInv, Frame
<1>1. UNCHANGED <<home, vfo>>
  BY DEF AmpWait, StbySeen, StbyTimeout, StbyStopped, LedOnSeen, LedOnMissed,
         LedOffSeen, LedOffMissed, PauseOver, OperWaited
<1>2. "mode" \notin task.snap => vfo'.mode = home'.mode
  BY <1>0, <1>1 DEF RigOnLoan
<1>3. ASSUME Keeps(task), Unwinds(task), Complaint
      PROVE  SessionInv'
  BY <1>0, <1>2, <1>3, UnwindKeeps
<1>4. CASE StbySeen
  <2>1. task.pc = "stby" /\ UNCHANGED tuned
    BY <1>4 DEF StbySeen
  <2>2. /\ Taken \in Frame /\ Taken.wasOper /\ Taken.snap = task.snap
        /\ Taken.step = task.step /\ Taken.kind = task.kind
    BY <1>0 DEF Taken, Frame
  <2>3. Cycles(Taken, First(Taken))
    BY <1>0, <1>4, WaitDoes
  <2>4. IsSweep(Taken) =>
          First(Taken) \in Nat \ {0} /\ tuned' = 1 .. First(Taken) - 1
    BY <1>0, <2>1, <2>2 DEF SweepOnCourse, IsSweep, First, BeforeCycles
  <2> QED BY <1>0, <1>2, <2>2, <2>3, <2>4, CyclesKeeps
<1>5. CASE StbyTimeout \/ LedOnMissed
  BY <1>0, <1>3, <1>5, WaitDoes
<1>6. CASE StbyStopped
  <2>1. CASE Keeps(Cancelled) /\ Unwinds(Cancelled)
    <3>1. /\ Cancelled \in Frame /\ Cancelled.cancelled
          /\ Cancelled.snap = task.snap
      BY <1>0 DEF Cancelled, Frame
    <3> QED BY <1>0, <1>2, <2>1, <3>1, UnwindKeeps
  <2> QED BY <1>0, <1>3, <1>6, <2>1, WaitDoes
<1>7. CASE LedOnSeen
  <2>1. /\ task.pc = "ledOn" /\ UNCHANGED <<tuned, owed>>
        /\ task'.pc = "key" /\ task'.step = task.step /\ Keeps(task)
    BY <1>0, <1>7, WaitDoes DEF LedOnSeen
  <2>2. SweepOnCourse'
    BY <1>0, <1>1, <2>1 DEF SweepOnCourse, Keeps, IsSweep, BeforeCycles, OnDial
  <2>3. RigOnLoan' /\ OperOnLoan'
    BY <1>0, <1>1, <2>1 DEF RigOnLoan, OperOnLoan, Keeps, Leaving
  <2> QED BY <2>2, <2>3 DEF SessionInv
<1>8. CASE LedOffSeen \/ LedOffMissed
  <2>1. /\ task.pc = "ledOff" /\ UNCHANGED owed
        /\ task'.pc = "unkey" /\ task'.step = task.step /\ Keeps(task)
        /\ task'.success => LedOffSeen
    BY <1>0, <1>8, WaitDoes DEF LedOffSeen, LedOffMissed
  <2>2. SweepOnCourse'
    <3> SUFFICES ASSUME IsSweep(task)', task'.success
                 PROVE  task'.step > 0 /\ tuned' = 1 .. task'.step
      BY <2>1 DEF SweepOnCourse, BeforeCycles, OnDial
    <3>1. IsSweep(task) /\ LedOffSeen
      BY <2>1 DEF IsSweep, Keeps
    <3>2. /\ task.step > 0 /\ tuned = 1 .. task.step - 1
          /\ vfo.freq = task.step
      BY <1>0, <2>1, <3>1 DEF SweepOnCourse, OnDial
    <3>3. tuned' = tuned \cup {task.step}
      BY <3>1, <3>2 DEF LedOffSeen, Target
    <3> QED BY <1>0, <2>1, <3>2, <3>3
  <2>3. RigOnLoan' /\ OperOnLoan'
    BY <1>0, <1>1, <2>1 DEF RigOnLoan, OperOnLoan, Keeps, Leaving
  <2> QED BY <2>2, <2>3 DEF SessionInv
<1>9. CASE PauseOver
  <2>1. task.pc = "pause" /\ UNCHANGED tuned
    BY <1>9 DEF PauseOver
  <2>2. owed => complained' \/ task.wasOper
    BY <1>0, <2>1 DEF OperOnLoan
  <2>3. CASE Keeps(task) /\ Unwinds(task)
    BY <1>0, <1>2, <2>2, <2>3, UnwindKeeps
  <2>4. CASE Cycles(task, task.step + 1)
    <3>1. IsSweep(task) => /\ task.step + 1 \in Nat \ {0}
                           /\ tuned' = 1 .. (task.step + 1) - 1
      BY <1>0, <2>1 DEF SweepOnCourse
    <3> QED BY <1>0, <1>2, <2>2, <2>4, <3>1, CyclesKeeps
  <2> QED BY <1>0, <1>9, <2>3, <2>4, WaitDoes
<1>10. CASE OperWaited
  <2>1. /\ task.pc = "oper" /\ task'.pc = "release" /\ Keeps(task)
        /\ UNCHANGED owed
    BY <1>0, <1>10, WaitDoes DEF OperWaited
  <2>2. SweepOnCourse'
    BY <2>1 DEF SweepOnCourse, BeforeCycles, OnDial
  <2>3. RigOnLoan' /\ OperOnLoan'
    BY <1>0, <1>1, <2>1 DEF RigOnLoan, OperOnLoan, Keeps, Leaving
  <2> QED BY <2>2, <2>3 DEF SessionInv
<1> QED BY <1>4, <1>5, <1>6, <1>7, <1>8, <1>9, <1>10 DEF AmpWait

(* Init establishes the three invariants, and every step keeps them.       *)
LEMMA SessionInvariant == Spec => []SessionInv
<1>1. Init => SessionInv
  BY DEF Init, NewFrame, SessionInv, SweepOnCourse, RigOnLoan, OperOnLoan,
         IsSweep, Leaving
<1>2. TypeOK /\ SessionInv /\ [Next]_vars => SessionInv'
  <2> SUFFICES ASSUME TypeOK, SessionInv, [Next]_vars PROVE SessionInv'
    OBVIOUS
  <2>1. CASE Session
    BY <2>1, RadioKeepsInv, WaitKeepsInv DEF Session
  <2>2. ASSUME NEW k \in Kinds, Request(k) PROVE SessionInv'
    <3>1. /\ task' = NewFrame(k) /\ tuned' = {} /\ owed' = FALSE
          /\ vfo'.mode = vfo.mode /\ home'.mode = vfo.mode
      BY <2>2 DEF Request, TypeOK, Vfo
    <3>2. SweepOnCourse'
      BY <3>1 DEF SweepOnCourse, NewFrame, BeforeCycles, OnDial
    <3>3. RigOnLoan' /\ OperOnLoan'
      BY <3>1 DEF RigOnLoan, OperOnLoan, NewFrame, Leaving
    <3> QED BY <3>2, <3>3 DEF SessionInv
  <2>3. CASE UNCHANGED <<task, vfo, histVars>>
    BY <2>3 DEF histVars, SessionInv, SweepOnCourse, RigOnLoan, OperOnLoan,
                IsSweep
  <2>4. World \/ Stop \/ RefuseRequest \/ UNCHANGED vars
          => UNCHANGED <<task, vfo, histVars>>
    BY DEF World, AmpObeys, AmpTuned, CsvFrame, RcuFrame, Press, Outside, Stop,
           RefuseRequest, vars, histVars
  <2> QED BY <2>1, <2>2, <2>3, <2>4 DEF Next, Client
<1> QED BY <1>1, <1>2, TypeCorrect, PTL DEF Spec

(* The rig is left as it was found (backend.snapshot and restore), the mode*)
(* always and the frequency when it was known, unless the session said     *)
(* FAIL or ABORT: for any radio.                                           *)
THEOREM RigIsAsFound == Spec => []RigAsFound
<1>1. SessionInv => RigAsFound
  BY DEF SessionInv, RigOnLoan, RigAsFound, Running, Leaving
<1> QED BY <1>1, SessionInvariant, PTL

(* OPERATE is never kept silently (_ensure_stby and _restore_operate): a   *)
(* session that took it and made no attempt to give it back complained.    *)
THEOREM OperateGivenBack == Spec => []OperateNotKept
<1>1. TypeOK /\ SessionInv => OperateNotKept
  BY DEF TypeOK, SessionInv, OperOnLoan, OperateNotKept, Running, Leaving
<1> QED BY <1>1, SessionInvariant, TypeCorrect, PTL

(* What a step of the coroutine promises. *)
LEMMA SessionSays ==
  ASSUME TypeOK, SessionInv, Session
  PROVE  /\ "VFO_RESTORED" \in ToSet(out') =>
              \E f, m \in RadioOutcomes : Restored(f, m)
         /\ "SWEEP_DONE" \in ToSet(out') => PauseOver /\ task.step = N
<1>1. SweepOnCourse /\ RigOnLoan /\ task \in Frame
  BY DEF SessionInv, TypeOK
<1>2. "VFO_RESTORED" \notin Quiet /\ "SWEEP_DONE" \notin Quiet
  BY DEF Quiet
<1>3. CASE AmpWait
  BY <1>1, <1>2, <1>3, WaitDoes
<1>4. CASE \E f, m \in RadioOutcomes : Restored(f, m)
  <2>1. PICK f \in RadioOutcomes, m \in RadioOutcomes : Restored(f, m)
    BY <1>4
  <2>2. PICK p \in {"FAIL", "VFO_RESTORED"} : AfterRestore(task, <<p>>)
    BY <2>1 DEF Restored
  <2>3. <<p>> \in Seq(Phases) /\ ToSet(<<p>>) = {p}
    BY DEF Phases, ToSet
  <2>4. Says(<<p>>, {"ABORT", "OPER_RESTORED"})
    BY <1>1, <2>2, <2>3, AfterRestoreDoes
  <2> QED BY <1>4, <2>3, <2>4 DEF Says
<1>5. CASE Released
  BY <1>5 DEF Released, Await, ToSet
<1>6. CASE RadioStep /\ ~Released /\ ~\E f, m \in RadioOutcomes : Restored(f, m)
  <2>1. "ok" \in Outcomes /\ RadioOutcomes \subseteq Outcomes
    BY OutcomesAssumption DEF Outcomes
  <2>2. ToSet(out') \subseteq Quiet
    BY <1>1, <1>6, <2>1, RadioDoes DEF RadioStep
  <2> QED BY <1>2, <2>2
<1> QED BY <1>3, <1>4, <1>5, <1>6 DEF Session

(* Only the coroutine changes its frame and says something; a request has  *)
(* said nothing yet.                                                       *)
LEMMA OnlySessionSays ==
  ASSUME [Next]_vars, task' # task, ToSet(out') # {}
  PROVE  Session
<1>1. ~\E k \in Kinds : Request(k)
  BY DEF Request, ToSet
<1>2. ~(RefuseRequest \/ Stop \/ World \/ UNCHANGED vars)
  BY DEF RefuseRequest, Stop, World, AmpObeys, AmpTuned, CsvFrame, RcuFrame,
         Press, Outside, vars
<1> QED BY <1>1, <1>2 DEF Next, Client

(* VFO_RESTORED is only said of a radio that took back what was saved.     *)
THEOREM RestoreIsTrue == Spec => RestoredIsTrue
<1>1. TypeOK /\ SessionInv /\ [Next]_vars
        => [task' # task /\ "VFO_RESTORED" \in ToSet(out')
              => \A f \in task.snap : vfo'[f] = Found[f]]_vars
  <2> SUFFICES ASSUME TypeOK, SessionInv, [Next]_vars,
                      task' # task, "VFO_RESTORED" \in ToSet(out'),
                      NEW field \in task.snap
               PROVE  vfo'[field] = Found[field]
    OBVIOUS
  <2>1. Session
    BY OnlySessionSays
  <2>2. PICK f \in RadioOutcomes, m \in RadioOutcomes : Restored(f, m)
    BY <2>1, SessionSays
  <2>3. field \in {"freq", "mode"} /\ task \in Frame
    BY DEF TypeOK, Frame, Fields
  <2> DEFINE raised == \/ "freq" \in task.snap /\ Raised(f)
                       \/ "mode" \in task.snap /\ Raised(m)
  <2>4. ~raised
    <3> SUFFICES ASSUME raised PROVE FALSE
      OBVIOUS
    <3>1. AfterRestore(task, <<"FAIL">>)
      BY <2>2 DEF Restored
    <3>2. <<"FAIL">> \in Seq(Phases) /\ ToSet(<<"FAIL">>) = {"FAIL"}
      BY DEF Phases, ToSet
    <3>3. Says(<<"FAIL">>, {"ABORT", "OPER_RESTORED"})
      BY <2>3, <3>1, <3>2, AfterRestoreDoes
    <3> QED BY <3>2, <3>3 DEF Says
  <2>5. /\ "freq" \in task.snap => vfo'.freq = 0
        /\ "mode" \in task.snap => vfo'.mode = home.mode
    BY <2>2, <2>4 DEF Restored, Applied, Raised
  <2> QED BY <2>3, <2>5 DEF Found
<1> QED BY <1>1, TypeCorrect, SessionInvariant, PTL DEF Spec, RestoredIsTrue

(* SWEEP_DONE (tune_band): every centre was tuned on its own frequency.    *)
THEOREM SweepIsComplete == Spec => SweepDoneIsComplete
<1>1. TypeOK /\ SessionInv /\ [Next]_vars
        => [task' # task /\ "SWEEP_DONE" \in ToSet(out')
              => tuned = 1 .. N]_vars
  <2> SUFFICES ASSUME TypeOK, SessionInv, [Next]_vars,
                      task' # task, "SWEEP_DONE" \in ToSet(out')
               PROVE  tuned = 1 .. N
    OBVIOUS
  <2>1. Session
    BY OnlySessionSays
  <2>2. PauseOver /\ task.step = N
    BY <2>1, SessionSays
  <2> QED BY <2>2 DEF SessionInv, SweepOnCourse, PauseOver, At
<1> QED BY <1>1, TypeCorrect, SessionInvariant, PTL DEF Spec, SweepDoneIsComplete

-----------------------------------------------------------------------------
(* The amplifier, if it obeys and reports within every timeout and nobody  *)
(* else touches it.                                                        *)

(* No OPERATE key is on its way; the last one on its way is the only one.  *)
NoOper(queue) == \A i \in 1 .. Len(queue) : queue[i] # "oper"
OneOper(queue) ==
  /\ Len(queue) > 0
  /\ queue[Len(queue)] = "oper"
  /\ \A i \in 1 .. Len(queue) - 1 : queue[i] # "oper"

InCycle == {"freq", "unkey", "pause"} \cup OnDial

(* STBY for the length of a cycle, and known to be. *)
InStandby(took) ==
  NoOper(cmds) /\ ~amp.oper /\ seen.op = "Stby" /\ took = home.oper

(* Where the session stands with OPERATE, await by await: as found, asked  *)
(* to go, gone, asked to come back, back.  A keycode may be lost, so after *)
(* one has left the queue the amplifier may or may not have turned, but    *)
(* what it reports is never ahead of it.                                   *)
AmpOnLoan ==
  /\ Running => seen.op # "default"
  /\ task.pc \in {"connect", "where", "mode"} =>
       /\ NoOper(cmds) /\ ~task.wasOper /\ amp.oper = home.oper
       /\ seen.op = "Oper" <=> amp.oper
  /\ task.pc = "stby" =>
       /\ home.oper /\ ~task.wasOper
       /\ \/ OneOper(cmds) /\ amp.oper /\ seen.op = "Oper"
          \/ NoOper(cmds) /\ (amp.oper => seen.op = "Oper")
  /\ task.pc \in InCycle => InStandby(task.wasOper)
  /\ task.pc = "restore" /\ ~complained /\ ~task.cancelled =>
       InStandby(task.wasOper)
  /\ task.pc = "oper" /\ ~complained =>
       /\ home.oper
       /\ \/ OneOper(cmds) /\ ~amp.oper /\ seen.op = "Stby"
          \/ NoOper(cmds) /\ (~amp.oper => seen.op = "Stby")
  /\ task.pc \in {"release", "idle"} /\ ~complained =>
       NoOper(cmds) /\ amp.oper = home.oper

(* A key queued behind others. *)
LEMMA QueuedKey ==
  ASSUME NEW q \in Seq(Keycodes), NoOper(q)
  PROVE  OneOper(Append(q, "oper")) /\ NoOper(Append(q, "tune"))
  BY DEF NoOper, OneOper, Keycodes

(* A key taken from the front. *)
LEMMA TakenKey ==
  ASSUME NEW q \in Seq(Keycodes), q # <<>>
  PROVE  /\ NoOper(q) => NoOper(Tail(q)) /\ Head(q) # "oper"
         /\ OneOper(q) => IF Head(q) = "oper" THEN NoOper(Tail(q))
                                              ELSE OneOper(Tail(q))
<1>1. /\ Len(q) \in Nat /\ Len(q) > 0
      /\ Len(Tail(q)) = Len(q) - 1 /\ Head(q) = q[1]
      /\ \A i \in 1 .. Len(q) - 1 : Tail(q)[i] = q[i + 1]
  OBVIOUS
<1>2. NoOper(q) => NoOper(Tail(q)) /\ Head(q) # "oper"
  BY <1>1 DEF NoOper
<1>3. ASSUME OneOper(q)
      PROVE  IF Head(q) = "oper" THEN NoOper(Tail(q)) ELSE OneOper(Tail(q))
  <2>1. CASE Len(q) = 1
    BY <1>1, <1>3, <2>1 DEF OneOper, NoOper
  <2>2. CASE Len(q) > 1
    <3>1. Head(q) # "oper" /\ Len(Tail(q)) > 0
      BY <1>1, <1>3, <2>2 DEF OneOper
    <3>2. Tail(q)[Len(Tail(q))] = "oper"
      BY <1>1, <1>3, <2>2 DEF OneOper
    <3>3. \A i \in 1 .. Len(Tail(q)) - 1 : Tail(q)[i] # "oper"
      BY <1>1, <1>3, <2>2 DEF OneOper
    <3> QED BY <3>1, <3>2, <3>3 DEF OneOper
  <2> QED BY <1>1, <2>1, <2>2
<1> QED BY <1>2, <1>3

(* Unwinding from standby, or with a complaint, keeps the account.         *)
LEMMA UnwindKeepsAmp ==
  ASSUME TypeOK, NEW t \in Frame, Keeps(t), Unwinds(t),
         complained' = (complained \/ Complaint),
         seen.op # "default", UNCHANGED <<amp, seen, home>>,
         complained' \/ t.cancelled \/ InStandby(t.wasOper)
  PROVE  AmpOnLoan'
<1>1. task'.pc \in {"restore", "oper", "release"}
  BY DEF Unwinds, HandsBack
<1>2. CASE task'.pc = "restore"
  <2>1. UNCHANGED cmds
    BY <1>2 DEF Unwinds, HandsBack
  <2> QED BY <1>2, <2>1 DEF AmpOnLoan, InStandby, Keeps, InCycle, OnDial
<1>3. CASE task'.pc = "release"
  <2>1. /\ t.cancelled => Complaint
        /\ cmds' = cmds /\ (t.wasOper => OpStatus = "Oper")
    BY <1>3 DEF Unwinds, HandsBack
  <2>2. ~complained' => NoOper(cmds) /\ amp.oper = home.oper
    BY <2>1 DEF InStandby, OpStatus, TypeOK, Amp, Frame
  <2> QED BY <1>3, <2>1, <2>2 DEF AmpOnLoan, InCycle, OnDial
<1>4. CASE task'.pc = "oper"
  <2>1. /\ t.cancelled => Complaint
        /\ t.wasOper /\ cmds' = Append(cmds, "oper")
    BY <1>4 DEF Unwinds, HandsBack
  <2>2. ~complained' => /\ home.oper /\ OneOper(cmds')
                        /\ ~amp.oper /\ seen.op = "Stby"
    BY <2>1, QueuedKey DEF InStandby, TypeOK
  <2> QED BY <1>4, <2>2 DEF AmpOnLoan, InCycle, OnDial
<1> QED BY <1>1, <1>2, <1>3, <1>4

(* A cycle starts in standby. *)
LEMMA CyclesKeepsAmp ==
  ASSUME TypeOK, NEW t \in Frame, NEW step, Cycles(t, step),
         complained' = (complained \/ Complaint),
         seen.op # "default", UNCHANGED <<amp, seen, home>>,
         OpStatus = "Stby" => InStandby(t.wasOper)
  PROVE  AmpOnLoan'
<1>1. CASE Begins(t, step)
  <2>1. /\ task'.pc \in InCycle /\ UNCHANGED cmds
        /\ task'.wasOper = t.wasOper /\ InStandby(t.wasOper)
    BY <1>1 DEF Begins, InCycle, OnDial, Cycles, Keeps
  <2>2. InStandby(task.wasOper)'
    BY <2>1 DEF InStandby
  <2> QED BY <2>1, <2>2 DEF AmpOnLoan, InCycle, OnDial
<1>2. CASE Unwinds(t) /\ Complaint
  BY <1>2, UnwindKeepsAmp DEF Cycles
<1> QED BY <1>1, <1>2 DEF Cycles

(* On the way to the first cycle OPERATE is as it was found. *)
LEMMA PreparesKeepsAmp ==
  ASSUME TypeOK, NEW t \in Frame, Prepares(t),
         complained' = (complained \/ Complaint),
         seen.op # "default", UNCHANGED <<amp, seen, home>>,
         NoOper(cmds), ~t.wasOper, amp.oper = home.oper,
         seen.op = "Oper" <=> amp.oper
  PROVE  AmpOnLoan'
<1>1. CASE Cycles(t, First(t))
  <2>1. OpStatus = "Stby" => InStandby(t.wasOper)
    BY DEF OpStatus, InStandby, TypeOK, Amp, Frame
  <2> QED BY <1>1, <2>1, CyclesKeepsAmp
<1>2. CASE Keeps(t) /\ TakesOper(t)
  <2>1. /\ task'.pc = "stby" /\ seen.op = "Oper"
        /\ cmds' = Append(cmds, "oper") /\ ~task'.wasOper
    BY <1>2 DEF TakesOper, OpStatus, Keeps
  <2>2. OneOper(cmds') /\ home.oper /\ amp.oper
    BY <2>1, QueuedKey DEF TypeOK
  <2> QED BY <2>1, <2>2 DEF AmpOnLoan, InCycle, OnDial
<1>3. CASE Keeps(t) /\ AsksMode(t)
  BY <1>3 DEF AsksMode, Keeps, AmpOnLoan, InCycle, OnDial
<1> QED BY <1>1, <1>2, <1>3 DEF Prepares

(* Every step of the coroutine keeps the account.                          *)
LEMMA SessionKeepsAmp ==
  ASSUME TypeOK, SessionInv, AmpOnLoan, Session
  PROVE  AmpOnLoan'
<1> USE DEF At
<1>0. /\ task \in Frame /\ SweepOnCourse /\ RigOnLoan
      /\ complained' = (complained \/ Complaint)
      /\ complained \in BOOLEAN /\ cmds \in Seq(Keycodes)
      /\ "ok" \in Outcomes /\ RadioOutcomes \subseteq Outcomes
  BY OutcomesAssumption DEF TypeOK, SessionInv, Session, Outcomes
<1>1. UNCHANGED <<amp, seen, home>> /\ seen.op # "default"
  <2>1. task.pc # "idle" /\ UNCHANGED <<amp, seen, home>>
    BY DEF Session, RadioStep, AmpWait, Connected, ConnectFailed, BandRead,
       BandNotRead, ModeSet, FreqSet, PowerSet, CarrierOn, CarrierOff, Restored,
       Released, StbySeen, StbyTimeout, StbyStopped, LedOnSeen, LedOnMissed,
       LedOffSeen, LedOffMissed, PauseOver, OperWaited
  <2> QED BY <2>1 DEF AmpOnLoan, Running
<1>2. ASSUME Keeps(task), Unwinds(task), Complaint PROVE AmpOnLoan'
  BY <1>0, <1>1, <1>2, UnwindKeepsAmp
<1>3. ASSUME NEW known \in SUBSET Fields, Prepares(Snapped(task, known)),
             task.pc \in {"connect", "where"}
      PROVE  AmpOnLoan'
  <2>1. Snapped(task, known) \in Frame
        /\ Snapped(task, known).wasOper = task.wasOper
    BY <1>0 DEF Snapped, Frame
  <2> QED BY <1>0, <1>1, <1>3, <2>1, PreparesKeepsAmp DEF AmpOnLoan
<1>4. ASSUME Keeps(task), task.pc \in InCycle, task'.pc \in InCycle,
             cmds' = cmds \/ cmds' = Append(cmds, "tune")
      PROVE  AmpOnLoan'
  <2>1. InStandby(task.wasOper)'
    BY <1>0, <1>1, <1>4, QueuedKey DEF AmpOnLoan, InStandby, Keeps
  <2> QED BY <1>1, <1>4, <2>1 DEF AmpOnLoan, InCycle, OnDial
<1>5. CASE Connected
  <2>1. CASE /\ task'.pc = "where" /\ task'.step = task.step /\ Keeps(task)
             /\ UNCHANGED <<cmds, owed>>
    BY <1>1, <1>5, <2>1 DEF Connected, AmpOnLoan, Keeps, InCycle, OnDial
  <2>2. CASE \E known \in SUBSET Fields : Prepares(Snapped(task, known))
    BY <1>3, <1>5, <2>2 DEF Connected
  <2> QED BY <1>0, <1>5, <2>1, <2>2, RadioDoes
<1>6. CASE ConnectFailed \/ BandRead \/ BandNotRead
  <2>1. task.pc \in {"connect", "where"}
    BY <1>6 DEF ConnectFailed, BandRead, BandNotRead
  <2> QED BY <1>0, <1>2, <1>3, <1>6, <2>1, RadioDoes
<1>7. ASSUME NEW r \in RadioOutcomes, ModeSet(r) PROVE AmpOnLoan'
  <2>1. CASE Raised(r)
    BY <1>0, <1>2, <1>7, <2>1, RadioDoes
  <2>2. CASE ~Raised(r)
    <3>1. Prepares(task) /\ task.pc = "mode"
      BY <1>0, <1>7, <2>2, RadioDoes DEF ModeSet
    <3> QED BY <1>0, <1>1, <3>1, PreparesKeepsAmp DEF AmpOnLoan
  <2> QED BY <2>1, <2>2
<1>8. ASSUME NEW r \in RadioOutcomes, FreqSet(r) \/ PowerSet(r) \/ CarrierOn(r)
      PROVE  AmpOnLoan'
  <2>1. task.pc \in InCycle
    BY <1>8 DEF FreqSet, PowerSet, CarrierOn, InCycle, OnDial
  <2>2. CASE Raised(r)
    BY <1>0, <1>2, <1>8, <2>2, RadioDoes
  <2>3. CASE ~Raised(r)
    <3>1. /\ Keeps(task) /\ task'.pc \in {"power", "ledOn", "ledOff"}
          /\ cmds' = cmds \/ cmds' = Append(cmds, "tune")
      BY <1>0, <1>8, <2>3, RadioDoes
    <3> QED BY <1>4, <2>1, <3>1 DEF InCycle, OnDial
  <2> QED BY <2>2, <2>3
<1>9. ASSUME NEW r \in RadioOutcomes, CarrierOff(r) PROVE AmpOnLoan'
  <2>1. task.pc = "unkey" /\ task.pc \in InCycle
    BY <1>9 DEF CarrierOff, InCycle
  <2>2. CASE Keeps(task) /\ Unwinds(task)
    BY <1>0, <1>1, <2>1, <2>2, UnwindKeepsAmp DEF AmpOnLoan
  <2>3. CASE task'.pc = "pause" /\ Keeps(task) /\ UNCHANGED cmds
    BY <1>4, <2>1, <2>3 DEF InCycle
  <2> QED BY <1>0, <1>9, <2>2, <2>3, RadioDoes
<1>10. ASSUME NEW f \in RadioOutcomes, NEW m \in RadioOutcomes, Restored(f, m)
       PROVE  AmpOnLoan'
  <2>1. task.pc = "restore"
    BY <1>10 DEF Restored
  <2>2. /\ Keeps(task) /\ HandsBack(task)
        /\ task.cancelled => Complaint
    BY <1>0, <1>10, RadioDoes
  <2>3. ~complained' => InStandby(task.wasOper)
    BY <1>0, <2>1, <2>2 DEF AmpOnLoan
  <2>4. CASE task'.pc = "release"
    <3>1. cmds' = cmds /\ (task.wasOper => OpStatus = "Oper")
      BY <2>2, <2>4 DEF HandsBack
    <3>2. ~complained' => NoOper(cmds) /\ amp.oper = home.oper
      BY <2>3, <3>1 DEF InStandby, OpStatus, TypeOK, Amp, Frame
    <3> QED BY <1>1, <2>4, <3>1, <3>2 DEF AmpOnLoan, InCycle, OnDial
  <2>5. CASE task'.pc = "oper"
    <3>1. task.wasOper /\ cmds' = Append(cmds, "oper")
      BY <2>2, <2>5 DEF HandsBack
    <3>2. ~complained' => /\ home.oper /\ OneOper(cmds')
                          /\ ~amp.oper /\ seen.op = "Stby"
      BY <1>0, <2>3, <3>1, QueuedKey DEF InStandby
    <3> QED BY <1>1, <2>5, <3>2 DEF AmpOnLoan, InCycle, OnDial
  <2> QED BY <2>2, <2>4, <2>5 DEF HandsBack
<1>11. CASE Released
  <2>1. task'.pc = "idle" /\ task.pc = "release" /\ UNCHANGED cmds
    BY <1>11 DEF Released, Await
  <2> QED BY <1>0, <1>1, <2>1 DEF AmpOnLoan, InCycle, OnDial, Running
<1>12. CASE StbySeen
  <2>1. task.pc = "stby" /\ OpStatus = "Stby"
    BY <1>12 DEF StbySeen
  <2>2. Taken \in Frame /\ Taken.wasOper
    BY <1>0 DEF Taken, Frame
  <2>3. InStandby(Taken.wasOper)
    BY <1>1, <2>1, <2>2 DEF AmpOnLoan, OpStatus, InStandby, TypeOK, Amp, Frame
  <2> QED BY <1>0, <1>1, <1>12, <2>2, <2>3, CyclesKeepsAmp, WaitDoes
<1>13. CASE StbyTimeout \/ LedOnMissed
  BY <1>0, <1>2, <1>13, WaitDoes
<1>14. CASE StbyStopped
  <2>1. CASE Keeps(Cancelled) /\ Unwinds(Cancelled)
    <3>1. Cancelled \in Frame /\ Cancelled.cancelled
      BY <1>0 DEF Cancelled, Frame
    <3> QED BY <1>0, <1>1, <2>1, <3>1, UnwindKeepsAmp
  <2> QED BY <1>0, <1>2, <1>14, <2>1, WaitDoes
<1>15. CASE LedOnSeen \/ LedOffSeen \/ LedOffMissed
  <2>1. task.pc \in InCycle
    BY <1>15 DEF LedOnSeen, LedOffSeen, LedOffMissed, InCycle, OnDial
  <2>2. Keeps(task) /\ task'.pc \in {"key", "unkey"} /\ cmds' = cmds
    BY <1>0, <1>15, WaitDoes
  <2> QED BY <1>4, <2>1, <2>2 DEF InCycle, OnDial
<1>16. CASE PauseOver
  <2>1. InStandby(task.wasOper)
    BY <1>16 DEF PauseOver, AmpOnLoan, InCycle
  <2>2. CASE Keeps(task) /\ Unwinds(task)
    BY <1>0, <1>1, <2>1, <2>2, UnwindKeepsAmp
  <2>3. CASE Cycles(task, task.step + 1)
    BY <1>0, <1>1, <2>1, <2>3, CyclesKeepsAmp
  <2> QED BY <1>0, <1>16, <2>2, <2>3, WaitDoes
<1>17. CASE OperWaited
  <2>1. /\ task.pc = "oper" /\ task'.pc = "release" /\ Keeps(task)
        /\ UNCHANGED cmds /\ (OpStatus = "Oper" \/ Complaint)
    BY <1>0, <1>17, WaitDoes DEF OperWaited
  <2>2. ~complained' => NoOper(cmds) /\ amp.oper = home.oper
    BY <1>0, <1>1, <2>1 DEF AmpOnLoan, OpStatus, TypeOK, Amp
  <2> QED BY <1>1, <2>1, <2>2 DEF AmpOnLoan, InCycle, OnDial
<1> QED BY <1>5, <1>6, <1>7, <1>8, <1>9, <1>10, <1>11, <1>12, <1>13, <1>14,
           <1>15, <1>16, <1>17 DEF Session, RadioStep, AmpWait

(* The amplifier and its reports keep it too. *)
LEMMA WorldKeepsAmp ==
  ASSUME TypeOK, AmpOnLoan, World, ~Strangers
  PROVE  AmpOnLoan'
<1>0. /\ UNCHANGED <<task, home, complained>> /\ cmds \in Seq(Keycodes)
      /\ amp \in Amp /\ amp' \in Amp
  BY DEF World, AmpObeys, AmpTuned, CsvFrame, RcuFrame, Press, Outside,
         histVars, TypeOK, Amp
<1>1. CASE AmpObeys
  <2>1. /\ cmds # <<>> /\ cmds' = Tail(cmds) /\ UNCHANGED seen
        /\ amp'.oper = amp.oper \/ (Head(cmds) = "oper" /\ amp'.oper = ~amp.oper)
    BY <1>0, <1>1 DEF AmpObeys, Amp
  <2>2. /\ NoOper(cmds) => NoOper(cmds') /\ amp'.oper = amp.oper
        /\ OneOper(cmds) => \/ OneOper(cmds') /\ amp'.oper = amp.oper
                            \/ NoOper(cmds')
    <3>1. NoOper(cmds) => NoOper(cmds') /\ Head(cmds) # "oper"
      BY <1>0, <2>1, TakenKey
    <3>2. OneOper(cmds) => IF Head(cmds) = "oper" THEN NoOper(cmds')
                                                  ELSE OneOper(cmds')
      BY <1>0, <2>1, TakenKey
    <3> QED BY <2>1, <3>1, <3>2
  <2>3. amp'.oper \in BOOLEAN /\ amp.oper \in BOOLEAN
    BY <1>0 DEF Amp
  <2> QED BY <1>0, <2>1, <2>2, <2>3 DEF AmpOnLoan, InStandby, Running
<1>2. CASE CsvFrame
  <2>1. /\ seen'.op = IF amp.oper THEN "Oper" ELSE "Stby"
        /\ UNCHANGED <<cmds, amp>>
    BY <1>2 DEF CsvFrame, Reported, TypeOK
  <2> QED BY <1>0, <2>1 DEF AmpOnLoan, InStandby, Running, Amp
<1>3. CASE AmpTuned \/ RcuFrame
  <2>1. UNCHANGED cmds /\ seen'.op = seen.op /\ amp'.oper = amp.oper
    BY <1>3 DEF AmpTuned, RcuFrame, TypeOK, Amp
  <2> QED BY <1>0, <2>1 DEF AmpOnLoan, InStandby, Running
<1> QED BY <1>1, <1>2, <1>3 DEF World, Press

(* A session that starts with a true status starts the account right. *)
LEMMA RequestOpensAccount ==
  ASSUME TypeOK, NEW k \in Kinds, Request(k), home'.known
  PROVE  AmpOnLoan'
<1>1. StatusIsTrue
  BY DEF Request
<1>2. seen.op = Reported /\ NoOper(cmds)
  <2>1. cmds \in Seq(Keycodes) /\ "oper" \notin ToSet(cmds)
    BY <1>1 DEF StatusIsTrue, TypeOK
  <2> QED BY <1>1, <2>1 DEF StatusIsTrue, ToSet, NoOper
<1>3. /\ task' = NewFrame(k) /\ home'.oper = amp.oper
      /\ UNCHANGED <<cmds, amp, seen>>
  BY DEF Request
<1>4. amp.oper \in BOOLEAN
  BY DEF TypeOK, Amp
<1> QED BY <1>2, <1>3, <1>4 DEF Reported, AmpOnLoan, NewFrame, NoOper, InCycle,
                                OnDial

AmpLent == home.known => AmpOnLoan

(* From the first state on, a session that started so keeps its account.   *)
LEMMA AmpInvariant ==
  ASSUME ~Strangers
  PROVE  Spec => []AmpLent
<1>1. Init => AmpLent
  BY DEF Init, AmpLent
<1>2. TypeOK /\ SessionInv /\ AmpLent /\ [Next]_vars => AmpLent'
  <2> SUFFICES ASSUME TypeOK, SessionInv, AmpLent, [Next]_vars, home'.known
               PROVE  AmpOnLoan'
    BY DEF AmpLent
  <2>1. CASE Session
    <3>1. UNCHANGED home
      BY <2>1 DEF Session, RadioStep, AmpWait, Connected, ConnectFailed,
         BandRead, BandNotRead, ModeSet, FreqSet, PowerSet, CarrierOn,
         CarrierOff, Restored, Released, StbySeen, StbyTimeout, StbyStopped,
         LedOnSeen, LedOnMissed, LedOffSeen, LedOffMissed, PauseOver,
         OperWaited, At
    <3> QED BY <2>1, <3>1, SessionKeepsAmp DEF AmpLent
  <2>2. CASE World
    <3>1. UNCHANGED home
      BY <2>2 DEF World, AmpObeys, AmpTuned, CsvFrame, RcuFrame, Press,
         Outside, histVars
    <3> QED BY <2>2, <3>1, WorldKeepsAmp DEF AmpLent
  <2>3. ASSUME NEW k \in Kinds, Request(k) PROVE AmpOnLoan'
    BY <2>3, RequestOpensAccount
  <2>4. CASE RefuseRequest \/ Stop \/ UNCHANGED vars
    <3>1. UNCHANGED <<task, cmds, amp, seen, home, complained>>
      BY <2>4 DEF RefuseRequest, Stop, vars, histVars
    <3> QED BY <3>1 DEF AmpLent, AmpOnLoan, InStandby, Running
  <2> QED BY <2>1, <2>2, <2>3, <2>4 DEF Next, Client
<1> QED BY <1>1, <1>2, TypeCorrect, SessionInvariant, PTL DEF Spec

(* An amplifier nobody else touches is left in OPERATE or STBY as it was   *)
(* found (_ensure_stby, _restore_operate), even if keycodes get lost or    *)
(* come late, by a session that complained of nothing and that knew how it *)
(* found it: op_status was the amplifier's, no OPERATE keycode in flight.  *)
THEOREM AmpIsAsFound ==
  ASSUME ~Strangers
  PROVE  Spec => []AmpAsFound
<1>1. AmpLent => AmpAsFound
  BY DEF AmpLent, AmpOnLoan, AmpAsFound, Running
<1> QED BY <1>1, AmpInvariant, PTL

(* On the same condition, the carrier is never on with an amplifier nobody *)
(* else touches in OPERATE (_ensure_stby, and the preflight of             *)
(* _run_one_cycle); without it TLC refutes this (KeyedAlwaysInStby).        *)
THEOREM KeyedOnlyInStby ==
  ASSUME ~Strangers
  PROVE  Spec => []KeyedInStby
<1>1. AmpLent => KeyedInStby
  BY DEF AmpLent, AmpOnLoan, KeyedInStby, InStandby, InCycle, OnDial
<1> QED BY <1>1, AmpInvariant, PTL
=============================================================================
