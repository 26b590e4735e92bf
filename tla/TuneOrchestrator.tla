-------------------------- MODULE TuneOrchestrator --------------------------
(***************************************************************************)
(* One ATU tune (spe/tune_orchestrator.py): the coroutine that drops the   *)
(* amplifier to STBY, presses TUNE, keys the radio's carrier while the     *)
(* amplifier's TUNE LED is lit, and puts everything back.                  *)
(*                                                                         *)
(* The orchestrator is an asyncio coroutine: between two awaits nothing    *)
(* else runs.  An action is therefore one await-to-await segment: it       *)
(* starts with the outcome of the await named by task.pc and ends at the   *)
(* next one.  The code between them is written as operators that take the  *)
(* coroutine's frame t and the phases `said' in the segment so far.        *)
(*                                                                         *)
(* The radio and the amplifier are external: a radio command takes effect, *)
(* is refused, or takes effect without its reply arriving in time; the     *)
(* amplifier obeys a keycode later, or never, and the server only sees     *)
(* what it last reported (`seen').                                         *)
(***************************************************************************)
EXTENDS Integers, Sequences, SequencesExt

CONSTANTS
  N,              \* sub-band centres of the swept band (spe_band_table.lookup)
  RadioOutcomes,  \* what a radio command may do: "ok", "refused", "late"
  Prompt,         \* the amplifier obeys and reports within every timeout
  Strangers,      \* front-panel and other clients' presses happen
  MaxBacklog      \* bound: keycodes in flight when a session starts

Outcomes == {"ok", "refused", "late"}
Kinds == {"single",    \* tune_single() on the frequency the rig is on
          "singleAt",  \* tune_single(freq)
          "band"}      \* tune_band(), a band named or "auto"

ASSUME NAssumption == N \in Nat \ {0}
ASSUME OutcomesAssumption == RadioOutcomes \subseteq Outcomes
ASSUME FlagsAssumption ==
  Prompt \in BOOLEAN /\ Strangers \in BOOLEAN
ASSUME BacklogAssumption == MaxBacklog \in Nat

VARIABLES
  task,        \* the coroutine's frame: where it awaits, and its locals
  stop,        \* _stop_requested
  out,         \* the phases the latest step to emit any emitted, in order
  cmds,        \* keycodes on their way to the amplifier, oldest first
  amp,         \* the amplifier: OPERATE or STBY, TUNE LED
  seen,        \* serial.state.op_status and serial.last_tune_active
  vfo,         \* the operator channel's frequency and mode
  tx,          \* the radio is transmitting the tune carrier
  held,        \* the radio connection is held for this session
  (* history *)
  home,        \* mode and amplifier as the session found them, and
               \* whether the server knew how it found the amplifier
  owed,        \* OPERATE was taken away and no attempt made to give it back
  complained,  \* the session has emitted FAIL or ABORT
  unsure,      \* the last carrier command raised: its effect is unknown
  tuned        \* centres whose cycle ran to LED_OFF on that frequency

histVars == <<home, owed, complained, unsure, tuned>>
vars == <<task, stop, out, cmds, amp, seen, vfo, tx, held,
          home, owed, complained, unsure, tuned>>

-----------------------------------------------------------------------------
(* The coroutine's await points, in the order the code reaches them.       *)

Preparing == {"connect", "where", "mode", "stby", "freq", "power", "ledOn",
              "pause"}
Ending == {"restore", "oper", "release"}
Points == {"idle", "key", "ledOff", "unkey"} \cup Preparing \cup Ending

Freqs == 0 .. N  \* 0: where the session found the dial; i: the i-th centre
Modes == {"CW", "other"}
Fields == {"freq", "mode"}

Frame == [pc : Points, kind : Kinds, step : 0 .. N, snap : SUBSET Fields,
          wasOper : BOOLEAN, cancelled : BOOLEAN, success : BOOLEAN]
Vfo == [freq : Freqs, mode : Modes]
Amp == [oper : BOOLEAN, led : BOOLEAN]
Keycodes == {"oper", "tune"}
Phases == {"STARTED", "PREFLIGHT_OK", "FREQ_SET", "MODE_SET", "TUNE_SENT",
           "LED_ON", "CARRIER_ON", "LED_OFF", "CARRIER_OFF", "SUCCESS",
           "FAIL", "ABORT", "VFO_SAVED", "VFO_RESTORED", "STBY_SET",
           "OPER_RESTORED", "BAND_CHECKED", "SWEEP_STARTED", "SWEEP_STEP",
           "SWEEP_DONE"}

IsSweep(t) == t.kind = "band"
Running == task.pc # "idle"

(* The VFO as the session found it. *)
Found == [freq |-> 0, mode |-> home.mode]

(* serial.state.op_status: until a first CSV frame, AmplifierState's       *)
(* default.                                                                *)
OpStatus == IF seen.op = "default" THEN "Stby" ELSE seen.op

(* The frequency the current cycle asks for; tune_single may ask for none. *)
WantsFreq(t) == t.kind # "single"
Target(t) == IF IsSweep(t) THEN t.step ELSE 1

-----------------------------------------------------------------------------
(* Segments of the coroutine.  Each fixes task, out, cmds and owed.        *)

Await(t, point, said) == task' = [t EXCEPT !.pc = point] /\ out' = said
SendKeycode(c) == cmds' = Append(cmds, c)

(* Mutant of HandBack: OPERATE is switched on whether it was taken or not. *)
HandBackAlways(t, said) ==
  \/ /\ OpStatus = "Oper"
     /\ Await(t, "release", said)
     /\ owed' = FALSE
     /\ UNCHANGED cmds
  \/ /\ OpStatus # "Oper"
     /\ SendKeycode("oper")
     /\ Await(t, "oper", said)
     /\ owed' = FALSE

(* The outermost finally: give OPERATE back if it was taken, then release. *)
HandBack(t, said) ==
  \/ /\ ~t.wasOper
     /\ Await(t, "release", said)
     /\ UNCHANGED <<cmds, owed>>
  \/ /\ t.wasOper /\ OpStatus = "Oper"
     /\ Await(t, "release", Append(said, "OPER_RESTORED"))
     /\ owed' = FALSE
     /\ UNCHANGED cmds
  \/ /\ t.wasOper /\ OpStatus # "Oper"
     /\ SendKeycode("oper")
     /\ Await(t, "oper", said)
     /\ owed' = FALSE

(* tune_single restores the VFO before it reports a cancellation.          *)
AfterRestore(t, said) ==
  HandBack(t, IF t.cancelled THEN Append(said, "ABORT") ELSE said)

Unwind(t, said) ==
  \/ /\ t.snap # {}
     /\ Await(t, "restore", said)
     /\ UNCHANGED <<cmds, owed>>
  \/ t.snap = {} /\ AfterRestore(t, said)

(* A cycle that gives up before its carrier is on: its finally adds FAIL,  *)
(* and a sweep adds the summary FAIL of the sub-band.                      *)
CycleFails(t, said) ==
  Unwind(t, said \o (IF IsSweep(t) THEN <<"FAIL", "FAIL">> ELSE <<"FAIL">>))

StartCycle(t, said) ==
  LET begun == Append(said, "STARTED")
      ready == OpStatus = "Stby" /\ ~seen.led
  IN  \/ ~ready /\ CycleFails(t, Append(begun, "FAIL"))
      \/ /\ ready
         /\ Await(t, IF WantsFreq(t) THEN "freq" ELSE "power",
                  Append(begun, "PREFLIGHT_OK"))
         /\ UNCHANGED <<cmds, owed>>

(* The head of tune_band's loop. *)
NextCentre(t, said) ==
  \/ t.step = N /\ Unwind(t, Append(said, "SWEEP_DONE"))
  \/ t.step < N /\ stop /\ Unwind(t, Append(said, "ABORT"))
  \/ /\ t.step < N /\ ~stop
     /\ StartCycle([t EXCEPT !.step = @ + 1], Append(said, "SWEEP_STEP"))

InStby(t, said) ==
  \/ IsSweep(t) /\ NextCentre(t, said \o <<"STBY_SET", "SWEEP_STARTED">>)
  \/ ~IsSweep(t) /\ StartCycle(t, Append(said, "STBY_SET"))

(* Mutant of EnsureStby: the OPERATE key is pressed twice, to be sure.      *)
EnsureStbyTwice(t, said) ==
  \/ OpStatus # "Oper" /\ InStby(t, said)
  \/ /\ OpStatus = "Oper"
     /\ cmds' = cmds \o <<"oper", "oper">>
     /\ Await(t, "stby", said)
     /\ owed' = TRUE

(* The OPERATE key is a toggle, pressed on the strength of the cached status. *)
EnsureStby(t, said) ==
  \/ OpStatus # "Oper" /\ InStby(t, said)
  \/ /\ OpStatus = "Oper"
     /\ SendKeycode("oper")
     /\ Await(t, "stby", said)
     /\ owed' = TRUE

(* Mutant of SetTuneMode: CW is asked for, known mode or not.              *)
SetTuneModeBlind(t, said) ==
  \/ vfo.mode = "CW" /\ EnsureStby(t, said)
  \/ /\ vfo.mode # "CW"
     /\ Await(t, "mode", said)
     /\ UNCHANGED <<cmds, owed>>

(* CW is only asked for when the mode to put back is known. *)
SetTuneMode(t, said) ==
  \/ "mode" \notin t.snap /\ EnsureStby(t, Append(said, "MODE_SET"))
  \/ "mode" \in t.snap /\ vfo.mode = "CW" /\ EnsureStby(t, said)
  \/ /\ "mode" \in t.snap /\ vfo.mode # "CW"
     /\ Await(t, "mode", said)
     /\ UNCHANGED <<cmds, owed>>

(* The snapshot holds whichever fields the backend's cache has seen. *)
TakeSnapshot(t, known, said) ==
  SetTuneMode([t EXCEPT !.snap = known], Append(said, "VFO_SAVED"))

-----------------------------------------------------------------------------
(* Requests and stops, from any client at any time. *)

NewFrame(k) == [pc |-> "connect", kind |-> k, step |-> 0, snap |-> {},
                wasOper |-> FALSE, cancelled |-> FALSE, success |-> FALSE]

Reported == IF amp.oper THEN "Oper" ELSE "Stby"

(* What op_status says is what OPERATE is and will stay: a status frame    *)
(* has replaced the default, and no OPERATE keycode is on its way.         *)
StatusIsTrue == seen.op = Reported /\ "oper" \notin ToSet(cmds)

(* tune_single / tune_band up to their first await: whatever the last      *)
(* session left on its way, and whatever the status is worth.              *)
Request(k) ==
  /\ ~Running
  /\ Len(cmds) <= MaxBacklog
  /\ task' = NewFrame(k)
  /\ stop' = FALSE
  /\ out' = <<>>
  /\ vfo' = [vfo EXCEPT !.freq = 0]
  /\ home' = [mode |-> vfo.mode, oper |-> amp.oper, known |-> StatusIsTrue]
  /\ owed' = FALSE
  /\ complained' = FALSE
  /\ tuned' = {}
  /\ UNCHANGED <<cmds, amp, seen, tx, held, unsure>>

(* A second request while one is running is refused, and says so to all.   *)
RefuseRequest ==
  /\ Running
  /\ out' = <<"FAIL">>
  /\ UNCHANGED <<task, stop, cmds, amp, seen, vfo, tx, held, histVars>>

Stop ==
  /\ ~stop
  /\ stop' = TRUE
  /\ UNCHANGED <<task, out, cmds, amp, seen, vfo, tx, held, histVars>>

-----------------------------------------------------------------------------
(* Awaits on the radio. *)

At(point) == task.pc = point /\ UNCHANGED <<stop, amp, seen, home>>

(* How a radio command ended: r is its outcome, Effect what it does.       *)
Applied(r) == r \in {"ok", "late"}
Raised(r) == r # "ok"

Connected ==
  /\ At("connect")
  /\ held' = TRUE
  /\ \/ /\ ~IsSweep(task)
        /\ \E known \in SUBSET Fields : TakeSnapshot(task, known, <<>>)
     \/ /\ IsSweep(task)
        /\ Await(task, "where", <<>>)
        /\ UNCHANGED <<cmds, owed>>
  /\ UNCHANGED <<vfo, tx, unsure, tuned>>

ConnectFailed ==
  /\ At("connect")
  /\ HandBack(task, <<"FAIL">>)
  /\ UNCHANGED <<vfo, tx, held, unsure, tuned>>

(* The radio's frequency is known and lies in a ham band: the radio rules. *)
BandRead ==
  /\ At("where")
  /\ ~stop
  /\ \E known \in SUBSET Fields :
       /\ "freq" \in known
       /\ TakeSnapshot(task, known, <<"BAND_CHECKED">>)
  /\ UNCHANGED <<vfo, tx, held, unsure, tuned>>

(* Unknown, outside every band, or given up on because of a stop: a band   *)
(* the request names is then trusted; one that names none, or one the      *)
(* table does not have, fails.                                             *)
BandNotRead ==
  /\ At("where")
  /\ \/ \E known \in SUBSET Fields :
          TakeSnapshot(task, known, <<"BAND_CHECKED">>)
     \/ HandBack(task, <<"FAIL">>)
  /\ UNCHANGED <<vfo, tx, held, unsure, tuned>>

ModeSet(r) ==
  /\ At("mode")
  /\ vfo' = IF Applied(r) THEN [vfo EXCEPT !.mode = "CW"] ELSE vfo
  /\ \/ ~Raised(r) /\ EnsureStby(task, <<"MODE_SET">>)
     \/ Raised(r) /\ Unwind(task, <<"FAIL">>)
  /\ UNCHANGED <<tx, held, unsure, tuned>>

FreqSet(r) ==
  /\ At("freq")
  /\ vfo' = IF Applied(r) THEN [vfo EXCEPT !.freq = Target(task)] ELSE vfo
  /\ \/ /\ ~Raised(r)
        /\ Await(task, "power", <<"FREQ_SET">>)
        /\ UNCHANGED <<cmds, owed>>
     \/ Raised(r) /\ CycleFails(task, <<"FAIL">>)
  /\ UNCHANGED <<tx, held, unsure, tuned>>

PowerSet(r) ==
  /\ At("power")
  /\ \/ /\ ~Raised(r)
        /\ SendKeycode("tune")
        /\ Await(task, "ledOn", <<"TUNE_SENT">>)
        /\ UNCHANGED owed
     \/ Raised(r) /\ CycleFails(task, <<"FAIL">>)
  /\ UNCHANGED <<vfo, tx, held, unsure, tuned>>

(* carrier_on is assigned after the await: a carrier that came on without  *)
(* its reply is not one the finally switches off.                          *)
CarrierOn(r) ==
  /\ At("key")
  /\ tx' = (tx \/ Applied(r))
  /\ unsure' = (unsure \/ Raised(r))
  /\ \/ /\ ~Raised(r)
        /\ Await(task, "ledOff", <<"CARRIER_ON">>)
        /\ UNCHANGED <<cmds, owed>>
     \/ Raised(r) /\ CycleFails(task, <<"FAIL">>)
  /\ UNCHANGED <<vfo, held, tuned>>

(* Mutant of CarrierOff: a failed sub-band does not end the sweep.         *)
CarrierOffGoesOn(r) ==
  LET off == IF Raised(r) THEN "FAIL" ELSE "CARRIER_OFF"
  IN  /\ At("unkey")
      /\ tx' = (tx /\ ~Applied(r))
      /\ unsure' = Raised(r)
      /\ \/ /\ IsSweep(task)
            /\ Await(task, "pause", <<off>>)
            /\ UNCHANGED <<cmds, owed>>
         \/ ~IsSweep(task) /\ Unwind(task, <<off>>)
      /\ UNCHANGED <<vfo, held, tuned>>

(* The finally's carrier-off, the verdict of the cycle, and what the       *)
(* caller does with it.                                                    *)
CarrierOff(r) ==
  LET off == IF Raised(r) THEN "FAIL" ELSE "CARRIER_OFF"
  IN  /\ At("unkey")
      /\ tx' = (tx /\ ~Applied(r))
      /\ unsure' = Raised(r)
      /\ \/ /\ task.success /\ IsSweep(task)
            /\ Await(task, "pause", <<off, "SUCCESS">>)
            /\ UNCHANGED <<cmds, owed>>
         \/ task.success /\ ~IsSweep(task) /\ Unwind(task, <<off, "SUCCESS">>)
         \/ ~task.success /\ CycleFails(task, <<off>>)
      /\ UNCHANGED <<vfo, held, tuned>>

(* Mutant of Restored: the backend swallows what it could not restore.     *)
RestoredSwallows(f, m) ==
  LET hasF == "freq" \in task.snap
      hasM == "mode" \in task.snap
  IN  /\ At("restore")
      /\ vfo' = [freq |-> IF hasF /\ Applied(f) THEN 0 ELSE vfo.freq,
                 mode |-> IF hasM /\ Applied(m) THEN home.mode ELSE vfo.mode]
      /\ AfterRestore(task, <<"VFO_RESTORED">>)
      /\ UNCHANGED <<tx, held, unsure, tuned>>

(* restore() writes the frequency, then the mode, and gives up at the      *)
(* first command that raises.  f and m are the two outcomes.               *)
Restored(f, m) ==
  LET hasF == "freq" \in task.snap
      hasM == "mode" \in task.snap
      reached == ~(hasF /\ Raised(f))
      raised == (hasF /\ Raised(f)) \/ (reached /\ hasM /\ Raised(m))
  IN  /\ At("restore")
      /\ vfo' = [freq |-> IF hasF /\ Applied(f) THEN 0 ELSE vfo.freq,
                 mode |-> IF hasM /\ reached /\ Applied(m)
                          THEN home.mode ELSE vfo.mode]
      /\ AfterRestore(task, IF raised THEN <<"FAIL">> ELSE <<"VFO_RESTORED">>)
      /\ UNCHANGED <<tx, held, unsure, tuned>>

(* disconnect() never raises; _running is cleared behind it and the frame  *)
(* is gone (what was saved stays, for the properties).                     *)
Released ==
  /\ At("release")
  /\ held' = FALSE
  /\ Await([NewFrame("single") EXCEPT !.snap = task.snap], "idle", <<>>)
  /\ UNCHANGED <<cmds, owed, vfo, tx, unsure, tuned>>

-----------------------------------------------------------------------------
(* Awaits on the amplifier: a poll every 0.1 s looks at the stop flag      *)
(* first, then at the status, and a deadline bounds it.                    *)

(* The amplifier has caught up with its keycodes, and the server with it.  *)
Settled == cmds = <<>> /\ seen.led = amp.led /\ seen.op = Reported

TimesOut(condition) == Prompt => Settled /\ ~condition

(* Mutant of StbySeen: that OPERATE was taken is forgotten.                *)
StbySeenForgets ==
  /\ At("stby")
  /\ ~stop /\ OpStatus = "Stby"
  /\ InStby(task, <<>>)
  /\ UNCHANGED <<vfo, tx, held, unsure, tuned>>

StbySeen ==
  /\ At("stby")
  /\ ~stop /\ OpStatus = "Stby"
  /\ InStby([task EXCEPT !.wasOper = TRUE], <<>>)
  /\ UNCHANGED <<vfo, tx, held, unsure, tuned>>

StbyTimeout ==
  /\ At("stby")
  /\ TimesOut(OpStatus = "Stby")
  /\ Unwind(task, <<"FAIL">>)
  /\ UNCHANGED <<vfo, tx, held, unsure, tuned>>

(* The cancellation leaves before was_operate is assigned. *)
StbyStopped ==
  /\ At("stby")
  /\ stop
  /\ \/ IsSweep(task) /\ Unwind(task, <<"ABORT">>)
     \/ ~IsSweep(task) /\ Unwind([task EXCEPT !.cancelled = TRUE], <<>>)
  /\ UNCHANGED <<vfo, tx, held, unsure, tuned>>

(* Mutant of LedOnSeen: the LED is looked at before the stop flag.         *)
LedOnSeenFirst ==
  /\ At("ledOn")
  /\ seen.led
  /\ Await(task, "key", <<"LED_ON">>)
  /\ UNCHANGED <<cmds, owed, vfo, tx, held, unsure, tuned>>

LedOnSeen ==
  /\ At("ledOn")
  /\ ~stop /\ seen.led
  /\ Await(task, "key", <<"LED_ON">>)
  /\ UNCHANGED <<cmds, owed, vfo, tx, held, unsure, tuned>>

LedOnMissed ==
  /\ At("ledOn")
  /\ \/ stop /\ CycleFails(task, <<"ABORT">>)
     \/ TimesOut(seen.led) /\ CycleFails(task, <<"FAIL">>)
  /\ UNCHANGED <<vfo, tx, held, unsure, tuned>>

(* Mutant of LedOffSeen: a sweep leaves the carrier on between sub-bands.  *)
LedOffSeenStaysKeyed ==
  /\ At("ledOff")
  /\ ~stop /\ ~seen.led
  /\ Await([task EXCEPT !.success = TRUE],
           IF IsSweep(task) THEN "pause" ELSE "unkey", <<"LED_OFF">>)
  /\ tuned' = IF vfo.freq = Target(task) THEN tuned \cup {vfo.freq} ELSE tuned
  /\ UNCHANGED <<cmds, owed, vfo, tx, held, unsure>>

LedOffSeen ==
  /\ At("ledOff")
  /\ ~stop /\ ~seen.led
  /\ Await([task EXCEPT !.success = TRUE], "unkey", <<"LED_OFF">>)
  /\ tuned' = IF vfo.freq = Target(task) THEN tuned \cup {vfo.freq} ELSE tuned
  /\ UNCHANGED <<cmds, owed, vfo, tx, held, unsure>>

(* Mutant of LedOffMissed: giving up skips the carrier-off.                *)
LedOffMissedUnwinds ==
  /\ At("ledOff")
  /\ \/ stop /\ CycleFails(task, <<"ABORT">>)
     \/ TimesOut(~seen.led) /\ CycleFails(task, <<"FAIL">>)
  /\ UNCHANGED <<vfo, tx, held, unsure, tuned>>

LedOffMissed ==
  /\ At("ledOff")
  /\ \/ stop /\ Await([task EXCEPT !.success = FALSE], "unkey", <<"ABORT">>)
     \/ /\ TimesOut(~seen.led)
        /\ Await([task EXCEPT !.success = FALSE], "unkey", <<"FAIL">>)
  /\ UNCHANGED <<cmds, owed, vfo, tx, held, unsure, tuned>>

(* The one-second pause between sub-bands. *)
PauseOver ==
  /\ At("pause")
  /\ NextCentre([task EXCEPT !.success = FALSE], <<>>)
  /\ UNCHANGED <<vfo, tx, held, unsure, tuned>>

(* Mutant of OperWaited: the wait for OPERATE has no deadline.             *)
OperWaitedForever ==
  /\ At("oper")
  /\ OpStatus = "Oper" /\ Await(task, "release", <<"OPER_RESTORED">>)
  /\ UNCHANGED <<cmds, owed, vfo, tx, held, unsure, tuned>>

(* _restore_operate waits with ignore_stop. *)
OperWaited ==
  /\ At("oper")
  /\ \/ OpStatus = "Oper" /\ Await(task, "release", <<"OPER_RESTORED">>)
     \/ TimesOut(OpStatus = "Oper") /\ Await(task, "release", <<"FAIL">>)
  /\ UNCHANGED <<cmds, owed, vfo, tx, held, unsure, tuned>>

-----------------------------------------------------------------------------
(* The amplifier (external). *)

Outside == UNCHANGED <<task, stop, out, vfo, tx, held, histVars>>

(* OPERATE toggles; TUNE starts the ATU if it starts at all; a keycode may *)
(* be lost.                                                                *)
AmpObeys ==
  /\ cmds # <<>>
  /\ cmds' = Tail(cmds)
  /\ \/ Head(cmds) = "oper" /\ amp' = [amp EXCEPT !.oper = ~@]
     \/ Head(cmds) = "tune" /\ amp' = [amp EXCEPT !.led = TRUE]
     \/ UNCHANGED amp
  /\ UNCHANGED seen /\ Outside

(* The ATU finishes, or gives up. *)
AmpTuned ==
  /\ amp.led
  /\ amp' = [amp EXCEPT !.led = FALSE]
  /\ UNCHANGED <<cmds, seen>> /\ Outside

(* A CSV frame refreshes op_status; an RCU frame the TUNE LED. *)
CsvFrame ==
  /\ seen' = [seen EXCEPT !.op = Reported]
  /\ seen' # seen
  /\ UNCHANGED <<cmds, amp>> /\ Outside

RcuFrame ==
  /\ seen' = [seen EXCEPT !.led = amp.led]
  /\ seen' # seen
  /\ UNCHANGED <<cmds, amp>> /\ Outside

(* The front panel, or another client's keycode at the moment it lands.    *)
Press ==
  /\ Strangers
  /\ amp' \in {[amp EXCEPT !.oper = ~@], [amp EXCEPT !.led = TRUE]}
  /\ UNCHANGED <<cmds, seen>> /\ Outside

-----------------------------------------------------------------------------

Init ==
  /\ task = [NewFrame("single") EXCEPT !.pc = "idle"]
  /\ stop = FALSE
  /\ out = <<>>
  /\ cmds = <<>>
  /\ amp \in [oper : BOOLEAN, led : {FALSE}]
  /\ seen = [op |-> "default", led |-> FALSE]
  /\ vfo \in [freq : {0}, mode : Modes]
  /\ tx = FALSE
  /\ held = FALSE
  /\ home = [mode |-> vfo.mode, oper |-> amp.oper, known |-> FALSE]
  /\ owed = FALSE
  /\ complained = FALSE
  /\ unsure = FALSE
  /\ tuned = {}

RadioStep ==
  \/ Connected \/ ConnectFailed \/ BandRead \/ BandNotRead
  \/ \E r \in RadioOutcomes :
       ModeSet(r) \/ FreqSet(r) \/ PowerSet(r) \/ CarrierOn(r) \/ CarrierOff(r)
  \/ \E f, m \in RadioOutcomes : Restored(f, m)
  \/ Released

AmpWait ==
  \/ StbySeen \/ StbyTimeout \/ StbyStopped
  \/ LedOnSeen \/ LedOnMissed \/ LedOffSeen \/ LedOffMissed
  \/ PauseOver \/ OperWaited

Complaint == ToSet(out') \cap {"FAIL", "ABORT"} # {}

Session == /\ RadioStep \/ AmpWait
           /\ complained' = (complained \/ Complaint)
Client == RefuseRequest \/ Stop \/ \E k \in Kinds : Request(k)
World == AmpObeys \/ AmpTuned \/ CsvFrame \/ RcuFrame \/ Press

Next == Session \/ Client \/ World

Spec == Init /\ [][Next]_vars

(* Every await is bounded by a timeout, so the coroutine always goes on;   *)
(* the port drains and the amplifier keeps reporting.                      *)
Fairness == /\ WF_vars(Session)
            /\ WF_vars(AmpObeys)
            /\ WF_vars(CsvFrame)
            /\ WF_vars(RcuFrame)

FairSpec == Spec /\ Fairness
-----------------------------------------------------------------------------

TypeOK ==
  /\ task \in Frame
  /\ stop \in BOOLEAN
  /\ out \in Seq(Phases)
  /\ cmds \in Seq(Keycodes)
  /\ amp \in Amp
  /\ seen \in [op : {"default", "Oper", "Stby"}, led : BOOLEAN]
  /\ vfo \in Vfo
  /\ tx \in BOOLEAN /\ held \in BOOLEAN
  /\ home \in [mode : Modes, oper : BOOLEAN, known : BOOLEAN]
  /\ owed \in BOOLEAN /\ complained \in BOOLEAN /\ unsure \in BOOLEAN
  /\ tuned \subseteq Freqs

(* The radio transmits only inside a cycle that will still switch it off,  *)
(* or after a carrier command whose outcome the server was not told.       *)
CarrierAccounted == tx => task.pc \in {"ledOff", "unkey"} \/ unsure

(* A stop that arrives before the carrier is asked for keeps it off.       *)
StopNeverKeys ==
  [][stop /\ task.pc # "key" => task'.pc # "key"]_vars

(* SWEEP_DONE: every centre of the band was tuned on its own frequency.    *)
SweepDoneIsComplete ==
  [][task' # task /\ "SWEEP_DONE" \in ToSet(out') => tuned = 1 .. N]_vars

(* VFO_RESTORED is only said of a radio that took back what was saved.     *)
RestoredIsTrue ==
  [][task' # task /\ "VFO_RESTORED" \in ToSet(out')
       => \A f \in task.snap : vfo'[f] = Found[f]]_vars

(* A session that complained of nothing leaves the rig as it found it: the *)
(* mode always, the frequency when the backend knew it.                    *)
RigAsFound ==
  ~Running /\ ~complained =>
    /\ vfo.mode = home.mode
    /\ "freq" \in task.snap => vfo.freq = 0

(* OPERATE is never kept silently: a session that took it and made no      *)
(* attempt to give it back has said FAIL or ABORT.                         *)
OperateNotKept == ~Running /\ owed => complained

(* An amplifier nobody else touches is left in OPERATE / STBY as it was    *)
(* found by every session that complained of nothing and that knew how it  *)
(* found it: op_status was the amplifier's, a first status frame and all   *)
(* earlier OPERATE keycodes being in.                                      *)
AmpAsFound == ~Running /\ ~complained /\ home.known => amp.oper = home.oper

(* On the same condition, the carrier is never on with an amplifier nobody *)
(* else touches in OPERATE, in any sub-band: the toggle is pressed when it *)
(* must be, and never once too often.                                      *)
KeyedInStby == home.known /\ task.pc \in {"key", "ledOff"} => ~amp.oper

(* Every session ends: no wait is unbounded, whatever fails.               *)
SessionEnds == Running ~> ~Running

(* The orchestrator keeps the promises of TuneSession.                     *)
Stage ==
  CASE task.pc \in Preparing -> "preparing"
    [] task.pc \in Ending -> "ending"
    [] task.pc = "key" -> "keying"
    [] task.pc = "ledOff" -> "keyed"
    [] task.pc = "unkey" -> "unkeying"
    [] task.pc = "idle" -> "idle"

Promise == INSTANCE TuneSession WITH stage <- Stage, halted <- stop
ImplementsSession == Promise!Spec

(* Documented (lines 24-25, 458-460): the carrier-off runs however a cycle *)
(* ends, so that the rig is never left transmitting.                       *)
NeverLeftInTx == ~Running => ~tx

(* Documented (lines 30-35): tune_single and tune_band drop the amplifier  *)
(* to STBY, verified via CSV op_status, and every cycle's preflight        *)
(* hard-checks STBY: the carrier is then never on in OPERATE, whatever the *)
(* session knew when it started.                                           *)
KeyedAlwaysInStby == task.pc \in {"key", "ledOff"} => ~amp.oper

(* Documented (lines 30-33, 232-235): OPERATE is handed back at the end    *)
(* iff it was on at the start, a stop included.                            *)
OperateHandedBack == ~Running => ~owed
=============================================================================
