---------------------------- MODULE AmpReadings ----------------------------
(***************************************************************************)
(* What the server makes of the frames it finds, over time: the peak-hold  *)
(* and average power it adds to a status frame (_consume_csv_frame of      *)
(* spe/serial_handler.py, parse_status of spe/protocol.py), and the        *)
(* presence heartbeat that tells clients whether the amplifier is up       *)
(* (last_state_age, last_rcu_age, presence_heartbeat_loop of server.py).   *)
(*                                                                         *)
(* Time passes in steps of a fraction of a second.  The amplifier sends    *)
(* status and display frames when it likes, or stops; status frames may    *)
(* arrive damaged.  The unit and the TUNE LED that are stamped on a state  *)
(* are left out (see Dashboard and TuneOrchestrator), as are its fields    *)
(* that are only passed on.                                                *)
(***************************************************************************)
EXTENDS Naturals

CONSTANTS
  MaxPower,   \* bound: the highest power the amplifier reports
  Hold,       \* _pout_peak_hold_s
  Decay,      \* _pout_peak_decay_w_per_s: what the peak falls in one step
  Threshold,  \* amp_alive_threshold
  Interval    \* presence_heartbeat

ASSUME PowerAssumption == MaxPower \in Nat
ASSUME MeterAssumption == Hold \in Nat /\ Decay \in Nat \ {0}
ASSUME PresenceAssumption == Threshold \in Nat \ {0} /\ Interval \in Nat \ {0}

Power == 0..MaxPower
Ops == {"Oper", "Stby"}
Txs == {"TX", "RX"}

(* Ages stop counting where nothing depends on them any more; an age that  *)
(* has always been there counts as that: infinite.                         *)
Ever == Threshold + Interval + MaxPower + Hold
Age == 0..Ever
Older(age) == IF age = Ever THEN Ever ELSE age + 1

VARIABLES
  key,      \* _pout_peak_key: the operating and TX state of the last frame
  power,    \* p_out of the last state
  peak,     \* _pout_peak
  avg,      \* _pout_avg
  held,     \* time since the peak was pinned (_pout_peak_at)
  csvAge,   \* last_state_age: also the time since _pout_peak_prev_tick
  rcuAge,   \* last_rcu_age
  beatIn,   \* time until the next presence heartbeat
  told,     \* what the last one said: "up", "down", or nothing yet
  (* history, since the amplifier entered key: *)
  top,      \* the highest power it reported
  topAge,   \* and when it last did
  low       \* the lowest power it reported

history == <<top, topAge, low>>
meter == <<key, power, peak, avg, held, csvAge, history>>
readings == <<meter, rcuAge, beatIn, told>>

None == <<>>

-----------------------------------------------------------------------------
(* A status frame arrives. *)

(* A power that is not a number counts as 0. *)
Fields == [op : {"O", "S", "?"}, tx : {"T", "R", "?"}, p : Power]

(* parse_status drops a frame whose operating or TX state is damaged.      *)
Parses(frame) == frame.op \in {"O", "S"} /\ frame.tx \in {"T", "R"}

KeyOf(frame) == <<IF frame.op = "O" THEN "Oper" ELSE "Stby",
                  IF frame.tx = "T" THEN "TX" ELSE "RX">>

AtLeast(p, q) == IF p < q THEN q ELSE p
AtMost(p, q) == IF p < q THEN p ELSE q
Less(p, q) == IF p < q THEN 0 ELSE p - q

(* Mutant of Pins: the peak outlives a change from RX to TX or back.       *)
PinsInAnyState(k, p) == key = None \/ p >= peak

(* The peak is pinned at p: a change of operating or TX state, or a high.  *)
Pins(k, p) == k # key \/ p >= peak

(* Mutant of Fallen: the time of the last frame is not kept up to date, so *)
(* every frame takes off the whole time since the peak was pinned.         *)
FallenSincePinned(p) == AtLeast(p, Less(peak, Decay * held))

(* After the hold it falls, by the time since the last frame.              *)
Fallen(p) == AtLeast(p, Less(peak, Decay * csvAge))

(* Mutant of Smoothed: the average goes on across a change of state.       *)
SmoothedAcross(k, p) ==
  IF key = None THEN {p} ELSE AtMost(avg, p)..AtLeast(avg, p)

(* The average moves towards p, by however much; it restarts at p when the *)
(* operating or TX state changes.                                          *)
Smoothed(k, p) ==
  IF k # key THEN {p} ELSE AtMost(avg, p)..AtLeast(avg, p)

Remember(k, p) ==
  /\ IF k # key \/ p >= top THEN top' = p /\ topAge' = 0
                            ELSE UNCHANGED <<top, topAge>>
  /\ low' = IF k # key THEN p ELSE AtMost(low, p)

StatusFrame(frame) ==
  LET k == KeyOf(frame)
      p == frame.p
  IN  /\ Parses(frame)
      /\ key' = k
      /\ power' = p
      /\ peak' = IF Pins(k, p) THEN p ELSE IF held > Hold THEN Fallen(p) ELSE peak
      /\ held' = IF Pins(k, p) THEN 0 ELSE held
      /\ avg' \in Smoothed(k, p)
      /\ csvAge' = 0
      /\ Remember(k, p)
      /\ UNCHANGED <<rcuAge, beatIn, told>>

DamagedFrame(frame) == ~Parses(frame) /\ UNCHANGED readings

(* A display frame, of whatever content, shows that the amplifier is up.   *)
DisplayFrame ==
  /\ rcuAge' = 0
  /\ UNCHANGED <<meter, beatIn, told>>

-----------------------------------------------------------------------------
(* presence_heartbeat_loop. *)

Silence == AtMost(csvAge, rcuAge)

(* Mutants of Alive: the amplifier was up once; display frames do not      *)
(* count.                                                                  *)
AliveOnceSeen == Silence < Ever
AliveByStatusOnly == csvAge < Threshold
Alive == Silence < Threshold

Heartbeat ==
  /\ beatIn = 0
  /\ told' = IF Alive THEN "up" ELSE "down"
  /\ beatIn' = Interval
  /\ UNCHANGED <<meter, rcuAge>>

(* Time passes, but not beyond a heartbeat that is due. *)
Tick ==
  /\ beatIn > 0
  /\ beatIn' = beatIn - 1
  /\ csvAge' = Older(csvAge) /\ rcuAge' = Older(rcuAge)
  /\ held' = Older(held) /\ topAge' = Older(topAge)
  /\ UNCHANGED <<key, power, peak, avg, told, top, low>>

ReadingsInit ==
  /\ key = None
  /\ power = 0 /\ peak = 0 /\ avg = 0 /\ held = Ever
  /\ csvAge = Ever /\ rcuAge = Ever
  /\ beatIn = Interval
  /\ told = "nothing"
  /\ top = 0 /\ topAge = Ever /\ low = 0

ReadingsNext ==
  \/ \E frame \in Fields : StatusFrame(frame) \/ DamagedFrame(frame)
  \/ DisplayFrame \/ Heartbeat \/ Tick

ReadingsSpec == ReadingsInit /\ [][ReadingsNext]_readings

-----------------------------------------------------------------------------

ReadingsTypeOK ==
  /\ key \in {None} \cup (Ops \X Txs)
  /\ power \in Power /\ peak \in Power /\ avg \in Power
  /\ top \in Power /\ low \in Power
  /\ held \in Age /\ csvAge \in Age /\ rcuAge \in Age /\ topAge \in Age
  /\ beatIn \in 0..Interval
  /\ told \in {"up", "down", "nothing"}

(* The peak tells the truth about the state the amplifier is in: it is at  *)
(* least the reading and no more than the highest reading since the state  *)
(* was entered, it shows that reading for the whole hold time, and at no   *)
(* frame has it fallen further than the rate allows for the time since.    *)
MeterIsTrue ==
  /\ power <= peak /\ peak <= top
  /\ topAge <= Hold => peak = top
  /\ topAge < Ever => peak >= Less(top, Decay * (topAge - csvAge))

(* The average lies within what was read since the amplifier entered its   *)
(* operating and TX state (serial_handler.py:635-638): a transmission is   *)
(* not dragged down by the idle before it, nor idle pulled up by the       *)
(* transmission.  A reading that is not a number is read as 0, and shows.  *)
AverageIsTrue == low <= avg /\ avg <= top

(* server.py:51-53: clients learn within interval + amp_alive_threshold    *)
(* that the amplifier went off; and they are not told so before it has     *)
(* been silent, in status and display frames both, for the threshold.      *)
PresenceIsTrue ==
  LET since == Interval - beatIn  \* the last heartbeat
  IN  /\ Silence >= Threshold + Interval => told # "up"
      /\ told = "down" => Silence <= since \/ Silence >= Threshold + since
=============================================================================
