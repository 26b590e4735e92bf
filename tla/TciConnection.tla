---------------------------- MODULE TciConnection ----------------------------
(***************************************************************************)
(* A connection to a SunSDR over TCI (spe/tci.py), as the radio controller *)
(* opens and closes it and as a tune session uses it.  TCI commands have   *)
(* no reply: a write that returns is all a caller ever learns.  A reader   *)
(* task keeps a cache of the dial and the mode from the radio's events.    *)
(*                                                                         *)
(* The session is reduced to its calls on the connection, in the order     *)
(* TuneOrchestrator makes them; any of them may raise.  set_tune_power is  *)
(* left out: it writes at most one command, which changes nothing here.    *)
(* The radio is external.                                                  *)
(***************************************************************************)
EXTENDS Naturals, Sequences, SequencesExt

CONSTANTS
  Channel,     \* tci.trx: the TRX of the radio that is to be driven
  MaxUnderWay  \* bound: commands and events under way when a sweep goes on

Trxs == {0, 1}
Freqs == {0, 1}             \* 0: where the dial was found; 1: to be tuned
Modes == {"CW", "other"}
Fields == {"freq", "mode"}
Value == [freq |-> Freqs, mode |-> Modes]

ASSUME ChannelAssumption == Channel \in Trxs
ASSUME UnderWayAssumption == MaxUnderWay \in Nat

VARIABLES
  ws,         \* _ws is set
  task,       \* the reader task
  ready,      \* _ready
  txChannel,  \* _tx_channel
  cache,      \* vfo_state[Channel]: for each field, its value if it is known
  (* the caller *)
  pc,         \* what it awaits, or does next
  sweep,      \* its session tunes several sub-bands
  snap,       \* the snapshot it took
  failed,     \* history: a call of it raised
  lit,        \* history: the TRXs that transmitted when it connected
  (* external *)
  link,       \* the socket: none yet, up, gone
  broke,      \* history: the radio hung up
  sent,       \* commands on their way to the radio
  inbound,    \* events on their way back
  rig,        \* the dial and the mode of Channel
  keyed       \* the TRXs that transmit the tune carrier

caller == <<pc, sweep, snap, failed, lit>>
world == <<link, broke, sent, inbound, rig, keyed>>
vars == <<ws, task, ready, txChannel, cache, caller, world>>

SetCommand == UNION {[op : {f}, to : Value[f]] : f \in Fields}
TuneCommand == [op : {"tune"}, trx : Trxs, on : BOOLEAN]
Event == SetCommand \cup [op : {"ready"}]

Setting == [freq : Freqs, mode : Modes]
AtMostOne(S) == {{}} \cup {{v} : v \in S}
Known == [freq : AtMostOne(Freqs), mode : AtMostOne(Modes)]
Unknown == [freq |-> {}, mode |-> {}]

-----------------------------------------------------------------------------
(* _send(): on a socket that is gone, the write raises or is lost.         *)

Written(command) ==
  /\ ws
  /\ sent' = IF link = "up" THEN Append(sent, command) ELSE sent
  /\ UNCHANGED failed

Raises ==
  /\ ~ws \/ link = "gone"
  /\ failed' = TRUE
  /\ UNCHANGED sent

-----------------------------------------------------------------------------
(* connect() *)

Connect ==
  /\ pc = "new"
  /\ ws' = TRUE /\ task' = "running" /\ ready' = FALSE
  /\ pc' = "opening"
  /\ link' = "up"
  /\ \E f, m \in BOOLEAN, r \in BOOLEAN :    \* the startup dump
       inbound' = (IF f THEN <<[op |-> "freq", to |-> rig.freq]>> ELSE <<>>)
                  \o (IF m THEN <<[op |-> "mode", to |-> rig.mode]>> ELSE <<>>)
                  \o (IF r THEN <<[op |-> "ready"]>> ELSE <<>>)
  /\ lit' = keyed
  /\ UNCHANGED <<txChannel, cache, sweep, snap, failed, broke, sent, rig,
                 keyed>>

(* `ready;' was seen, or three seconds are over.                           *)
Connected ==
  /\ pc = "opening"
  /\ pc' = "connected"
  /\ UNCHANGED <<ws, task, ready, txChannel, cache, sweep, snap, failed, lit,
                 world>>

-----------------------------------------------------------------------------
(* A tune session.                                                         *)

Call == UNCHANGED <<ws, task, ready, cache, lit, link, broke, inbound, rig, keyed>>

(* tune_single() or tune_band().  _set_tune_mode: the mode is only touched  *)
(* when it is known, and not CW.                                           *)
Session ==
  /\ pc = "connected"
  /\ sweep' \in BOOLEAN
  /\ snap' = cache
  /\ pc' = IF cache.mode \in {{}, {"CW"}} THEN "freq" ELSE "mode"
  /\ UNCHANGED <<txChannel, sent, failed>> /\ Call

SetMode ==
  /\ pc = "mode"
  /\ txChannel' = Channel
  /\ \/ Written([op |-> "mode", to |-> "CW"]) /\ pc' = "freq"
     \/ Raises /\ pc' = "restore"
  /\ UNCHANGED <<sweep, snap>> /\ Call

SetFrequency ==
  /\ pc = "freq"
  /\ txChannel' = Channel
  /\ \/ Written([op |-> "freq", to |-> 1]) /\ pc' = "on"
     \/ Raises /\ pc' = "restore"
  /\ UNCHANGED <<sweep, snap>> /\ Call

(* tune_single() without a frequency.                                      *)
CurrentFrequency ==
  /\ pc = "freq" /\ ~sweep
  /\ pc' = "on"
  /\ UNCHANGED <<txChannel, sweep, snap, sent, failed>> /\ Call

(* A cycle that ends before it keys: the preflight, the tune power or the  *)
(* wait for the LED fails, or a stop comes.                                *)
GivesUp ==
  /\ pc \in {"freq", "on"}
  /\ pc' = "restore"
  /\ UNCHANGED <<txChannel, sweep, snap, sent, failed>> /\ Call

(* tune_carrier(on) *)
TuneOn ==
  /\ pc = "on"
  /\ \/ Written([op |-> "tune", trx |-> txChannel, on |-> TRUE]) /\ pc' = "keyed"
     \/ Raises /\ pc' = "restore"
  /\ UNCHANGED <<txChannel, sweep, snap>> /\ Call

(* Mutant of TuneOff: the carrier is taken off the configured TRX.         *)
TuneOffConfigured ==
  /\ pc = "keyed"
  /\ pc' = IF sweep THEN "pause" ELSE "restore"
  /\ Written([op |-> "tune", trx |-> Channel, on |-> FALSE]) \/ Raises
  /\ UNCHANGED <<txChannel, sweep, snap>> /\ Call

(* tune_carrier(off): a cycle that was tuned stays one when this raises.   *)
TuneOff ==
  /\ pc = "keyed"
  /\ pc' = IF sweep THEN "pause" ELSE "restore"
  /\ Written([op |-> "tune", trx |-> txChannel, on |-> FALSE]) \/ Raises
  /\ UNCHANGED <<txChannel, sweep, snap>> /\ Call

(* After a sub-band: the next one, or the sweep is over.                   *)
NextSubBand ==
  /\ pc = "pause"
  /\ \/ Len(sent) + Len(inbound) <= MaxUnderWay /\ pc' = "freq"
     \/ pc' = "restore"
  /\ UNCHANGED <<txChannel, sweep, snap, sent, failed>> /\ Call

(* restore(): the frequency, then the mode, up to the first that raises.   *)
RestoreFreq ==
  /\ pc = "restore"
  /\ \/ /\ snap.freq = {}
        /\ pc' = "restoreMode"
        /\ UNCHANGED <<txChannel, sent, failed>>
     \/ /\ txChannel' = Channel
        /\ \/ /\ \E f \in snap.freq : Written([op |-> "freq", to |-> f])
              /\ pc' = "restoreMode"
           \/ snap.freq # {} /\ Raises /\ pc' = "done"
  /\ UNCHANGED <<sweep, snap>> /\ Call

RestoreMode ==
  /\ pc = "restoreMode"
  /\ pc' = "done"
  /\ \/ snap.mode = {} /\ UNCHANGED <<sent, failed>>
     \/ \E m \in snap.mode : Written([op |-> "mode", to |-> m])
     \/ snap.mode # {} /\ Raises
  /\ UNCHANGED <<txChannel, sweep, snap>> /\ Call

-----------------------------------------------------------------------------
(* close(): by a session when it is done, or by a client in between.       *)

CloseBegins ==
  /\ pc \in {"connected", "done"}
  /\ pc' = IF ws THEN "closingSocket" ELSE "closing"
  /\ UNCHANGED <<ws, task, ready, txChannel, cache, sweep, snap, failed, lit,
                 world>>

Closing == pc \in {"closing", "closingSocket"}

(* Mutant of CloseEnds: the socket is asked for after the task has ended.  *)
CloseEndsLate ==
  /\ Closing /\ task = "ended"
  /\ link' = IF ws THEN "gone" ELSE link
  /\ ws' = FALSE /\ ready' = FALSE
  /\ pc' = "closed"
  /\ UNCHANGED <<task, txChannel, cache, sweep, snap, failed, lit, broke,
                 sent, inbound, rig, keyed>>

CloseEnds ==
  /\ Closing /\ task = "ended"
  /\ link' = IF pc = "closingSocket" THEN "gone" ELSE link
  /\ ws' = FALSE /\ ready' = FALSE
  /\ pc' = "closed"
  /\ UNCHANGED <<task, txChannel, cache, sweep, snap, failed, lit, broke,
                 sent, inbound, rig, keyed>>

(* The controller drops the object and builds a new one for the next       *)
(* connect.                                                                *)
Rebuilt ==
  /\ pc = "closed" /\ sent = <<>>
  /\ pc' = "new"
  /\ task' = "none" /\ txChannel' = 0 /\ cache' = Unknown
  /\ sweep' = FALSE /\ snap' = Unknown /\ failed' = FALSE
  /\ link' = "none" /\ broke' = FALSE /\ inbound' = <<>>
  /\ UNCHANGED <<ws, ready, lit, sent, rig, keyed>>

-----------------------------------------------------------------------------
(* The reader task. *)

Dispatch ==
  /\ task = "running" /\ ~Closing
  /\ inbound # <<>> /\ inbound' = Tail(inbound)
  /\ LET e == Head(inbound)
     IN  IF e.op = "ready" THEN ready' = TRUE /\ UNCHANGED cache
         ELSE cache' = [cache EXCEPT ![e.op] = {e.to}] /\ UNCHANGED ready
  /\ UNCHANGED <<ws, task, txChannel, caller, link, broke, sent, rig, keyed>>

(* Mutant of ReadLoopEnds: the socket stays set.                           *)
ReadLoopLeaves ==
  /\ task = "running"
  /\ (link = "gone" /\ inbound = <<>>) \/ Closing
  /\ task' = "ended"
  /\ UNCHANGED <<ws, ready, txChannel, cache, caller, world>>

(* At the end of the stream, or cancelled.                                 *)
ReadLoopEnds ==
  /\ task = "running"
  /\ (link = "gone" /\ inbound = <<>>) \/ Closing
  /\ task' = "ended"
  /\ ws' = FALSE /\ ready' = FALSE
  /\ UNCHANGED <<txChannel, cache, caller, world>>

-----------------------------------------------------------------------------
(* The radio.  It echoes what was set while the socket is up.              *)

RadioExecutes ==
  /\ sent # <<>>
  /\ sent' = Tail(sent)
  /\ LET c == Head(sent)
     IN  IF c.op = "tune"
         THEN /\ keyed' = IF c.on THEN keyed \cup {c.trx} ELSE keyed \ {c.trx}
              /\ UNCHANGED <<rig, inbound>>
         ELSE /\ rig' = [rig EXCEPT ![c.op] = c.to]
              /\ inbound' = IF link = "up" THEN Append(inbound, c) ELSE inbound
              /\ UNCHANGED keyed
  /\ UNCHANGED <<ws, task, ready, txChannel, cache, caller, link, broke>>

RadioHangsUp ==
  /\ link = "up"
  /\ link' = "gone" /\ broke' = TRUE
  /\ \E n \in 0 .. Len(sent) : sent' = SubSeq(sent, 1, n)
  /\ UNCHANGED <<ws, task, ready, txChannel, cache, caller, inbound, rig, keyed>>

Init ==
  /\ ws = FALSE /\ task = "none" /\ ready = FALSE
  /\ txChannel = 0 /\ cache = Unknown
  /\ pc = "new" /\ sweep = FALSE /\ snap = Unknown /\ failed = FALSE /\ lit = {}
  /\ link = "none" /\ broke = FALSE
  /\ sent = <<>> /\ inbound = <<>>
  /\ rig \in [freq : {0}, mode : Modes] /\ keyed = {}

Caller ==
  \/ Connect \/ Connected
  \/ Session \/ SetMode \/ SetFrequency \/ CurrentFrequency \/ GivesUp
  \/ TuneOn \/ TuneOff \/ NextSubBand
  \/ RestoreFreq \/ RestoreMode
  \/ CloseBegins \/ CloseEnds \/ Rebuilt
Reader == Dispatch \/ ReadLoopEnds

Next == Caller \/ Reader \/ RadioExecutes \/ RadioHangsUp

Spec == Init /\ [][Next]_vars

(* The event loop runs the reader when there is something to read.         *)
FairSpec == Spec /\ WF_vars(Reader)

-----------------------------------------------------------------------------

TypeOK ==
  /\ ws \in BOOLEAN /\ ready \in BOOLEAN
  /\ task \in {"none", "running", "ended"}
  /\ txChannel \in Trxs
  /\ cache \in Known /\ snap \in Known
  /\ pc \in {"new", "opening", "connected", "mode", "freq", "on", "keyed",
             "pause", "restore", "restoreMode", "done", "closing", "closingSocket",
             "closed"}
  /\ sweep \in BOOLEAN /\ failed \in BOOLEAN /\ broke \in BOOLEAN
  /\ link \in {"none", "up", "gone"}
  /\ sent \in Seq(SetCommand \cup TuneCommand) /\ inbound \in Seq(Event)
  /\ rig \in Setting
  /\ keyed \subseteq Trxs /\ lit \subseteq Trxs

(* A session none of whose calls raised, on a socket that held, puts the   *)
(* radio back: no TRX is left transmitting, and what the cache knew of the *)
(* dial and the mode is what they are again.                               *)
RigPutBack ==
  pc = "closed" /\ ~failed /\ ~broke /\ sent = <<>> =>
    keyed \subseteq lit /\ \A f \in Fields : snap[f] \subseteq {rig[f]}

(* close() never leaves a socket open behind it.                           *)
NothingLeaks == pc = "closed" => link # "up"

(* A radio that hung up is noticed: the controller does not go on handing  *)
(* out a connection that is dead.                                          *)
HangUpNoticed == link = "gone" ~> ~ws

(* Documented (tci.py:62-64, 225-226): the TRX that is keyed is the one    *)
(* the orchestrator drives.                                                *)
KeysItsTrx == keyed \subseteq {Channel}
=============================================================================
