---------------------------- MODULE SerialHandler ----------------------------
(***************************************************************************)
(* The serial link to the amplifier (spe/serial_handler.py): opening the   *)
(* port, losing it, opening it again, and what becomes of the keycodes     *)
(* that clients queue meanwhile.                                           *)
(*                                                                         *)
(* start() is a coroutine that opens the port, serves it with five tasks   *)
(* until one of them ends, tears it down, sleeps three seconds and goes    *)
(* round.  A reader thread owns the blocking reads; it talks to the event  *)
(* loop by posting callbacks.  What the bytes mean is FrameParser's.       *)
(*                                                                         *)
(* The adapter is external: it can be unplugged and plugged back, which    *)
(* leaves an open handle dead.                                             *)
(***************************************************************************)
EXTENDS Naturals, Sequences, SequencesExt

CONSTANTS
  HangupReads,  \* what reading a dead handle raises: "error", "glitch"
  MaxPresses    \* bound: commands the clients send

ASSUME HangupReadsAssumption == HangupReads \subseteq {"error", "glitch"}
ASSUME MaxPressesAssumption == MaxPresses \in Nat \ {0}

VARIABLES
  running,    \* _running
  main,       \* the start() coroutine
  port,       \* _port: none, open, or a handle that has been closed
  connected,  \* _connected
  queue,      \* _command_queue
  reader,     \* the reader thread of the latest port
  tick,       \* the heartbeat command the RCU task writes next
  adapter,    \* the USB adapter is plugged in, and the open handle is good
  rcu,        \* the amplifier streams its display
  pressed,    \* commands sent so far
  wire        \* the keycode written last

vars == <<running, main, port, connected, queue, reader, tick, adapter, rcu,
          pressed, wire>>

(* A queued command: the n-th sent, whether a port was open when it was    *)
(* sent, and (history) whether the link has been re-opened since.          *)
Command == [n : Nat, up : BOOLEAN, carried : BOOLEAN]

-----------------------------------------------------------------------------
(* Writing (_safe_write). *)

CanWrite == port = "open"
Reaches == CanWrite /\ adapter.good

(* The two heartbeat commands may also be dropped for back-pressure. *)
WritesRcu(on) == \/ UNCHANGED rcu
                 \/ Reaches /\ rcu' = on

(* A user command is written, or lost with the port. *)
Writes(command) == wire' = IF Reaches THEN command ELSE wire

-----------------------------------------------------------------------------
(* Clients (send_command): the queue takes what comes, port or no port. *)

(* Mutant of Press: the newest command goes out first.                     *)
PressFirst ==
  /\ pressed < MaxPresses
  /\ pressed' = pressed + 1
  /\ queue' = <<[n |-> pressed + 1, up |-> CanWrite, carried |-> FALSE]>> \o queue
  /\ UNCHANGED <<running, main, port, connected, reader, tick, adapter, rcu,
                 wire>>

Press ==
  /\ pressed < MaxPresses
  /\ pressed' = pressed + 1
  /\ queue' = Append(queue, [n |-> pressed + 1, up |-> CanWrite,
                             carried |-> FALSE])
  /\ UNCHANGED <<running, main, port, connected, reader, tick, adapter, rcu,
                 wire>>

-----------------------------------------------------------------------------
(* start(). *)

Carried(q) == [i \in DOMAIN q |-> [q[i] EXCEPT !.carried = TRUE]]

(* A read that waits at most 0.1 s is over when the three seconds are: the *)
(* last port's thread and what it posted are gone.                         *)
ReaderGone == reader \in {"none", "gone"}

OpenPort ==
  /\ main = "closed" /\ running /\ ReaderGone
  /\ adapter.plugged
  /\ main' = "serving"
  /\ port' = "open" /\ connected' = TRUE
  /\ adapter' = [adapter EXCEPT !.good = TRUE]
  /\ reader' = "reading"
  /\ tick' = "off"
  /\ queue' = IF reader = "gone" THEN Carried(queue) ELSE queue
  /\ rcu' \in {rcu, TRUE}
  /\ UNCHANGED <<running, pressed, wire>>

(* Mutant of Teardown: the queue outlives the port.                        *)
TeardownKeepsQueue == port' = "none" /\ connected' = FALSE /\ UNCHANGED queue

(* _teardown_port *)
Teardown == port' = "none" /\ connected' = FALSE /\ queue' = <<>>

OpenFails ==
  /\ main = "closed" /\ running /\ ReaderGone
  /\ ~adapter.plugged
  /\ Teardown
  /\ UNCHANGED <<running, main, reader, tick, adapter, rcu, pressed, wire>>

(* Mutant of ServingEnds: the watchdog only knows a port that was let go.  *)
ServingEndsAtNone ==
  /\ main = "serving"
  /\ port = "none" \/ ~running
  /\ main' = "closing"
  /\ UNCHANGED <<running, port, connected, queue, reader, tick, adapter, rcu,
                 pressed, wire>>

(* The watchdog has seen the port closed, or a loop that the handler is no *)
(* longer running: the other tasks are cancelled.  (start() would not go   *)
(* round after an exception of a task that is neither a SerialException    *)
(* nor an OSError.  No task raises one: they sleep, take from the queue,   *)
(* flush a display frame to a callback whose exceptions are caught, and    *)
(* write by _safe_write, which catches what the port raises.)              *)
ServingEnds ==
  /\ main = "serving"
  /\ ~CanWrite \/ ~running
  /\ main' = "closing"
  /\ UNCHANGED <<running, port, connected, queue, reader, tick, adapter, rcu,
                 pressed, wire>>

Closes ==
  /\ main = "closing"
  /\ Teardown
  /\ main' = IF running THEN "closed" ELSE "done"
  /\ UNCHANGED <<running, reader, tick, adapter, rcu, pressed, wire>>

(* stop() was called during the pause. *)
PauseOver ==
  /\ main = "closed" /\ ~running
  /\ main' = "done"
  /\ UNCHANGED <<running, port, connected, queue, reader, tick, adapter, rcu,
                 pressed, wire>>

(* The server cancels start() on its way out. *)
Cancel ==
  /\ main \in {"closed", "serving", "closing"}
  /\ ~running
  /\ Teardown
  /\ main' = "done"
  /\ UNCHANGED <<running, reader, tick, adapter, rcu, pressed, wire>>

(* Mutant of Stop: the port is left for start() to tear down.              *)
StopKeepsPort ==
  /\ running
  /\ running' = FALSE
  /\ WritesRcu(FALSE)
  /\ UNCHANGED <<main, port, connected, queue, reader, tick, adapter, pressed,
                 wire>>

Stop ==
  /\ running
  /\ running' = FALSE
  /\ WritesRcu(FALSE)
  /\ Teardown
  /\ UNCHANGED <<main, reader, tick, adapter, pressed, wire>>

-----------------------------------------------------------------------------
(* The tasks that write (_command_loop, _rcu_tick_loop).  The poll task    *)
(* writes a status request whenever the queue is empty, which changes      *)
(* nothing here.                                                           *)

WriteCommand ==
  /\ main = "serving"
  /\ queue # <<>>
  /\ queue' = Tail(queue)
  /\ Writes(Head(queue))
  /\ UNCHANGED <<running, main, port, connected, reader, tick, adapter, rcu,
                 pressed>>

RcuTick ==
  /\ main = "serving"
  /\ WritesRcu(tick = "on")
  /\ tick' = IF tick = "on" THEN "off" ELSE "on"
  /\ UNCHANGED <<running, main, port, connected, queue, reader, adapter,
                 pressed, wire>>

-----------------------------------------------------------------------------
(* The reader thread. *)

(* A read failed: _signal_disconnect is posted.  The "readiness to read    *)
(* but returned no data" error is taken for a glitch and the read retried. *)
ReaderFails ==
  /\ reader = "reading"
  /\ \/ CanWrite /\ ~adapter.good /\ "error" \in HangupReads
     \/ ~CanWrite
  /\ reader' = "failed"
  /\ UNCHANGED <<running, main, port, connected, queue, tick, adapter, rcu,
                 pressed, wire>>

(* The thread sees that its port has been torn down. *)
ReaderStops ==
  /\ reader = "reading"
  /\ port = "none"
  /\ reader' = "gone"
  /\ UNCHANGED <<running, main, port, connected, queue, tick, adapter, rcu,
                 pressed, wire>>

SignalDisconnect ==
  /\ reader = "failed"
  /\ reader' = "gone"
  /\ port' = IF CanWrite THEN "closed" ELSE port
  /\ UNCHANGED <<running, main, connected, queue, tick, adapter, rcu, pressed,
                 wire>>

-----------------------------------------------------------------------------
(* The adapter (external). *)

Unplug ==
  /\ adapter.plugged
  /\ adapter' = [plugged |-> FALSE, good |-> FALSE]
  /\ UNCHANGED <<running, main, port, connected, queue, reader, tick, rcu,
                 pressed, wire>>

Replug ==
  /\ ~adapter.plugged
  /\ adapter' = [adapter EXCEPT !.plugged = TRUE]
  /\ UNCHANGED <<running, main, port, connected, queue, reader, tick, rcu,
                 pressed, wire>>

-----------------------------------------------------------------------------

Init ==
  /\ running = TRUE
  /\ main = "closed"
  /\ port = "none" /\ connected = FALSE
  /\ queue = <<>>
  /\ reader = "none"
  /\ tick = "off"
  /\ adapter \in [plugged : BOOLEAN, good : {FALSE}]
  /\ rcu \in BOOLEAN
  /\ pressed = 0
  /\ wire = [n |-> 0, up |-> TRUE, carried |-> FALSE]

Start == OpenPort \/ OpenFails \/ ServingEnds \/ Closes \/ PauseOver
Reader == ReaderFails \/ ReaderStops \/ SignalDisconnect

Next == \/ Press \/ Start \/ Stop \/ Cancel
        \/ WriteCommand \/ RcuTick
        \/ Reader
        \/ Unplug \/ Replug

Spec == Init /\ [][Next]_vars

(* start() never waits for anything but time and its tasks, and a read has *)
(* a timeout.                                                              *)
FairSpec == Spec /\ WF_vars(Start) /\ WF_vars(Reader)

-----------------------------------------------------------------------------

TypeOK ==
  /\ running \in BOOLEAN
  /\ main \in {"closed", "serving", "closing", "done"}
  /\ port \in {"none", "open", "closed"}
  /\ connected \in BOOLEAN
  /\ queue \in Seq(Command)
  /\ reader \in {"none", "reading", "failed", "gone"}
  /\ tick \in {"on", "off"}
  /\ adapter \in [plugged : BOOLEAN, good : BOOLEAN]
  /\ rcu \in BOOLEAN
  /\ pressed \in Nat
  /\ wire \in Command

(* Keycodes reach the amplifier in the order they were sent, none twice,   *)
(* across any number of lost ports.                                        *)
PressesInOrder == [][wire' # wire => wire'.n > wire.n]_vars

(* A command queued for an open port is never written to a later one.      *)
PressDiesWithPort == \A i \in DOMAIN queue : ~(queue[i].up /\ queue[i].carried)

(* Once the handler is stopped, nothing is written any more: no task it    *)
(* left behind turns the amplifier's display stream back on.               *)
SilentAfterStop == [][~running => UNCHANGED <<rcu, wire>>]_vars

(* An adapter that is there for good is in use for good, unless stopped.   *)
LinkComesBack ==
  <>[](adapter.plugged /\ running) => <>[](connected /\ CanWrite /\ adapter.good)

(* Documented (serial_handler.py:344-345): presses queued while the port   *)
(* was down do not fire after the reconnect.                               *)
StalePressesDropped == ~wire.carried
=============================================================================
