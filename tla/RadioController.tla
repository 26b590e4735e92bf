--------------------------- MODULE RadioController ---------------------------
(***************************************************************************)
(* The radio connection that every client and the tune orchestrator share  *)
(* (spe/radio_controller.py), with the guards the WebSocket handler puts   *)
(* in front of it (spe/websocket_handler.py).                              *)
(*                                                                         *)
(* A client's message is handled at once by on_message, which only spawns  *)
(* a callback for anything that has to await: `ready' is that queue, in    *)
(* the event loop's order.  A callback runs up to the controller's lock,   *)
(* an asyncio.Lock, which is granted in order of arrival.  The tune cycle  *)
(* is reduced to how it uses the controller: connect, work, disconnect.    *)
(*                                                                         *)
(* On a signal the server (server.py) stops its loop and runs it again     *)
(* until one last disconnect is through: callbacks, cycles and clients go  *)
(* on meanwhile.                                                           *)
(***************************************************************************)
EXTENDS Naturals, Sequences, SequencesExt

CONSTANTS
  Settings,     \* what a backend's section of the configuration may say
  Changes,      \* the set_radio_config payloads clients send
  Shipped,      \* the configurations config.yaml may start out with
  SaveMayFail,  \* config.yaml may turn out not to be writable
  MaxCalls      \* bound: calls under way when a client sends another

RadioKinds == {"none", "flex", "tci"}
Config == [kind : RadioKinds, flex : Settings, tci : Settings]

(* A payload leaves out what it does not change: a section holds the       *)
(* values sent, at most one here, and kind the kinds.                      *)
Change == [kind : {{}} \cup {{k} : k \in RadioKinds},
           flex : {{}} \cup {{v} : v \in Settings},
           tci  : {{}} \cup {{v} : v \in Settings}]

ASSUME SettingsAssumption == Settings # {}
ASSUME ChangesAssumption == Changes \subseteq Change
ASSUME ShippedAssumption == Shipped \subseteq Config
ASSUME SaveAssumption == SaveMayFail \in BOOLEAN
ASSUME MaxCallsAssumption == MaxCalls \in Nat \ {0}

VARIABLES
  ready,    \* spawned callbacks that have not run yet, oldest first
  holder,   \* the call that holds the controller's lock, at most one
  waiters,  \* calls waiting for it, in order of arrival
  conn,     \* the controller's connection, at most one: its config and health
  live,     \* the configuration in effect
  file,     \* the configuration config.yaml would give the next start
  unsaved,  \* the clients were told that the last change was not saved
  tune,     \* the tune cycle
  robbed,   \* history: a controller call closed the running cycle's connection
  server    \* the server: up, waiting for its last disconnect, or gone

vars == <<ready, holder, waiters, conn, live, file, unsaved, tune, robbed, server>>

Call == [op : {"connect", "disconnect", "tune", "tuneConnect", "tuneRelease",
               "lastDisconnect"}]
        \cup [op : {"change"}, change : Changes]
        \cup [op : {"dialling", "tuneDialling"}, cfg : Config]
        \cup [op : {"reconfigure"}, new : Config, change : Changes]

Connection == [cfg : Config, live : BOOLEAN]

Running == tune # "idle"   \* the orchestrator's is_running
LoopRuns == server # "gone"

-----------------------------------------------------------------------------
(* What a set_radio_config makes of a configuration it read.               *)

Sent(sent, current) == IF sent = {} THEN current ELSE CHOOSE v \in sent : TRUE

(* Mutant of Applied: no default for a kind that was not sent.             *)
AppliedNoDefault(c, change) == [kind |-> Sent(change.kind, "unset"),
                                flex |-> Sent(change.flex, c.flex),
                                tci  |-> Sent(change.tci, c.tci)]

Applied(c, change) == [kind |-> Sent(change.kind, c.kind),
                       flex |-> Sent(change.flex, c.flex),
                       tci  |-> Sent(change.tci, c.tci)]

(* Mutant of Saved: the kind is written only when it was sent.             *)
SavedKindIfSent(f, new, change) == Applied(f, change)

(* persist_values writes the kind, sent or not, and the fields sent.       *)
Saved(f, new, change) == [kind |-> new.kind,
                          flex |-> Sent(change.flex, f.flex),
                          tci  |-> Sent(change.tci, f.tci)]

(* Behind reconfigure() the handler goes on without awaiting: the file is  *)
(* rewritten, or the clients are told it could not be.                     *)
TakesEffect(new, change) ==
  /\ live' = new
  /\ \/ file' = Saved(file, new, change) /\ unsaved' = FALSE
     \/ SaveMayFail /\ UNCHANGED file /\ unsaved' = TRUE

-----------------------------------------------------------------------------
(* The lock. *)

Acquire(call) ==
  IF holder = {} THEN holder' = {call} /\ UNCHANGED waiters
                 ELSE waiters' = Append(waiters, call) /\ UNCHANGED holder

Holds(op) == LoopRuns /\ \E c \in holder : c.op = op
Held == CHOOSE c \in holder : TRUE

(* Mutant of ReleaseThen: the lock goes to the last waiter.                *)
ReleaseToLast(calls) ==
  LET queue == waiters \o calls
  IN  IF queue = <<>> THEN holder' = {} /\ waiters' = <<>>
      ELSE holder' = {Last(queue)} /\ waiters' = Front(queue)

(* Releasing hands the lock to the first waiter.  A call may then go on to *)
(* ask for it again.                                                       *)
ReleaseThen(calls) ==
  LET queue == waiters \o calls
  IN  IF queue = <<>> THEN holder' = {} /\ waiters' = <<>>
      ELSE holder' = {Head(queue)} /\ waiters' = Tail(queue)
Release == ReleaseThen(<<>>)

-----------------------------------------------------------------------------
(* The event loop. *)

Pending == Len(ready) + Len(waiters) + (IF holder = {} THEN 0 ELSE 1)

Spawn(call) == /\ LoopRuns /\ Pending < MaxCalls
               /\ ready' = Append(ready, call)
               /\ UNCHANGED <<holder, waiters, conn, live, file, unsaved, tune,
                              robbed, server>>

(* on_message: radio_connect, set_radio_config and tune_single / tune_band *)
(* are spawned as they come; radio_disconnect is refused while a cycle is  *)
(* running, as seen when the message arrives.                              *)
OnRadioConnect == Spawn([op |-> "connect"])
OnRadioDisconnect == ~Running /\ Spawn([op |-> "disconnect"])
OnSetRadioConfig == \E c \in Changes : Spawn([op |-> "change", change |-> c])
OnTune == Spawn([op |-> "tune"])

IsConnected == \E c \in conn : c.live

(* A spawned callback runs, up to the lock; with the lock free, and nothing *)
(* to close or to dial, to its end.  (The cycle's and the shutdown's calls  *)
(* are cut at the lock even then.)                                          *)
Runs(op) == LoopRuns /\ ready # <<>> /\ Head(ready).op = op /\ ready' = Tail(ready)

NothingToDial == IsConnected \/ live.kind = "none"
NothingToClose == conn = {}

RunCall ==
  /\ \/ /\ holder = {}
        /\ (Runs("connect") /\ NothingToDial) \/ (Runs("disconnect") /\ NothingToClose)
        /\ UNCHANGED <<holder, waiters>>
     \/ /\ \/ Runs("connect") /\ ~(holder = {} /\ NothingToDial)
           \/ Runs("disconnect") /\ ~(holder = {} /\ NothingToClose)
           \/ Runs("lastDisconnect")
        /\ Acquire(Head(ready))
  /\ UNCHANGED <<conn, live, file, unsaved, tune, robbed, server>>

(* Mutants of RunChange: a running cycle does not stop it; the swap does   *)
(* not wait for the lock.                                                  *)
RunChangeAnytime ==
  /\ Runs("change")
  /\ LET change == Head(ready).change
     IN  Acquire([op |-> "reconfigure", new |-> Applied(live, change),
                  change |-> change])
  /\ UNCHANGED <<conn, live, file, unsaved, tune, robbed, server>>
RunChangeUnlocked ==
  /\ Runs("change")
  /\ ~Running
  /\ conn' = {}
  /\ live' = Applied(live, Head(ready).change)
  /\ file' = Saved(file, live', Head(ready).change)
  /\ UNCHANGED <<holder, waiters, unsaved, tune, robbed, server>>

(* The new configuration is built from the one in effect now, before the   *)
(* lock is awaited.                                                        *)
RunChange ==
  /\ Runs("change")
  /\ ~Running
  /\ LET change == Head(ready).change
         new == Applied(live, change)
     IN  \/ /\ holder = {} /\ NothingToClose
            /\ TakesEffect(new, change)
            /\ UNCHANGED <<holder, waiters>>
         \/ /\ ~(holder = {} /\ NothingToClose)
            /\ Acquire([op |-> "reconfigure", new |-> new, change |-> change])
            /\ UNCHANGED <<live, file, unsaved>>
  /\ UNCHANGED <<conn, tune, robbed, server>>

(* Refused: a cycle is running, or the payload is not valid. *)
RefuseChange ==
  /\ Runs("change")
  /\ UNCHANGED <<holder, waiters, conn, live, file, unsaved, tune, robbed, server>>

RunTune ==
  /\ Runs("tune")
  /\ ~Running
  /\ tune' = "connect"
  /\ robbed' = FALSE
  /\ Acquire([op |-> "tuneConnect"])
  /\ UNCHANGED <<conn, live, file, unsaved, server>>

RefuseTune ==
  /\ Runs("tune")
  /\ Running
  /\ UNCHANGED <<holder, waiters, conn, live, file, unsaved, tune, robbed, server>>

-----------------------------------------------------------------------------
(* Under the lock. *)

(* connect(): a live connection is kept; otherwise, one for the            *)
(* configuration in effect is built, and awaited with the lock held.       *)
Dial(op) ==
  /\ ~IsConnected /\ live.kind # "none"
  /\ holder' = {[op |-> op, cfg |-> live]}
  /\ UNCHANGED <<ready, waiters, conn, live, file, unsaved, tune, robbed, server>>

Dials == (Holds("connect") /\ Dial("dialling"))
         \/ (Holds("tuneConnect") /\ Dial("tuneDialling"))

Answered == conn' = {[cfg |-> Held.cfg, live |-> TRUE]}

(* radio_connect.  Failures are reported, not raised. *)
Connect ==
  /\ \/ Holds("connect") /\ NothingToDial /\ UNCHANGED conn
     \/ Holds("dialling") /\ (Answered \/ UNCHANGED conn)
  /\ Release
  /\ UNCHANGED <<ready, live, file, unsaved, tune, robbed, server>>

TuneConnects ==
  /\ \/ Holds("tuneConnect") /\ IsConnected /\ UNCHANGED conn
     \/ Holds("tuneDialling") /\ Answered
  /\ tune' = "using"
  /\ Release
  /\ UNCHANGED <<ready, live, file, unsaved, robbed, server>>

(* "Radio not reachable": the cycle goes straight to its release.          *)
TuneCannotConnect ==
  /\ \/ Holds("tuneConnect") /\ ~IsConnected /\ live.kind = "none"
     \/ Holds("tuneDialling")
  /\ tune' = "release"
  /\ ReleaseThen(<<[op |-> "tuneRelease"]>>)
  /\ UNCHANGED <<ready, conn, live, file, unsaved, robbed, server>>

(* _close_locked *)
Close == conn' = {} /\ robbed' = (robbed \/ (tune = "using" /\ IsConnected))

Disconnect ==
  /\ Holds("disconnect")
  /\ Close
  /\ Release
  /\ UNCHANGED <<ready, live, file, unsaved, tune, server>>

(* Shutdown's own.  Once it is through the loop runs only for the serial   *)
(* handler's stop() (server.py:236), which nothing here has a part in.     *)
LastDisconnect ==
  /\ Holds("lastDisconnect")
  /\ conn' = {}
  /\ Release
  /\ server' = "gone"
  /\ UNCHANGED <<ready, live, file, unsaved, tune, robbed>>

TuneReleases ==
  /\ Holds("tuneRelease")
  /\ Close
  /\ Release
  /\ tune' = "idle"
  /\ UNCHANGED <<ready, live, file, unsaved, server>>

(* reconfigure() *)
Reconfigure ==
  /\ Holds("reconfigure")
  /\ Close
  /\ TakesEffect(Held.new, Held.change)
  /\ Release
  /\ UNCHANGED <<ready, tune, server>>

-----------------------------------------------------------------------------

(* The cycle is over, however it went. *)
TuneEnds ==
  /\ LoopRuns /\ tune = "using"
  /\ tune' = "release"
  /\ Acquire([op |-> "tuneRelease"])
  /\ UNCHANGED <<ready, conn, live, file, unsaved, robbed, server>>

(* The radio goes away.  A TCI backend notices; a Flex one calls itself    *)
(* connected until it is closed.                                           *)
RadioDrops ==
  /\ LoopRuns /\ \E c \in conn : c.live /\ c.cfg.kind = "tci"
  /\ conn' = {[c EXCEPT !.live = FALSE] : c \in conn}
  /\ UNCHANGED <<ready, holder, waiters, live, file, unsaved, tune, robbed, server>>

(* A signal.  What the loop was running is not cancelled. *)
Shutdown ==
  /\ server = "up"
  /\ server' = "leaving"
  /\ ready' = Append(ready, [op |-> "lastDisconnect"])
  /\ UNCHANGED <<holder, waiters, conn, live, file, unsaved, tune, robbed>>

Gone == server = "gone" /\ UNCHANGED vars

Init ==
  /\ ready = <<>>
  /\ holder = {}
  /\ waiters = <<>>
  /\ conn = {}
  /\ live \in Shipped
  /\ file = live
  /\ unsaved = FALSE
  /\ tune = "idle"
  /\ robbed = FALSE
  /\ server = "up"

Messages == OnRadioConnect \/ OnRadioDisconnect \/ OnSetRadioConfig \/ OnTune
Callbacks == RunCall \/ RunChange \/ RefuseChange \/ RunTune \/ RefuseTune
Locked == Dials \/ Connect \/ TuneConnects \/ TuneCannotConnect \/ Disconnect
          \/ LastDisconnect \/ TuneReleases \/ Reconfigure

Next == Messages \/ Callbacks \/ Locked \/ TuneEnds \/ RadioDrops
        \/ Shutdown \/ Gone

Spec == Init /\ [][Next]_vars

(* The event loop runs what is spawned, every call under the lock ends     *)
(* (connecting has a timeout), and so does every cycle (TuneOrchestrator). *)
FairSpec == Spec /\ WF_vars(Callbacks) /\ WF_vars(Locked) /\ WF_vars(TuneEnds)

-----------------------------------------------------------------------------

TypeOK ==
  /\ ready \in Seq(Call)
  /\ waiters \in Seq(Call)
  /\ holder \subseteq Call
  /\ conn \subseteq Connection
  /\ live \in Config /\ file \in Config /\ unsaved \in BOOLEAN
  /\ tune \in {"idle", "connect", "using", "release"}
  /\ robbed \in BOOLEAN
  /\ server \in {"up", "leaving", "gone"}

(* The open connection is always one to the radio of the configuration in  *)
(* effect: no interleaving of connects and changes leaves the old one.     *)
ConnMatchesConfig == \A c \in conn : c.cfg = live

(* The radio is never swapped under a running cycle: once the cycle has    *)
(* its connection, no change of configuration takes effect until it ends.  *)
ConfigKeptDuringTune == [][tune = "using" => live' = live]_vars

(* The kind of radio in effect is the one the next start will use, unless  *)
(* the clients were told otherwise.                                        *)
KindIsSaved == unsaved \/ file.kind = live.kind

(* Every call that a client makes gets the lock, and every cycle ends,     *)
(* unless the server does.                                                 *)
CyclesEnd == Running ~> (~Running \/ server = "gone")

(* A signal ends the server: the disconnect that main waits for (server.py *)
(* 224-228) gets the lock from whatever cycle, connect or change holds it  *)
(* and from the clients that go on asking for it.                          *)
ShutdownEnds == server = "leaving" ~> server = "gone"

(* Documented (websocket_handler.py:264-267, 324-326): a client's change   *)
(* is applied live and persisted, and no client believes that a change     *)
(* stuck which the next restart will silently revert.                      *)
ChangesAreSaved == unsaved \/ file = live

(* Documented (websocket_handler.py:133-136): the radio is not dropped     *)
(* mid-tune.                                                               *)
RadioKeptDuringTune == ~robbed
=============================================================================
