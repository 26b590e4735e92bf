----------------------------- MODULE Dashboard -----------------------------
(***************************************************************************)
(* What the server tells the pages that show it: the client set and the    *)
(* broadcasts of spe/websocket_handler.py, the unit change of              *)
(* spe/serial_handler.py, and the sweep panel of web/app.js, which follows *)
(* a tune session by the phases that it hears.                             *)
(*                                                                         *)
(* A page that loses its connection reconnects and goes on with the panel  *)
(* it had; the server has a handler object per connection, and may keep a  *)
(* dead one until it writes to it or is told.  The session is reduced to   *)
(* the phases the panel tells apart (see TuneOrchestrator): those that     *)
(* start a sweep or a cycle, and those that end one.                       *)
(***************************************************************************)
EXTENDS Naturals, Sequences, SequencesExt, FiniteSets

CONSTANTS
  Pages,     \* the browser pages
  Readings,  \* what the amplifier may report
  MaxInbox   \* bound: messages on their way to a page

ASSUME ReadingsAssumption == Readings # {}
ASSUME MaxInboxAssumption == MaxInbox \in Nat \ {0}

Units == {"C", "F"}
States == [reading : Readings, unit : Units]   \* AmplifierState
Starting == {"STARTED", "SWEEP_STARTED"}

(* Mutant of Terminal: a stopped sweep is not over. *)
TerminalButAbort == {"SUCCESS", "FAIL", "SWEEP_DONE"}

(* setSweepUI *)
Terminal == {"SUCCESS", "FAIL", "ABORT", "SWEEP_DONE"}

VARIABLES
  state,     \* the serial handler's _state
  lastJson,  \* _last_json: the state broadcast last, at most one
  clients,   \* the connections the server knows, some of them dead
  inbox,     \* messages on their way to each page
  shown,     \* the state each page shows, at most one
  sweeping,  \* isSweeping: the pages that offer Stop and not Start
  asked,     \* pages whose tune_band is on its way
  stage,     \* how far the tune session is
  hearing,   \* history: pages that hear of the current cycle: connected since
             \* its STARTED, and no request was refused meanwhile
  stale      \* history: pages whose panel is from a connection they have lost

server == <<state, lastJson, clients>>
panels == <<sweeping, asked, stale>>
vars == <<server, inbox, shown, panels, stage, hearing>>

Connection(p) == [page |-> p, open |-> TRUE]
Dead(p) == [page |-> p, open |-> FALSE]
Connected(p) == Connection(p) \in clients

-----------------------------------------------------------------------------
(* Broadcasts.  A message has a state or a phase. *)

OfState(s) == [states |-> {s}, phases |-> {}]
OfPhase(phase) == [states |-> {}, phases |-> {phase}]

Deliver(messages) ==
  /\ \A p \in Pages : Connected(p) => Len(inbox[p]) + Len(messages) <= MaxInbox
  /\ inbox' = [p \in Pages |-> IF Connected(p) THEN inbox[p] \o messages
                               ELSE inbox[p]]

(* Writing to a dead connection may tell the server that it is dead. *)
DropDead == \E dead \in SUBSET {c \in clients : ~c.open} : clients' = clients \ dead

Broadcast(messages) == Deliver(messages) /\ DropDead

(* Mutant of SameJson: the unit is not looked at. *)
SameJsonButUnit(s) == \E last \in lastJson : last.reading = s.reading
SameJson(s) == s \in lastJson

(* broadcast_state: a state that has not changed is only sent when the     *)
(* last one is more than heartbeat old, by a wall clock that may be set.   *)
BroadcastState(s) ==
  \/ SameJson(s) /\ UNCHANGED <<lastJson, clients, inbox>>
  \/ lastJson' = {s} /\ Broadcast(<<OfState(s)>>)

(* A status frame, which gets the unit in effect. *)
StatusFrame(reading) ==
  /\ state' = [state EXCEPT !.reading = reading]
  /\ BroadcastState(state')
  /\ UNCHANGED <<shown, panels, stage, hearing>>

(* set_temperature_unit sends the last state again, in the new unit. *)
SetUnit(unit) ==
  /\ unit # state.unit
  /\ state' = [state EXCEPT !.unit = unit]
  /\ BroadcastState(state')
  /\ UNCHANGED <<shown, panels, stage, hearing>>

-----------------------------------------------------------------------------
(* Connections. *)

(* open: the new client gets the state there is. *)
Open(p) ==
  /\ ~Connected(p)
  /\ clients' = clients \cup {Connection(p)}
  /\ inbox' = [inbox EXCEPT ![p] = <<OfState(state)>>]
  /\ UNCHANGED <<state, lastJson, shown, panels, stage, hearing>>

(* The page is told (onclose), and leaves its panel as it is.  What was on *)
(* its way, in either direction, is lost.                                  *)
Lose(p) ==
  /\ Connected(p)
  /\ clients' = (clients \ {Connection(p)}) \cup {Dead(p)}
  /\ inbox' = [inbox EXCEPT ![p] = <<>>]
  /\ asked' = asked \ {p}
  /\ stale' = IF p \in sweeping THEN stale \cup {p} ELSE stale
  /\ hearing' = hearing \ {p}
  /\ UNCHANGED <<state, lastJson, shown, sweeping, stage>>

OnClose ==
  \E c \in clients :
    /\ ~c.open
    /\ clients' = clients \ {c}
    /\ UNCHANGED <<state, lastJson, inbox, shown, panels, stage, hearing>>

-----------------------------------------------------------------------------
(* The page. *)

Message(p) == Head(inbox[p])
Takes(p) == Connected(p) /\ inbox[p] # <<>> /\ inbox' = [inbox EXCEPT ![p] = Tail(@)]

ShowState(p) ==
  /\ Takes(p) /\ Message(p).states # {}
  /\ shown' = [shown EXCEPT ![p] = Message(p).states]
  /\ UNCHANGED <<server, panels, stage, hearing>>

(* Mutant of PanelAfter: only the start of the sweep locks the panel. *)
PanelAfterStart(p, phase) ==
  IF phase = "SWEEP_STARTED" THEN sweeping \cup {p}
  ELSE IF phase \in Terminal THEN sweeping \ {p} ELSE sweeping

PanelAfter(p, phase) ==
  IF phase \in Starting THEN sweeping \cup {p}
  ELSE IF phase \in Terminal THEN sweeping \ {p} ELSE sweeping

HandleTuneEvent(p) ==
  /\ Takes(p)
  /\ \E phase \in Message(p).phases : sweeping' = PanelAfter(p, phase)
  /\ stale' = stale \ {p}
  /\ UNCHANGED <<server, shown, asked, stage, hearing>>

(* startSelectedSweep *)
ClickStart(p) ==
  /\ Connected(p) /\ p \notin sweeping /\ p \notin asked
  /\ sweeping' = sweeping \cup {p}
  /\ asked' = asked \cup {p}
  /\ stale' = stale \ {p}
  /\ UNCHANGED <<server, inbox, shown, stage, hearing>>

-----------------------------------------------------------------------------
(* The tune session, as the clients hear of it. *)

Says(phases) ==
  /\ Broadcast([i \in DOMAIN phases |-> OfPhase(phases[i])])
  /\ UNCHANGED <<state, lastJson, shown, panels>>

InCycle == {"tuning", "step"}   \* a cycle is on, of a tune or of a sweep
Moves(from, to) == stage \in from /\ stage' = to

(* A page's tune_band arrives, or another client's: a session begins,      *)
(* without a word, or the request is refused, to everybody.                *)
Requests(from) ==
  /\ asked' = asked \ from
  /\ \/ Moves({"idle"}, "begun") /\ UNCHANGED <<inbox, clients, hearing>>
     \/ /\ stage # "idle" /\ UNCHANGED stage
        /\ Broadcast(<<OfPhase("FAIL")>>)
        /\ hearing' = {}
  /\ UNCHANGED <<state, lastJson, shown, sweeping, stale>>

Request == Requests({}) \/ \E p \in asked : Requests({p})

SweepStarts ==
  /\ Moves({"begun"}, "between")
  /\ Says(<<"SWEEP_STARTED">>)
  /\ UNCHANGED hearing

CycleStarts ==
  /\ Moves({"begun"}, "tuning") \/ Moves({"between"}, "step")
  /\ Says(<<"STARTED">>)
  /\ hearing' = {p \in Pages : Connected(p)}

(* Of a single tune, or of one sub-band of a sweep. *)
CycleSucceeds ==
  /\ Moves({"tuning"}, "after") \/ Moves({"step"}, "between")
  /\ Says(<<"SUCCESS">>)
  /\ hearing' = {}

(* The reason is told first, and FAIL once the carrier has been turned off. *)
CycleFails ==
  /\ Moves(InCycle, "failing")
  /\ \E reason \in {"FAIL", "ABORT"} : Says(<<reason>>)
  /\ hearing' = {}

(* So is a carrier that could not be turned off, before the cycle's result. *)
CarrierOffFails ==
  /\ Moves(InCycle, stage) \/ Moves({"failing"}, stage)
  /\ Says(<<"FAIL">>)
  /\ hearing' = {}

(* A cycle that failed ends a single tune, and a sweep with a FAIL more. *)
Ends ==
  /\ \/ Moves({"begun"}, "after") /\ Says(<<"FAIL">>)
     \/ Moves({"failing"}, "after") /\ (Says(<<"FAIL">>) \/ Says(<<"FAIL", "FAIL">>))
     \/ Moves({"between"}, "after") /\ Says(<<"SWEEP_DONE">>)
     \/ Moves({"begun", "between"}, "after") /\ Says(<<"ABORT">>)
  /\ UNCHANGED hearing

(* The radio or OPERATE could not be given back. *)
GiveBackFails ==
  /\ Moves({"after"}, stage)
  /\ Says(<<"FAIL">>)
  /\ UNCHANGED hearing

(* The radio and OPERATE are given back, and the radio is let go. *)
Released ==
  /\ Moves({"after"}, "idle")
  /\ UNCHANGED <<server, inbox, shown, panels, hearing>>

-----------------------------------------------------------------------------

Init ==
  /\ state \in [reading : Readings, unit : {"C"}]
  /\ lastJson = {}
  /\ clients = {}
  /\ inbox = [p \in Pages |-> <<>>]
  /\ shown = [p \in Pages |-> {}]
  /\ sweeping = {} /\ asked = {} /\ stale = {}
  /\ stage = "idle"
  /\ hearing = {}

Session == Request \/ SweepStarts \/ CycleStarts \/ CycleSucceeds \/ CycleFails
           \/ CarrierOffFails \/ Ends \/ GiveBackFails \/ Released

Next ==
  \/ \E r \in Readings : StatusFrame(r)
  \/ \E u \in Units : SetUnit(u)
  \/ \E p \in Pages : \/ Open(p) \/ Lose(p)
                      \/ ShowState(p) \/ HandleTuneEvent(p) \/ ClickStart(p)
  \/ OnClose
  \/ Session

Spec == Init /\ [][Next]_vars

-----------------------------------------------------------------------------

UpToDate(p) == Connected(p) /\ inbox[p] = <<>>

(* A page that has taken what was sent to it shows the state the server    *)
(* has, in the unit in effect, although unchanged states are not sent and  *)
(* pages come and go: nothing the deduplication holds back is missed.      *)
PageIsCurrent == \A p \in Pages : UpToDate(p) => shown[p] = {state}

(* When no session is on, no page is left waiting for the end of one: the  *)
(* last phase it hears of a session releases its panel, whoever asked for  *)
(* the session and however it ended, unless the page missed that phase.    *)
PanelSettles ==
  stage = "idle" =>
    \A p \in Pages : UpToDate(p) /\ p \notin asked /\ p \notin stale =>
                       p \notin sweeping

(* While a cycle is on, the carrier with it, every page that has followed  *)
(* it offers Stop.                                                         *)
StopOffered ==
  stage \in InCycle => \A p \in hearing : UpToDate(p) => p \in sweeping
=============================================================================
