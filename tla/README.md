# Specifications of spe-remote

spe-remote is a Tornado server that puts an SPE Expert amplifier, on a USB
serial port, and a transceiver (a FlexRadio or a SunSDR) on the network. Its
one dangerous job is the ATU tune: it keys the transceiver's carrier while the
amplifier's tuner looks for a match. This directory holds TLA+ modules of the
parts whose behaviour depends on order, failure or timing, the TLC
configurations that check them on small instances, and TLAPS proofs of what
holds for every instance.

Line numbers refer to the files under `src/`. Run a check with
`tlc -config tune_prompt.cfg TuneOrchestrator`, a proof with
`tlapm TuneProofs.tla`.

## 1. The system

Everything runs on one asyncio/Tornado event loop, except a serial reader
thread, the executor threads of the power commands and the update checker's
thread. Between two awaits a coroutine is atomic.

| Part | State it keeps | Operations | Talks to | What makes it correct |
|---|---|---|---|---|
| Tune orchestrator `spe/tune_orchestrator.py` | `_running`, `_stop_requested`, the locals of one coroutine | `tune_single`, `tune_band`, `stop` | serial handler (keycodes, cached status), radio controller, clients (phases) | the carrier never outlives its cycle; the VFO and OPERATE are as they were; what is said to clients is true; a session ends |
| Radio controller `spe/radio_controller.py` | `_conn`, the configuration in effect, a lock | `connect`, `disconnect`, `reconfigure` | WebSocket handler, orchestrator, backends | the open connection is to the configured radio; nobody takes it from a running cycle; everyone gets the lock |
| Flex backend `spe/flex.py` | socket, sequence number, pending futures, slice cache | `connect`, `close`, `send` and the setters, reader task | the radio, over TCP | a reply answers its own command; nobody waits for ever; the cache is recent |
| TCI backend `spe/tci.py` | `_ws`, reader task, `_tx_channel`, VFO cache | `connect`, `close`, setters, `snapshot`, `restore` | the radio, over a WebSocket | the socket is never leaked or believed alive when dead; the right TRX is keyed |
| Serial handler, link `spe/serial_handler.py` | port, `_running`, `_connected`, command queue, reader thread | `start`, `stop`, `send_command`, five tasks | amplifier; reader thread posts to the loop | the link comes back; keycodes in order, none stale; silence after `stop` |
| Serial handler, framing | `_buffer` | `_ingest_chunk`, quiet flush | hands frames on | the frames do not depend on how reads cut the stream; resynchronisation |
| Serial handler, power meter | average, peak and hold time | in `_consume_csv_frame` | state broadcast | what is shown belongs to this transmission; a peak is held for its window |
| WebSocket handler `spe/websocket_handler.py` | the set of clients, the last broadcast | `on_message`, `_handle_set_radio_config`, broadcasts | all of the above | a guard holds when its effect happens; a failed save is reported; nothing the deduplication holds back is missed |
| Configuration `spe/config.py` | `config.yaml` | `load_config`, `persist_*` | WebSocket handler | a save changes what it was asked to change; a restart changes nothing |
| `configtool.py` | – | `get`, `write`, `preview`, from a shell | `config.yaml`, next to a running server | it changes what it is asked to change |
| Power controller `spe/power_control.py` | a lock | `power_on`, `power_off` | the serial port, from an executor thread | no write to a port that is gone |
| Protocol, band table | none | parsing, tables | – | each band's centres are in the band |
| Presence heartbeat `server.py` | two ages | a broadcast every 3 s | clients | an amplifier that went off is told in time |
| Start and shutdown `server.py` | tasks | – | all | a signal ends the server |
| Update checker `spe/update_check.py` | result under a lock | `check_once`, `status` | GitHub | a failed check keeps the last result |
| Dashboard `web/app.js` | `isSweeping`, socket | handlers | WebSocket handler | Stop is there while a cycle runs, and the panel is released when the session is over |

What is hard here: a client's message may arrive between any two awaits; the
amplifier is only seen through frames that lag, and its OPERATE key is a
toggle; a radio command may fail after it took effect; the serial port and the
radios come and go; two programs rewrite one configuration file; a stop has to
be noticed everywhere. `PROJECT.json` lists
these hazards line by line, with the properties that cover them and a reason
where none does.

## 2. Modules

| Module | Models | Abstracts |
|---|---|---|
| `TuneOrchestrator` | one action per await of a tune: from its outcome to the next await | radio commands are applied, refused or late; a band is its `N` centres |
| `TuneSession` | what a session promises about the carrier (abstract) | everything but stage, stop and carrier |
| `RadioController` (`MCRadioController`) | the controller with its lock, the guards and callbacks of the WebSocket handler, configuration and file, and shutdown | a backend section is one value |
| `SerialHandler` | `start()`, its tasks, the reader thread, the queue, `stop()` | bytes; a keycode is its number |
| `FrameParser` (`MCFrameParser`) | buffer and parser, byte by byte | bytes other than sync and markers |
| `FlexConnection` | `send`, dispatch, read loop, `close` | a command is set-frequency or another |
| `FlexCalls` | what a connection is to its callers (abstract): numbered calls, executed in order and at most once | futures, lines, the reader |
| `TciConnection` | the connection under the calls of a session | a session is its sequence of calls |
| `SettingsStore` | what `config.yaml` is to its readers and writers (abstract): a store that is copied, changed and put back | lines |
| `ConfigFile` (`MCConfigFile`) | `load_config`, `persist_temperature_unit`, `persist_values`, `configtool write`, line by line, with failed writes and crashes | indentation, quoting but of the unit, settings nobody writes |
| `AmpReadings` | the peak-hold and average meter and the presence heartbeat, over discrete time | the average moves towards the reading by any amount |
| `Dashboard` (`MCDashboard`) | the client set, the state and phase broadcasts, the sweep panel of `app.js` | a session is the phases the panel tells apart; rendering |
| `TuneProofs`, `RadioProofs`, `FlexProofs`, `TciProofs`, `ConfigProofs`, `DashboardProofs` | theorems about the module they extend | |
| `SerialProofs` | theorems about `SerialHandler`, `FrameParser` and `AmpReadings` | |
| `DataLemmas` | lemmas about queues of messages, and induction, for six of these | |

**TuneOrchestrator.** `task` is the coroutine's frame: `task.pc` names the await
it is in (`connect`, `where`, `mode`, `stby`, `freq`, `power`, `ledOn`, `key`,
`ledOff`, `unkey`, `pause`, `restore`, `oper`, `release`). An action takes the
outcome of that await and runs the code up to the next one; the code between
awaits is written as operators (`EnsureStby`, `StartCycle`, `CycleFails`,
`Unwind`, `HandBack`) named after the functions, `except` and `finally` clauses
they stand for. `out` is the phases that step emitted. The amplifier is a pair
OPERATE/LED that obeys keycodes later or never; `seen` is what the server
believes (`state.op_status`, `last_tune_active`). `home`, `owed`, `complained`,
`unsure`, `tuned` are history variables; nothing reads them but the properties.
A session starts whatever `seen` is worth and whatever the last one left on its
way; `home.known` records whether `op_status` was then the amplifier's
(`StatusIsTrue`: a status frame has replaced the default, and no OPERATE keycode
is in flight).

**RadioController.** `ready` is the loop's queue of spawned callbacks, `holder`
and `waiters` the `asyncio.Lock`. A `connect` that has to dial changes its
holder to `dialling` with the configuration it read, so that everything else can
happen meanwhile. With the lock free, and nothing to dial or to close, a callback
runs to its end in one step, as it does in the event loop. A change is built when
its handler runs, and applied and saved when it has had the lock, so that two may
overlap. `RadioDrops` exists for TCI only: a Flex connection calls itself
connected until it is closed. `server` is what `server.py:213-244` makes of a
signal: it stops the loop and runs it again until one last `disconnect` is
through, so whatever was spawned goes on (`leaving`) and is then frozen (`gone`).

**SerialHandler.** `main` is where `start()` is; `port` is none, open, or a
handle the reader's callback has closed. `ReaderGone` in `OpenPort` is the one
use of real time: a thread whose reads take at most 0.1 s, and what it posted,
are over when the pause of 3 s is. `start()` would not go round after an exception
of a task that is neither a `SerialException` nor an `OSError`; the tasks catch
whatever they meet, so no action stands for one.

**FrameParser.** `Drain` is `_drain_buffer` as a recursive function of the
bytes: `Waits` has its two returns, and one turn of its loop takes `Frame` and
leaves `Rest`. The history variable `stream` lets the properties compare what was
found chunk by chunk with what one read of everything would have found. The
names of its specification (`FramesSpec`, ...) and of `AmpReadings`
(`ReadingsSpec`, ...) differ from those of `SerialHandler`, because one module of
proofs is about all three.

**FlexConnection, TciConnection.** The connection's variables and actions next
to those of an external radio. `FlexConnection` is shown to implement `FlexCalls`
under `out <- {sent[i].seq : i \in DOMAIN sent}`: of the socket only the numbers
that are on their way to the radio remain. A link may break with bytes still under
way in both directions. In `TciConnection` the caller is one tune session after
another, because the connection's `_tx_channel` depends on their calls: a single
tune or a sweep of any number of sub-bands, which may give up before it keys.

**ConfigFile.** A line is a header, a key or a comment; a text is a sequence of
lines. Each editing function is an operator on texts, named after it, built from
the line ranges the code computes (`Below` is a section, `LastKeyBelow` the line
`_insert_at` inserts after). A write is two steps, because the program that reads
the file is not the only one that writes it: `Begin` computes the new text,
`Save` puts it down, `SaveFails` and `Killed` leave it as it was or empty, as a
truncating `write_text` does. What `persist_values` and `_apply` do for each
setting or section in a loop is a chain of steps here (`SetAll`, `Apply`), since
there are six settings in four sections. `Words` is what a line may name or a
setting be. `Regular` is a file as YAML wants it: no edited section and no
setting twice. `Read` is PyYAML's reading (of two sections or keys
with one name the last counts) followed by `load_config`'s defaults. The mapping
to `SettingsStore` is `store <- Read(lines)`. A server does not start on a file
with a section that has no keys (`Loadable`): `load_config` raises. A change of
the radio is built, applied and written before the next; that two may overlap is
`RadioController`'s.

**AmpReadings.** Ages grow with `Tick` and stop at `Ever`, beyond which nothing
depends on them. `csvAge` is both `last_state_age` and the time since
`_pout_peak_prev_tick`, which are stamped by the same frame. `top`, `topAge` and
`low` are the reference: the highest reading since the amplifier entered its
operating and TX state, when it came, and the lowest. A power that is not a number
is a reading of 0, as in `serial_handler.py:642-643`, and shows in all of them.

**Dashboard.** A page's messages wait in `inbox`, in order; a connection that is
lost leaves a dead handler behind, which the server drops when it is told or when
a write fails. The session's stages emit the phases `TuneOrchestrator`'s actions
emit, in the same order, reduced to those that lock or release the panel; the
FAIL of a restore that fails after the last of them is `GiveBackFails`.
`hearing` and `stale` are history variables.

## 3. Runs

| Run | Bounds | Shows |
|---|---|---|
| `tune_hostile` | two centres, no keycode in flight when a session starts, any outcome of any radio command, front panel and other clients at any time | nothing an amplifier or radio does breaks the accounting of carrier, VFO, OPERATE and phases, and `TuneSession` is implemented |
| `tune_prompt` | two centres, at most one keycode in flight when a session starts; an amplifier that obeys or loses a keycode and reports within each timeout | every session ends; in those that start on a true status, carrier only in STBY and OPERATE as found |
| `radio_controller` | three calls under way, a client that switches the kind and one that edits a section, a save that fails, one signal | the connection, the configuration and the file agree, cycles keep their radio's configuration and end, and a signal ends the server |
| `serial_link` | three presses, any number of outages | order, no press outlives its port, silence after stop, the link comes back |
| `framing` | payload and trailer of one byte, buffer of 16, five reads out of ten chunks | framing does not depend on the reads; the parser resynchronises |
| `flex_link` | three commands, one radio-side event, hang-up, broken link, close | replies, waiters and cache; `FlexCalls` is implemented |
| `tci_link` | one session per connection, any number of connections, TRX 1; a sweep goes on with one command or event under way (`MaxUnderWay`) | no leak, no dead connection taken for a live one, the rig put back |
| `config_file` | the shipped file, one from before the radio section with a quoted unit, no file; a unit change, two radio changes, one `configtool write`; a write of each program under way | the line editing is a store of settings, comments stay put, a restart changes nothing |
| `amp_readings` | powers 0 to 4, a hold and a decay of 1, a threshold of 2 and an interval of 1 step | peak and average tell the truth, and the heartbeat is neither late nor early |
| `dashboard` | two interchangeable pages, two readings, two messages on their way to a page | what a page shows, and when it offers Start and Stop |
| `tune_stop_in_stby`, `radio_disconnect_race` | as small as shows it | a claim of a comment that the code does not keep (section 6) |

Why the bounds are enough: a sweep's cycles differ only in being first, middle
or last and in what the one before left, which two centres show. Three
calls let a cycle, a change and a connect or disconnect queue at the lock in
every order. Three presses are one before, one during and one after an outage.
Five reads hold a torn header and two intact status frames after it, and the
buffer is the smallest that holds the head of a display frame and two status
frames, so that the overflow is reached. Three Flex commands are one that times
out, one that may get its answer, and one during the close. The three files of
`config_file` are: every section present, some missing, all missing; two writers
overlap in every order, and any number of restarts follow. In `amp_readings` the
peak takes several frames to fall and every age passes its limit. Two messages on the way are enough for a phase to
arrive when the session has moved on, and two pages for one of them to have asked
and the other not. For the safety properties of every module, the proofs of
section 5 remove the bounds. `tune_hostile` (2.9 million states) and `tune_prompt`
(1.0 million, with liveness) take two or three minutes, `radio_controller`,
`flex_link`, `amp_readings`, `dashboard` and `config_file` one or two; the others
take less.

`AmpAsFound` and `KeyedInStby` speak of sessions that start on a true status
(`home.known`), which the code does not establish. On the default `op_status`
"Stby" the preflight passes with an amplifier in OPERATE; after a stop and a quick
retry an OPERATE keycode in flight turns the amplifier behind the check. Such
sessions are among those of `tune_prompt` (they end, too); what becomes of them is
in section 6. `serial_link` assumes that a dead handle raises a read error other than
"readiness to read but returned no data", which the reader retries for ever.

`TuneOrchestrator` models a radio whose answer means execution, as Flex's does.
Over TCI a write may return and be lost with the socket, so that CARRIER_OFF
and VFO_RESTORED may be said of a radio that heard neither: `RigPutBack` is
therefore conditional on a socket that held.

### Fairness

| Specification | Assumed | Because |
|---|---|---|
| `TuneOrchestrator!FairSpec` | weak fairness of the session, of the amplifier's input and of its frames | every await has a timeout, and the link drains |
| `RadioController!FairSpec` | weak fairness of callbacks, of the holder of the lock and of a cycle's end | the loop runs what is spawned; connecting has a timeout; cycles end (`SessionEnds`) |
| `SerialHandler!FairSpec` | weak fairness of `start()` and of the reader | it waits for time, for the watchdog's poll, and for reads with a timeout |
| `FlexConnection!FairSpec` | weak fairness of the reader, of `close` and of a woken sender; not of timeouts | so that `CloseWakesAll` does not rest on the timeouts |
| `TciConnection!FairSpec` | weak fairness of the reader | the loop runs a task that has something to read |

Nothing is assumed of the clients, and `ShutdownEnds` holds although they go on
asking for the lock: it is granted in order. The other specifications have no
fairness, and only safety is claimed of them.

`flex_link` has CHECK_DEADLOCK FALSE: a closed connection object is not used
again.

## 4. Properties

- *Carrier.* `CarrierAccounted`: transmitting only while a carrier-off is still
  owed, or after a carrier command that raised. `StopNeverKeys`: a stop that
  comes before the carrier was asked for keeps it off. `KeyedInStby`: never with
  the amplifier in OPERATE, in a session that started on a true status.
  `ImplementsSession`: all of it as a refinement.
- *Putting back.* `RigAsFound`, `AmpAsFound`, `RestoredIsTrue`, `OperateNotKept`,
  `RigPutBack` (TCI).
- *What is said.* `SweepDoneIsComplete`, `RestoredIsTrue`, `KindIsSaved`;
  `MeterIsTrue`: the peak shows the highest reading for the hold time and then
  falls no faster than the decay; `AverageIsTrue`: the average lies between the
  lowest and the highest reading of the operating and TX state the amplifier is
  in; `PresenceIsTrue`: an amplifier is told to be off in time, and not too early;
  `PageIsCurrent`, though unchanged states are not sent again.
- *What can be done.* `PanelSettles`: the last phase of a session releases every
  panel that heard it. `StopOffered`: while the carrier may be on, every page that
  followed the cycle offers Stop.
- *What is kept.* `ImplementsStore`: an edit changes the settings it is asked to
  change and no other, as `load_config` will read them. `RestartChangesNothing`:
  what is in effect is what the next start would read, unless a save failed or
  `configtool` wrote meanwhile. `CommentsStayPut`.
- *Sharing.* `ConnMatchesConfig`, `ConfigKeptDuringTune`, `OwnReply`,
  `PendingAreWaiting`, `NothingLeaks`. `ImplementsCalls`: overlapping sends are
  executed in order, each at most once, and each ends once.
- *Keycodes and frames.* `PressesInOrder`, `PressDiesWithPort`, `SilentAfterStop`,
  `ChunksDoNotMatter`, `Resynchronises`, `CacheIsRecent` (Flex).
- *Progress.* `SessionEnds`, `CyclesEnd`, `ShutdownEnds`, `LinkComesBack`,
  `CloseWakesAll`, `HangUpNoticed`.

Each property has a mutant: a plausible slip in one mapped definition (written
next to it as "Mutant of ...") under which TLC finds the property violated.

## 5. Proofs

Every safety property that a run checks is a theorem, and the three refinements are.
The proofs are for every value of the constants and assume the named ASSUMEs on
them; two theorems (`AmpIsAsFound` and `KeyedOnlyInStby`) assume `~Strangers` and say
so. Where a property is not inductive, as
most are not, the text below says which invariant carries it.

`TuneProofs`, for every `N` and every set of radio outcomes. The segments of the
coroutine call each other (`StartCycle`, `CycleFails`, `Unwind`, `HandBack`), so
each has a lemma on where it leaves the coroutine waiting (`HandBackLeaves`,
`UnwindLeaves`, ...) and one on what it says, keeps and owes (`HandBackDoes`,
`UnwindDoes`, ...). The proofs of the actions cite those and never expand a
segment again.

- `TypeCorrect`, from the first kind of lemma.
- `Implementation`: `Spec => TuneSession!Spec` under the mapping of `task.pc` to
  a stage. It needs `TypeOK` only: where the coroutine waits next decides the
  stage, and `tx` and `unsure` change with the two carrier commands alone.
- `CarrierIsAccounted` and `StopKeepsCarrierOff` follow from the refinement:
  they are proved of the abstract session, whose nine actions are short, and
  read back through the mapping.
- `RigIsAsFound`, `OperateGivenBack`, `RestoreIsTrue` and `SweepIsComplete`, from
  `SessionInv`. The properties speak of the end of a session, or of one phase;
  `SessionInv` keeps three accounts at every await. `SweepOnCourse`: the centres
  before `task.step` are tuned and the dial is on this one. `RigOnLoan`: the mode
  is touched only when it is in the snapshot, and past the restore the rig is as
  found or the session complained. `OperOnLoan`: as long as OPERATE is owed
  without a complaint, some await ahead is going to press the key.
- `AmpIsAsFound` and `KeyedOnlyInStby` assume `~Strangers`, an amplifier that
  nobody else touches, and, in the properties, a session that started on a true
  status (`home.known`). Without either they are false: the key is a toggle.
  Keycodes may be lost or late, and so may the status: `Prompt` is not assumed.
  `AmpOnLoan` says for each await what is on its way, what the amplifier is in and
  what it reported last; what it reports is never ahead of what it is in.

`RadioProofs`, for every set of settings and changes and any number of calls:

- `TypeCorrect`, and with it `LineInv`. The holder of the lock and those who wait
  for it are one line (`Line`), which grows at the end and shrinks at the front.
  At most one call in it is of the cycle, no change is behind the cycle's
  connect, and none is in it once the cycle was served; who dials is first, and
  dials the configuration in effect.
- `ConnectionCorrect`: a connection that comes about is the one dialled, and
  `DialsInEffect` says that no change came between.
- `ConfigKept`: the change would have to be first in the line while the cycle
  uses its connection, which `ChangesGoFirst` excludes. It is a property of the
  order in which the lock is granted, and not of the guard in the handler.
- `KindSurvives` is inductive as it stands.

`SerialProofs`, of the link, for every number of presses and any behaviour of the
adapter:

- `StopIsSilent`, from `StoppedHasNoPort`: a stopped handler holds no port, and
  without one no task can write.
- `PressesDieWithPort`, from `PortInv`: while `start()` is between two ports
  there is none, and without a port nothing queued was queued for one. The
  property alone is not inductive: `OpenPort` marks whatever the queue holds.
- `OrderKept`, from `OrderInv`: the queue is in the order of sending, and all of
  it is newer than what was written last.

`SerialProofs`, of the framing, for every payload, trailer and buffer, every set of
chunks and any number of reads:

- That there is a function `Drain` at all is a theorem here (`DrainDef`): a
  recursive definition in TLA+ is a CHOOSE, and says nothing until such a function
  is shown to exist. `LoopFunction` shows it of any loop whose input shrinks in
  every turn; `TurnFacts` shows that this one does.
- `CutsDoNotMatter`, from `DrainSplits`: draining `a \o b` finds what draining `a`
  finds, followed by what draining what is left of `a` and then `b` finds. It is an
  induction on the length of `a`, one turn of the loop at a time (`TurnOfConcat`).
  `FramesInv` says that what was found and kept is what `Drain` gives for the
  whole stream, or that the buffer was flushed and the bound on reads is used up.
- `ParserResynchronises`. What a stream leaves pending is at most three bytes or
  a frame that is not over (`Pending`, `DrainLeaves`). An intact frame behind it
  completes that frame, or ends it with its sync, or is found; whichever it is, at
  most three bytes are left (`IntactClears`), and these do not hide the sync of
  the second intact frame (`FewAreSkipped`, `SecondIsFound`).
- `FramesTypeCorrect`: the buffer stays within its limit.

`SerialProofs`, of the readings, for every power, hold time, decay, threshold and
interval:

- `ReadingsTypeCorrect`. Powers stay in their range because the peak falls to the
  reading at least (`FallenIsBetween`), ages because they stop at `Ever`
  (`OlderIsAge`).
- `MeterCorrect`. `MeterIsTrue` is not inductive: that the peak shows the highest
  reading for the hold time needs that the hold is counted from when that reading
  came. `MeterInv` adds `held = topAge` while the highest reading is recent. For the
  decay, `FallInv` says the same as the property by differences (`top - peak`), and
  `DecaySplits` and `TwoFalls` that the falls of two frames in a row are at most the
  fall of the time of both.
- `AverageCorrect`: `AverageIsTrue` is inductive with the types, because a change of
  state restarts the average together with the readings it is compared with. It
  holds of every smoothing that stays between its arguments.
- `PresenceCorrect`, from `PresenceInv`: after an "up", the silence and the time to
  the next heartbeat together stay below threshold + interval; after a "down", the
  silence is at least the threshold and the time since, or a frame has ended it.

`ConfigProofs`, for every regular text that `config.yaml` may start out with,
every request of the clients and of `configtool`, and every crash:

- A text is edited in one of three ways: keys that are there get other values
  (`ValuesReplaced`), keys are put into a section (`KeysAdded`), or a section is
  put between two others (`SectionAdded`). For each it is shown that the settings
  it is meant to change are then read as asked, that every other setting is read
  as before, that every comment still describes its line, and that the text stays
  regular. An insertion moves the lines below it (`Spliced`, `Moved`); most of
  the work is to say which lines are then of which section.
- Each function of the code is one after the other of these: `PersistUnitIs`,
  `PersistValuesIs` (over `ReplacedIs` and `AddMissingIs`), `ApplyIs` (over
  `SetAllIs`, `AddSectionIs` and `TemplateIs`, which says that what the templates
  of `configtool` show is what `AppConfig` defaults to).
- `FileStaysRegular`, the invariant `FileInv`: the file is regular; each program
  writes one text at a time, which reads as the store its writer has copied with
  the settings it asked for changed (`Sound`), and which keeps the comments of the
  file unless somebody has written since; and the server has in effect what it is
  about to save, or what is saved (`InStep`).
- `ConfigIsAStore`, `RestartIsHarmless` and `CommentsStay` follow, the first by a
  lemma for each kind of step of the store.

The assumptions: `ShippedAssumption`, that the file that is there at first is
regular, which TLC checks of the shipped one and of the older one;
`RadioAssumption`, `ToolAssumption` and `UnitAssumption`, which say what the
messages and `configtool` can name, as `websocket_handler.py:310-323`, `SUPPORTED`
and `set_temp_unit` do.

`DataLemmas` has what several of these modules share. Where messages of a kind are
on their way, the last one decides what will be; where there is none, things must
be so already. `LastIn` and `NoneIn` say the two halves, and the lemmas what
becomes of them when a message is added at the end or taken from the front. The
library states induction for operators, which the provers cannot instantiate;
`Induction` and `InductionOnSize` state it for sets, and follow from the theorem
`WFMin` on well-founded relations.

`FlexProofs`, for every number of commands, frequencies and lines under way:

- `TypeCorrect`; `NobodyForgotten`, inductive with the types.
- `RepliesAreOwn`, from `SentOnce` (a sequence number is used once, and has no
  verdict while its command is on its way; those on their way are in order) and
  `TrueReplies` (what is on the line and in the future is the verdict): a reply
  that arrives after its sender has given up finds nobody.
- `ConnectionIsCalls`: `Spec => FlexCalls!Spec`. That the radio takes the least
  number that is on its way is the order in `SentOnce`, that it takes it once is
  its verdict there; what a sender is told is `TrueReplies`; and that a new number
  is the next one is `Counted`, which ties `_seq` to what has become of the calls.
- `CacheCorrect`, from `CacheInv`: the last event on its way tells where the
  slice is, or the cache knows it; before the subscription the radio says
  nothing.

`TciProofs`, for either TRX, any number of sessions, commands and events:

- `TypeCorrect`.
- `SocketsClosed`, from `LinkInv`: a socket that is up is known to the connection
  or to the `close()` that is about to close it. `close()` reads `_ws` before it
  cancels the reader, which clears it.
- `SessionPutsBack`, from `PutBackInv`. A command has no reply, so the property
  is about a radio that has executed everything; the invariant is about the
  last command of each kind under way. Past the restore the last one sets the
  dial, or the mode, to what is in the snapshot, and a TRX that transmits for the
  session has an "off" coming, except between on and off.

`DashboardProofs`, for any number of pages, readings and messages on their way:

- `TypeCorrect`, of a type invariant that is stated there and not checked by TLC.
- `PagesCurrent`, from `CurrentInv`: what the deduplication compares with is the
  state there is, and the last state on its way to a connected page, or the one
  it shows, is that one too.
- `PanelsSettle`, from `PanelInv`: when no session is on, the last phase on its
  way to a page is one that releases its panel; and a page that is not connected
  is stale if its panel is locked.
- `StopsOffered`, from `StopInv`: in a cycle nothing is behind the phase that
  locked the panel of a page that heard it.

Model-checked only: all liveness (`SessionEnds`, `CyclesEnd`, `ShutdownEnds`,
`LinkComesBack`, `CloseWakesAll`, `HangUpNoticed`), which rests on fairness and
ENABLED.

The type invariants of `TuneOrchestrator`, `SerialHandler`, `FlexConnection`,
`TciConnection`, `AmpReadings` and `Dashboard` are proved and not checked again.

## 6. What the runs found

Two runs check a sentence of the repository that the code does not keep:

1. `tune_stop_in_stby`: a stop while the amplifier is being dropped to STBY
   keeps OPERATE (`tune_orchestrator.py:227`, `:299`), though "The finally below
   still restores OPERATE if owed".
2. `radio_disconnect_race`: a disconnect checked while idle runs later and
   closes the radio under a cycle (`websocket_handler.py:137`), though "Don't drop
   the radio mid-tune".

Six more sentences are stated as properties and not run. Checked, TLC shows the
corner in which the code does not keep them:

- `KeyedAlwaysInStby` (`TuneOrchestrator`, with `N = 1`, `RadioOutcomes = {"ok"}`,
  `Prompt`, `~Strangers`, `MaxBacklog = 1`): a session on an `op_status` that is not
  the amplifier's, the default before the first frame or one made stale by an
  OPERATE keycode on its way, passes the STBY checks (`tune_orchestrator.py:384`,
  `:635`) and turns the carrier on in OPERATE, though the orchestrator is to "drop
  the amp to STBY ... verified via CSV op_status" and "hard-checks STBY" (30-34).
  This rests on an amplifier that takes the TUNE keycode in OPERATE too, the case
  the preflight is there for.
- `ChangesAreSaved` (`RadioController`, as `radio_controller.cfg` but with
  `SaveMayFail = FALSE`): a change that waits for the lock was built before it
  (`websocket_handler.py:314-318`). Of two that wait, the later undoes the earlier
  live and leaves it in `config.yaml`, and both are reported as saved, though no
  client is to "believe a change stuck that the next restart will silently revert"
  (325-326).
- `NeverLeftInTx` (`TuneOrchestrator`): a carrier command whose reply misses the
  timeout counts as failed, and no carrier-off follows it
  (`tune_orchestrator.py:435`).
- `StalePressesDropped` (`SerialHandler`): the queue is emptied when a port is
  lost (`serial_handler.py:344`); a press that comes after that, while there is no
  port, is queued (`:281`) and written to the next one.
- `KeysItsTrx` (`TciConnection`, with `Channel = 1`): a tune on the current
  frequency in a mode that is not changed keys TRX 0, which a connection starts out
  with (`tci.py:65`).
- `UnitIsSaved` (`ConfigFile`, with `SamePath = FALSE`): the unit is saved to the
  default path, whatever file the server was started on
  (`websocket_handler.py:165`).

Other behaviour seen while modelling, of which the repository promises nothing:

- `isSweeping` is not reset on a reconnect (`app.js:23`): a page that missed the
  end of a session offers Stop until it hears another phase. A SUCCESS of one
  sub-band, and the FAIL of somebody else's refused request, release every panel
  in the middle of a sweep (`app.js:526`). `PanelSettles` and `StopOffered` leave
  exactly these out, through `stale` and `hearing`.
- The deduplication compares ages by the wall clock (`websocket_handler.py:373`);
  `BroadcastState` therefore lets a repetition be sent or held back at any time.
- A `set_radio_config` that does not send a kind writes the kind in effect, over
  whatever `configtool` wrote meanwhile; `RestartChangesNothing` excludes a file
  edited under the server.
- A shutdown in the middle of a tune ends with the carrier as it is.

## 7. Not modelled

- Update checker: one thread, one answer under a lock, shared with nothing else.
- `power_on`: pulses on control lines whose effect only the amplifier sees.
  `power_off` is a keycode (`SerialHandler`).
- Flex discovery and `set_tune_power` over TCI: one datagram or one command, no
  state.
- The binary display frames, configuration replies and origin check of the
  WebSocket handler: nothing is kept of them.
- The dashboard's gauges, alarms, settings form and update banner: they render
  what they are given.
- Text: bands, warnings and errors of `protocol.py`, `generate_guide.py`, the
  install scripts and service template.
- `band_for_freq`: a search in a literal table, without state.

`PROJECT.json` has the reason for each, and for each hazard no property covers.

## 8. Plan

Done, most important behaviour first: `TuneOrchestrator` and `TuneSession`,
`RadioController`, `SerialHandler`, `FrameParser`, `FlexConnection` and
`FlexCalls`, `TciConnection`; then `ConfigFile` with `SettingsStore`, `AmpReadings`,
`Dashboard`, shutdown; then the proofs of the safety properties of all of them,
the framing and the line editing last.

Next, to prove:

1. `SerialHandler` as a channel: an abstract specification of what a client may
   expect of the keycodes it sends (each written once or never, in order, none
   to a later port), which `OrderInv` and `PortInv` show it to implement.
2. `RadioController` as a radio that is lent to one cycle at a time, from
   `LineInv`.

Next, to model, where it adds a behaviour: `TuneOrchestrator` over a serial link
that goes away (a stale `seen` after a reconnect), and the update checker if it
comes to share state.
