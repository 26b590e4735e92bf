----------------------------- MODULE ConfigFile -----------------------------
(***************************************************************************)
(* config.yaml: how it is read (load_config), rewritten by the running     *)
(* server (persist_temperature_unit and persist_values of spe/config.py,   *)
(* called from spe/websocket_handler.py) and edited by the install scripts *)
(* (configtool.py), which may run at the same time.                        *)
(*                                                                         *)
(* Nobody dumps YAML: the file is edited line by line, so that its         *)
(* comments survive.  A line is a section's header, a key with its value,  *)
(* or a comment; indentation, blank lines and what follows a value on its  *)
(* line are left out.  A section has one or two keys of the real ones.     *)
(***************************************************************************)
EXTENDS Naturals, Sequences, SequencesExt, FiniteSetsExt

CONSTANTS
  Words,          \* what a line may name, and the values of settings
  Shipped,        \* the texts config.yaml may start out with
  MayBeMissing,   \* there may be no config.yaml
  UnitRequests,   \* the units clients ask for
  RadioRequests,  \* the fields of set_radio_config messages
  ToolRequests,   \* the settings configtool is asked to write
  SamePath        \* the server was started on the config.yaml of its directory

ASSUME SamePathAssumption == SamePath \in BOOLEAN /\ MayBeMissing \in BOOLEAN
ASSUME UnitAssumption == UnitRequests \subseteq {"C", "F"}

Unit == <<"amp", "temperature_unit">>
Kind == <<"radio", "kind">>
Enabled == <<"flex", "enabled">>
FlexHost == <<"flex", "host">>
TciHost == <<"tci", "host">>
Port == <<"serial", "port">>

(* What AppConfig says of a setting the file does not have.  The kind of   *)
(* radio then follows from flex.enabled.                                   *)
Settings == {Unit, Kind, Enabled, FlexHost, TciHost, Port}
Default ==
  [s \in Settings |-> CASE s = Unit    -> "C"
                       [] s = Kind    -> "unset"
                       [] s = Enabled -> "false"
                       [] s = FlexHost -> ""
                       [] s = TciHost -> "127.0.0.1"
                       [] s = Port    -> "ttyUSB0"]

(* The settings in some, and the others as they are in rest. *)
Over(some, rest) ==
  [s \in DOMAIN some \cup DOMAIN rest |->
     IF s \in DOMAIN some THEN some[s] ELSE rest[s]]

Header(section) == [is |-> "header", name |-> section, value |-> ""]
KeyLine(key, value) == [is |-> "key", name |-> key, value |-> value]
Comment(about) == [is |-> "comment", name |-> about, value |-> ""]
Rewritten(line, value) == [is |-> line.is, name |-> line.name, value |-> value]

ASSUME WordsAssumption ==
  {"amp", "radio", "flex", "tci", "serial", "temperature_unit", "kind", "enabled",
   "host", "port", "radio block", "flex block", "tci block", "", "C", "F", "unset",
   "none", "true", "false", "127.0.0.1", "ttyUSB0"} \subseteq Words

VARIABLES
  exists,   \* there is a config.yaml
  lines,    \* its lines
  writes,   \* writes under way: by whom, what it asks for, the settings it has
            \* read, the text it makes of them, and whether another has
            \* written since
  up,       \* the server runs
  live,     \* the configuration in effect in the server
  apart     \* history: since the server started, configtool has written or a
            \* change of its own could not be saved

vars == <<exists, lines, writes, up, live, apart>>

-----------------------------------------------------------------------------
(* Reading. *)

Headers(text, section) == {i \in DOMAIN text : text[i] = Header(section)}
(* The lines of the section whose header is the given line. *)
Below(text, header) ==
  LET later == {j \in (header + 1)..Len(text) : text[j].is = "header"}
  IN  (header + 1)..(Min(later \cup {Len(text) + 1}) - 1)

IsKey(line, key) == line.is = "key" /\ line.name = key
KeyLines(text, setting) ==
  {i \in UNION {Below(text, h) : h \in Headers(text, setting[1])} :
     IsKey(text[i], setting[2])}

(* PyYAML: of two sections with one name, as of two keys, the last counts. *)
Counting(text, setting) ==
  IF Headers(text, setting[1]) = {} THEN {}
  ELSE {i \in Below(text, Max(Headers(text, setting[1]))) : IsKey(text[i], setting[2])}

(* The units that are written without quotes, in whatever section. *)
UnitLines(text) == {i \in DOMAIN text : /\ IsKey(text[i], "temperature_unit")
                                        /\ text[i].value \notin {"\"C\"", "\"F\""}}

(* "C" and "F", quoted or not, in any case or written out. *)
Fahrenheit == {"F", "f", "\"F\"", "fahrenheit"}
Understood(setting, value) ==
  IF setting # Unit THEN value ELSE IF value \in Fahrenheit THEN "F" ELSE "C"

Read(text) ==
  [s \in Settings |-> LET at == Counting(text, s)
                      IN  IF at = {} THEN Default[s]
                          ELSE Understood(s, text[Max(at)].value)]

KindOf(store) ==
  IF store[Kind] = "unset" THEN IF store[Enabled] = "true" THEN "flex" ELSE "none"
  ELSE IF store[Kind] \in {"flex", "tci"} THEN store[Kind] ELSE "none"

(* The configuration load_config builds. *)
Loaded(text) == LET store == Read(text) IN [store EXCEPT ![Kind] = KindOf(store)]

(* load_config raises on a section that has no key.                        *)
Loadable(text) ==
  \A i \in DOMAIN text :
    text[i].is = "header" /\ i = Max(Headers(text, text[i].name)) =>
      \E j \in Below(text, i) : text[j].is = "key"

(* A file as YAML wants it, in what is rewritten here: no section and no   *)
(* key twice.  (persist_temperature_unit may well add a second amp:, below *)
(* one whose unit is quoted.)                                              *)
Line == [is : {"header", "key", "comment"}, name : Words, value : Words]
Edited == {"radio", "flex", "tci", "serial"}
Regular(text) ==
  /\ text \in Seq(Line)
  /\ \A i \in DOMAIN text : text[i].is = "header" => text[i].value = ""
  /\ \A section \in Edited : \A i, j \in Headers(text, section) : i = j
  /\ \A s \in Settings \ {Unit} : \A i, j \in Counting(text, s) : i = j
  /\ UnitLines(text) # {} => /\ Counting(text, Unit) # {}
                             /\ Max(Counting(text, Unit)) \in UnitLines(text)

ASSUME ShippedAssumption == \A text \in Shipped : Regular(text)

(* What set_radio_config lets through, and what configtool supports.       *)
ASSUME RadioAssumption ==
  \A fields \in RadioRequests :
    /\ DOMAIN fields \subseteq {Kind, FlexHost, TciHost}
    /\ fields \in [DOMAIN fields -> Words]
    /\ Kind \in DOMAIN fields => fields[Kind] \in {"flex", "tci", "none"}
ASSUME ToolAssumption ==
  \A asked \in ToolRequests :
    DOMAIN asked \subseteq Settings \ {Unit} /\ asked \in [DOMAIN asked -> Words]

-----------------------------------------------------------------------------
(* Writing: spe/config.py. *)

Splice(text, at, block) ==
  SubSeq(text, 1, at) \o block \o SubSeq(text, at + 1, Len(text))

WithValue(text, at, value) ==
  [i \in DOMAIN text |-> IF i \in at THEN Rewritten(text[i], value)
                         ELSE text[i]]

(* persist_temperature_unit looks for the key in any section, unquoted.    *)
(* Where there is none it appends a section, and there may be one already. *)
PersistUnit(text, unit) ==
  LET hits == UnitLines(text)
  IN  IF hits # {} THEN WithValue(text, hits, unit)
      ELSE text \o <<Header("amp"), KeyLine("temperature_unit", unit)>>

(* Mutant of LastKeyBelow: the last line of the section, comments included. *)
LastLineBelow(text, header) == Max({header} \cup Below(text, header))

(* _insert_at: the last key of the section, or its header. *)
LastKeyBelow(text, header) ==
  Max({header} \cup {i \in Below(text, header) : text[i].is = "key"})

Replaced(text, asked) ==
  [i \in DOMAIN text |->
     LET here == {s \in DOMAIN asked : i \in KeyLines(text, s)}
     IN  IF here = {} THEN text[i]
         ELSE Rewritten(text[i], asked[CHOOSE s \in here : TRUE])]

(* Keys of one section that are inserted together come in any order; here, *)
(* in a fixed one.                                                         *)
KeyBlock(settings, asked) ==
  LET order == SetToSeq(settings)
  IN  [i \in DOMAIN order |-> KeyLine(order[i][2], asked[order[i]])]

AddMissing(text, section, asked) ==
  LET missing == {s \in DOMAIN asked : s[1] = section /\ KeyLines(text, s) = {}}
      block == KeyBlock(missing, asked)
  IN  IF missing = {} THEN text
      ELSE IF Headers(text, section) = {} THEN text \o <<Header(section)>> \o block
      ELSE Splice(text, LastKeyBelow(text, Min(Headers(text, section))), block)

PersistValues(text, asked) ==
  LET replaced == Replaced(text, asked)
      withRadio == AddMissing(replaced, "radio", asked)
      withFlex == AddMissing(withRadio, "flex", asked)
  IN  AddMissing(withFlex, "tci", asked)

-----------------------------------------------------------------------------
(* Writing: configtool.py. *)

(* Mutant of SetOne: the first key of that name, in whatever section. *)
SetOneAnywhere(text, setting, value) ==
  LET hits == {i \in DOMAIN text : IsKey(text[i], setting[2])}
  IN  IF hits = {} THEN Splice(text, LastKeyBelow(text, Max(Headers(text, setting[1]))),
                               <<KeyLine(setting[2], value)>>)
      ELSE WithValue(text, {Min(hits)}, value)

(* _set_one or, when it finds nothing, _insert_key. *)
SetOne(text, setting, value) ==
  LET hits == KeyLines(text, setting)
  IN  IF hits = {} THEN Splice(text, LastKeyBelow(text, Min(Headers(text, setting[1]))),
                               <<KeyLine(setting[2], value)>>)
      ELSE WithValue(text, {Min(hits)}, value)

Template ==
  [radio  |-> <<Comment("radio block"), Header("radio"), KeyLine("kind", "none")>>,
   flex   |-> <<Comment("flex block"), Header("flex"), KeyLine("enabled", "false"),
                KeyLine("host", "")>>,
   tci    |-> <<Comment("tci block"), Header("tci"), KeyLine("host", "127.0.0.1")>>,
   serial |-> <<Header("serial")>>]

(* _render_section: the template's defaults, overridden by what is asked. *)
Rendered(section, asked) ==
  LET mine == {s \in DOMAIN asked : s[1] = section}
      rest == {s \in mine : ~\E i \in DOMAIN Template[section] :
                                IsKey(Template[section][i], s[2])}
  IN  [i \in DOMAIN Template[section] |->
         LET line == Template[section][i]
             s == <<section, line.name>>
         IN  IF line.is = "key" /\ s \in mine THEN KeyLine(s[2], asked[s]) ELSE line]
      \o KeyBlock(rest, asked)

(* _insert_block: above logging:, which the file ends with, or at the end. *)
InsertBlock(text, block) ==
  LET logging == Headers(text, "logging")
  IN  IF logging = {} THEN text \o block ELSE Splice(text, Min(logging) - 1, block)

(* _apply: keys of sections the file has, then the sections it has not.    *)
(* (Settings that are set together are set in any order; here, in a fixed  *)
(* one.)                                                                   *)
SetKnown(text, setting, asked) ==
  IF setting \in DOMAIN asked /\ Headers(text, setting[1]) # {}
  THEN SetOne(text, setting, asked[setting]) ELSE text

SetAll(text, asked) ==
  LET withPort == SetKnown(text, Port, asked)
      withKind == SetKnown(withPort, Kind, asked)
      withEnabled == SetKnown(withKind, Enabled, asked)
      withFlexHost == SetKnown(withEnabled, FlexHost, asked)
  IN  SetKnown(withFlexHost, TciHost, asked)

AddSection(text, section, asked) ==
  IF Headers(text, section) = {} /\ \E s \in DOMAIN asked : s[1] = section
  THEN InsertBlock(text, Rendered(section, asked)) ELSE text

Apply(text, asked) ==
  LET withRadio == AddSection(SetAll(text, asked), "radio", asked)
      withFlex == AddSection(withRadio, "flex", asked)
      withTci == AddSection(withFlex, "tci", asked)
  IN  AddSection(withTci, "serial", asked)

-----------------------------------------------------------------------------
(* The server. *)

Writing(by) == \E w \in writes : w.by = by
Idle == up /\ ~Writing("server")   \* its event loop is not in a handler

Begin(by, text, asked) ==
  IF text = lines THEN UNCHANGED writes
  ELSE writes' = writes \cup {[by |-> by, asked |-> asked, base |-> Read(lines),
                               text |-> text, stale |-> FALSE]}

(* set_temp_unit: in effect at once.  It is written to "config.yaml",      *)
(* whatever file the server was started on, and whether that succeeds is   *)
(* not looked at.                                                          *)
SetUnit(unit) ==
  /\ Idle
  /\ live' = [live EXCEPT ![Unit] = unit]
  /\ IF SamePath /\ exists THEN Begin("server", PersistUnit(lines, unit), [s \in {Unit} |-> unit])
                           ELSE UNCHANGED writes
  /\ apart' = (apart \/ (SamePath /\ ~exists))
  /\ UNCHANGED <<exists, lines, up>>

(* Mutant of Sent: flex.enabled is left as it is. *)
SentWithoutEnabled(fields) ==
  LET kind == IF Kind \in DOMAIN fields THEN fields[Kind] ELSE live[Kind]
  IN  Over(fields, [s \in {Kind} |-> kind])

(* The kind, sent or not, flex.enabled to go with it, and the fields sent. *)
Sent(fields) ==
  LET kind == IF Kind \in DOMAIN fields THEN fields[Kind] ELSE live[Kind]
  IN  Over(fields, [s \in {Kind, Enabled} |->
                      IF s = Kind THEN kind ELSE IF kind = "flex" THEN "true" ELSE "false"])

(* set_radio_config, once RadioController has let it through.  Handlers of *)
(* two changes may overlap at the controller's lock, and the later one is  *)
(* then built without the earlier: RadioController shows that; here one    *)
(* change is built, applied and written before the next.                   *)
SetRadio(fields) ==
  /\ Idle
  /\ LET asked == Sent(fields)
     IN  /\ live' = [Over(asked, live)
                       EXCEPT ![Enabled] = IF asked[Kind] = "flex" THEN "true" ELSE "false"]
         /\ IF exists THEN Begin("server", PersistValues(lines, asked), asked)
                      ELSE UNCHANGED writes
  /\ apart' = (apart \/ ~exists)
  /\ UNCHANGED <<exists, lines, up>>

(* A file named on the command line has to exist. *)
Start ==
  /\ ~up
  /\ (exists \/ SamePath) /\ Loadable(lines)
  /\ up' = TRUE
  /\ live' = Loaded(lines)
  /\ apart' = FALSE
  /\ UNCHANGED <<exists, lines, writes>>

(* configtool write, from a shell. *)
ToolReads(asked) ==
  /\ ~Writing("tool")
  /\ Begin("tool", Apply(lines, asked), asked)
  /\ UNCHANGED <<exists, lines, up, live, apart>>

(* write_text, of either program. *)
Save(w) ==
  /\ writes' = {[other EXCEPT !.stale = TRUE] : other \in writes \ {w}}
  /\ lines' = w.text
  /\ exists' = TRUE
  /\ apart' = (apart \/ (up /\ w.by = "tool"))
  /\ UNCHANGED <<up, live>>

(* write_text truncates the file before it fills it: one that fails leaves *)
(* the file as it was, or empty.                                           *)
AsItWasOrEmpty == UNCHANGED <<exists, lines>> \/ (exists' = TRUE /\ lines' = <<>>)

SaveFails(w) ==
  /\ writes' = writes \ {w}
  /\ AsItWasOrEmpty
  /\ apart' = up
  /\ UNCHANGED <<up, live>>

(* Either program, or both, may be killed at any time, as by a power cut.  *)
(* (The configuration of a server that is down is of no interest.)         *)
Killed(dead) ==
  /\ \/ up /\ "server" \in dead
     \/ Writing("tool") /\ "tool" \in dead
  /\ up' = (up /\ "server" \notin dead)
  /\ writes' = {w \in writes : w.by \notin dead}
  /\ IF writes' = writes THEN UNCHANGED <<exists, lines>> ELSE AsItWasOrEmpty
  /\ live' = IF up' THEN live ELSE Default
  /\ apart' = up'

-----------------------------------------------------------------------------

Init ==
  /\ exists \in (IF MayBeMissing THEN BOOLEAN ELSE {TRUE})
  /\ IF exists THEN lines \in Shipped ELSE lines = <<>>
  /\ writes = {}
  /\ up = FALSE
  /\ live = Default
  /\ apart = FALSE

Next ==
  \/ \E u \in UnitRequests : SetUnit(u)
  \/ \E f \in RadioRequests : SetRadio(f)
  \/ Start
  \/ \E asked \in ToolRequests : ToolReads(asked)
  \/ \E w \in writes : Save(w) \/ SaveFails(w)
  \/ \E dead \in SUBSET {"server", "tool"} : Killed(dead)

Spec == Init /\ [][Next]_vars

-----------------------------------------------------------------------------

Store == INSTANCE SettingsStore
  WITH Writers <- {"server", "tool"},
       Values <- Words,
       store <- Read(lines),
       pending <- {[by |-> w.by, base |-> w.base, asked |-> w.asked] : w \in writes}

(* The line editing changes the settings it is asked to change and no      *)
(* other, in every file it meets, whoever wrote it last (the templates of  *)
(* configtool included, whose defaults have to be those of AppConfig), as  *)
(* load_config will read it.                                               *)
ImplementsStore == Store!Spec

(* After a restart the server does what it did before it, unless a change  *)
(* could not be saved, the file was edited under it, or two changes of the *)
(* radio overlapped (RadioController).                                     *)
RestartChangesNothing ==
  Idle /\ SamePath /\ ~apart => live = Loaded(lines)

(* _insert_at: a comment stays directly above the line it was written      *)
(* above, whatever is written.  Not so above logging:, where configtool    *)
(* inserts its sections.                                                   *)
Describes(text) ==
  {<<text[i].name, text[i + 1].is, text[i + 1].name>> :
     i \in {j \in 1..(Len(text) - 1) : text[j].is = "comment"}}
CommentsStayPut ==
  [][\A c \in Describes(lines) : \/ lines' = <<>>
                                 \/ c[3] = "logging"
                                 \/ \E w \in writes : w.stale
                                 \/ c \in Describes(lines')]_lines

(* Documented (websocket_handler.py:158-161, README.md:174): the unit      *)
(* survives a restart.                                                     *)
UnitIsSaved ==
  Idle /\ ~apart => live[Unit] = Loaded(lines)[Unit]
=============================================================================
