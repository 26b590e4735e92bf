------------------------------ MODULE TciProofs ------------------------------
(***************************************************************************)
(* TciConnection for either TRX, any number of sessions and any number of  *)
(* commands and events under way: close() leaves no socket open, and a     *)
(* session that went well puts the radio back.                             *)
(***************************************************************************)
EXTENDS TciConnection, DataLemmas

-----------------------------------------------------------------------------
(* The inductive invariants. *)

(* A socket that is up is known to the connection, or to the close() that  *)
(* is going to close it.                                                   *)
LinkInv ==
  /\ link = "up" => ws \/ pc = "closingSocket"
  /\ pc \in {"new", "closing", "closed"} => link # "up"

(* A command has no reply, so what counts is the last one of its kind that *)
(* is under way; without one, what the radio is set to.                    *)
Commands == SetCommand \cup TuneCommand
SetsOf(f) == {c \in SetCommand : c.op = f}
SetsTo(v) == {c \in SetCommand : c.to = v}
TunesOf(t) == {c \in TuneCommand : c.trx = t}
Offs == {c \in TuneCommand : ~c.on}

SettlesAt(f, v) == /\ LastIn(sent, SetsOf(f), SetsTo(v))
                   /\ NoneIn(sent, SetsOf(f)) => rig[f] = v
Settled(f) == \A v \in snap[f] : SettlesAt(f, v)
GoesDark(t) == /\ LastIn(sent, TunesOf(t), Offs)
               /\ NoneIn(sent, TunesOf(t)) => t \notin keyed

(* Where the caller holds the connection, and where it is done with it.    *)
InUse == {"opening", "connected", "mode", "freq", "on", "keyed", "pause",
          "restore", "restoreMode", "done", "closingSocket"}
After == {"done", "closing", "closingSocket", "closed"}

(* As long as nothing raised and the radio did not hang up: what transmits *)
(* for the session is going to go dark, except between on and off; and     *)
(* what restore() has been through is going to be as in the snapshot.      *)
PutBackInv ==
  /\ pc = "new" => sent = <<>>
  /\ pc \in {"new", "opening", "connected"} => snap = Unknown
  /\ ~broke /\ pc \in InUse => link = "up"
  /\ ~failed /\ ~broke /\ pc # "new" =>
       \A t \in Trxs \ lit : GoesDark(t) \/ (pc = "keyed" /\ t = txChannel)
  /\ ~failed /\ ~broke /\ pc \in After \cup {"restoreMode"} => Settled("freq")
  /\ ~failed /\ ~broke /\ pc \in After => Settled("mode")

-----------------------------------------------------------------------------
(* Commands, events and what they set. *)

(* A command sets a dial or the tune carrier, never both.                  *)
LEMMA CommandKinds ==
  /\ \A f \in Fields : \A v \in Value[f] : [op |-> f, to |-> v] \in SetCommand
  /\ \A c \in SetCommand : c.op \in Fields /\ c.to \in Value[c.op]
  /\ \A t \in Trxs, on \in BOOLEAN :
       [op |-> "tune", trx |-> t, on |-> on] \in TuneCommand
  /\ \A c \in TuneCommand : c.op = "tune" /\ c.trx \in Trxs /\ c.on \in BOOLEAN
  /\ "tune" \notin Fields /\ "ready" \notin Fields
  /\ Value["freq"] = Freqs /\ Value["mode"] = Modes /\ Fields = {"freq", "mode"}
  BY DEF SetCommand, TuneCommand, Fields, Value

(* The cache learns one field at a time. *)
LEMMA FieldKnown ==
  ASSUME NEW k \in Known, NEW f \in Fields, NEW v \in Value[f]
  PROVE  [k EXCEPT ![f] = {v}] \in Known
<1>1. CASE f = "freq"
  BY <1>1, CommandKinds DEF Known, AtMostOne
<1>2. CASE f = "mode"
  BY <1>2, CommandKinds DEF Known, AtMostOne
<1> QED
  BY <1>1, <1>2, CommandKinds

(* What a command does in the radio. *)
LEMMA Execution ==
  ASSUME TypeOK, RadioExecutes
  PROVE  \E c \in Commands :
           /\ sent # <<>> /\ c = Head(sent) /\ sent' = Tail(sent)
           /\ rig' \in Setting
           /\ \/ /\ c \in TuneCommand /\ c \notin SetCommand /\ rig' = rig
                 /\ keyed' = IF c.on THEN keyed \cup {c.trx} ELSE keyed \ {c.trx}
                 /\ inbound' = inbound
              \/ /\ c \in SetCommand /\ c \notin TuneCommand /\ keyed' = keyed
                 /\ rig'[c.op] = c.to
                 /\ \A g \in Fields : g # c.op => rig'[g] = rig[g]
                 /\ inbound' \in {inbound, Append(inbound, c)}
<1>1. sent # <<>> /\ sent \in Seq(Commands) /\ Head(sent) \in Commands
  BY TailElements DEF RadioExecutes, TypeOK, Commands
<1> DEFINE c == Head(sent)
<1>2. CASE c.op = "tune"
  <2>1. c \in TuneCommand /\ c \notin SetCommand
    BY <1>1, <1>2, CommandKinds DEF Commands
  <2> QED
    BY <1>1, <1>2, <2>1 DEF RadioExecutes, TypeOK
<1>3. CASE c.op # "tune"
  <2>1. c \in SetCommand /\ c \notin TuneCommand /\ c.op \in Fields /\ c.to \in Value[c.op]
    BY <1>1, <1>3, CommandKinds DEF Commands
  <2>2. /\ rig' = [rig EXCEPT ![c.op] = c.to] /\ keyed' = keyed /\ sent' = Tail(sent)
        /\ inbound' \in {inbound, Append(inbound, c)}
    BY <1>3 DEF RadioExecutes
  <2>3. /\ rig' \in Setting /\ rig'[c.op] = c.to
        /\ \A g \in Fields : g # c.op => rig'[g] = rig[g]
    <3>1. rig \in Setting
      BY DEF TypeOK
    <3>2. ASSUME NEW f \in Fields, NEW v \in Value[f], rig' = [rig EXCEPT ![f] = v]
          PROVE  /\ rig' \in Setting /\ rig'[f] = v
                 /\ \A g \in Fields : g # f => rig'[g] = rig[g]
      <4>1. CASE f = "freq"
        BY <3>1, <3>2, <4>1, CommandKinds DEF Setting
      <4>2. CASE f = "mode"
        BY <3>1, <3>2, <4>2, CommandKinds DEF Setting
      <4> QED
        BY <4>1, <4>2, CommandKinds
    <3>3. rig' = [rig EXCEPT ![c.op] = c.to]
      BY <2>2
    <3> HIDE DEF c
    <3> QED
      BY <2>1, <3>2, <3>3
  <2> QED
    BY <1>1, <2>1, <2>2, <2>3
<1> QED
  BY <1>2, <1>3

-----------------------------------------------------------------------------
(* Types. *)

(* The first state is well typed.                                          *)
LEMMA InitType == Init => TypeOK
<1> SUFFICES ASSUME Init PROVE TypeOK
  OBVIOUS
<1>1. Unknown \in Known /\ 0 \in Trxs
  BY DEF Unknown, Known, AtMostOne, Trxs
<1>2. rig \in Setting
  BY DEF Init, Freqs, Setting
<1>3. sent \in Seq(SetCommand \cup TuneCommand) /\ inbound \in Seq(Event)
  BY EmptySeq DEF Init
<1> QED
  BY <1>1, <1>2, <1>3 DEF Init, TypeOK

(* A command that is written is at the end of those under way, or it was   *)
(* lost with the socket.                                                   *)
LEMMA WrittenType ==
  ASSUME TypeOK, NEW c \in Commands, Written(c)
  PROVE  sent' \in Seq(SetCommand \cup TuneCommand) /\ failed' \in BOOLEAN
  BY AppendElements DEF Written, TypeOK, Commands

(* Every step keeps the types.                                             *)
LEMMA NextType == TypeOK /\ [Next]_vars => TypeOK'
<1> SUFFICES ASSUME TypeOK, [Next]_vars PROVE TypeOK'
  OBVIOUS
<1> USE DEF caller, world
<1>0. Channel \in Trxs /\ 0 \in Trxs /\ Unknown \in Known
  BY ChannelAssumption DEF Trxs, Known, AtMostOne, Unknown
<1>1. CASE Connect
  <2>1. rig.freq \in Freqs /\ rig.mode \in Modes
    BY DEF TypeOK, Setting
  <2>2. [op |-> "ready"] \in Event
    BY DEF Event
  <2>3. /\ [op |-> "freq", to |-> rig.freq] \in Event
        /\ [op |-> "mode", to |-> rig.mode] \in Event
    BY <2>1, CommandKinds DEF Event
  <2>4. PICK f, m, r \in BOOLEAN :
          inbound' = (IF f THEN <<[op |-> "freq", to |-> rig.freq]>> ELSE <<>>)
                     \o (IF m THEN <<[op |-> "mode", to |-> rig.mode]>> ELSE <<>>)
                     \o (IF r THEN <<[op |-> "ready"]>> ELSE <<>>)
    BY <1>1 DEF Connect
  <2> DEFINE first == IF f THEN <<[op |-> "freq", to |-> rig.freq]>> ELSE <<>>
             second == IF m THEN <<[op |-> "mode", to |-> rig.mode]>> ELSE <<>>
             third == IF r THEN <<[op |-> "ready"]>> ELSE <<>>
  <2>5. first \in Seq(Event) /\ second \in Seq(Event) /\ third \in Seq(Event)
    BY <2>2, <2>3
  <2> HIDE DEF first, second, third
  <2>6. inbound' = first \o second \o third
    BY <2>4 DEF first, second, third
  <2>7. first \o second \in Seq(Event)
    BY <2>5, ConcatProperties
  <2>8. inbound' \in Seq(Event)
    BY <2>5, <2>6, <2>7, ConcatProperties
  <2> QED
    BY <1>1, <2>8 DEF Connect, TypeOK
<1>2. CASE \/ Session \/ CurrentFrequency \/ GivesUp \/ NextSubBand
           \/ Connected \/ CloseBegins \/ CloseEnds
  <2>1. CASE Session
    BY <2>1 DEF Session, Call, TypeOK
  <2>2. CASE CurrentFrequency \/ GivesUp \/ NextSubBand
    BY <2>2 DEF CurrentFrequency, GivesUp, NextSubBand, Call, TypeOK
  <2>3. CASE Connected \/ CloseBegins
    BY <2>3 DEF Connected, CloseBegins, TypeOK
  <2>4. CASE CloseEnds
    BY <2>4 DEF CloseEnds, TypeOK
  <2> QED
    BY <1>2, <2>1, <2>2, <2>3, <2>4
<1>3. CASE SetMode \/ SetFrequency
  <2>1. /\ [op |-> "mode", to |-> "CW"] \in Commands
        /\ [op |-> "freq", to |-> 1] \in Commands
    BY CommandKinds DEF Commands, Freqs, Modes
  <2>2. sent' \in Seq(SetCommand \cup TuneCommand) /\ failed' \in BOOLEAN
    BY <1>3, <2>1, WrittenType DEF SetMode, SetFrequency, Raises, TypeOK
  <2> QED
    BY <1>0, <1>3, <2>2 DEF SetMode, SetFrequency, Call, TypeOK
<1>4. CASE TuneOn \/ TuneOff
  <2>1. \A on \in BOOLEAN : [op |-> "tune", trx |-> txChannel, on |-> on] \in Commands
    BY CommandKinds DEF Commands, TypeOK
  <2>2. sent' \in Seq(SetCommand \cup TuneCommand) /\ failed' \in BOOLEAN
    BY <1>4, <2>1, WrittenType DEF TuneOn, TuneOff, Raises, TypeOK
  <2> QED
    BY <1>4, <2>2 DEF TuneOn, TuneOff, Call, TypeOK
<1>5. CASE RestoreFreq \/ RestoreMode
  <2>1. /\ \A v \in snap.freq : [op |-> "freq", to |-> v] \in Commands
        /\ \A v \in snap.mode : [op |-> "mode", to |-> v] \in Commands
    BY CommandKinds DEF Commands, TypeOK, Known, AtMostOne
  <2>2. sent' \in Seq(SetCommand \cup TuneCommand) /\ failed' \in BOOLEAN
    BY <1>5, <2>1, WrittenType DEF RestoreFreq, RestoreMode, Raises, TypeOK
  <2> QED
    BY <1>0, <1>5, <2>2 DEF RestoreFreq, RestoreMode, Call, TypeOK
<1>6. CASE Rebuilt
  BY <1>0, <1>6, EmptySeq DEF Rebuilt, TypeOK
<1>7. CASE Dispatch
  <2>1. Head(inbound) \in Event /\ inbound' \in Seq(Event)
    BY <1>7, TailElements DEF Dispatch, TypeOK
  <2>2. CASE Head(inbound).op = "ready"
    BY <1>7, <2>1, <2>2 DEF Dispatch, TypeOK
  <2>3. CASE Head(inbound).op # "ready"
    <3>1. /\ Head(inbound).op \in Fields
          /\ Head(inbound).to \in Value[Head(inbound).op]
      BY <2>1, <2>3, CommandKinds DEF Event
    <3>2. cache' = [cache EXCEPT ![Head(inbound).op] = {Head(inbound).to}]
      BY <1>7, <2>3 DEF Dispatch
    <3>3. cache' \in Known
      <4>1. cache \in Known
        BY DEF TypeOK
      <4> QED
        BY <3>1, <3>2, <4>1, FieldKnown
    <3> QED
      BY <1>7, <2>1, <2>3, <3>3 DEF Dispatch, TypeOK
  <2> QED
    BY <2>2, <2>3
<1>8. CASE ReadLoopEnds
  BY <1>8 DEF ReadLoopEnds, TypeOK
<1>9. CASE RadioExecutes
  <2>1. PICK c \in Commands :
           /\ sent # <<>> /\ c = Head(sent) /\ sent' = Tail(sent)
           /\ rig' \in Setting
           /\ \/ /\ c \in TuneCommand
                 /\ keyed' = IF c.on THEN keyed \cup {c.trx} ELSE keyed \ {c.trx}
                 /\ inbound' = inbound
              \/ /\ c \in SetCommand /\ keyed' = keyed
                 /\ inbound' \in {inbound, Append(inbound, c)}
    BY <1>9, Execution
  <2>2. sent' \in Seq(SetCommand \cup TuneCommand)
    BY <2>1, TailElements DEF TypeOK
  <2>3. inbound' \in Seq(Event)
    <3>1. inbound \in Seq(Event)
      BY DEF TypeOK
    <3>2. ASSUME c \in SetCommand PROVE Append(inbound, c) \in Seq(Event)
      BY <3>1, <3>2, AppendElements DEF Event
    <3> QED
      BY <2>1, <3>1, <3>2
  <2>4. keyed' \subseteq Trxs
    BY <2>1, CommandKinds DEF TypeOK
  <2> QED
    BY <1>9, <2>1, <2>2, <2>3, <2>4 DEF RadioExecutes, TypeOK
<1>10. CASE RadioHangsUp
  BY <1>10, PrefixElements DEF RadioHangsUp, TypeOK
<1>11. CASE UNCHANGED vars
  BY <1>11 DEF vars, TypeOK
<1> QED
  BY <1>1, <1>2, <1>3, <1>4, <1>5, <1>6, <1>7, <1>8, <1>9, <1>10, <1>11
  DEF Next, Caller, Reader

(* Every variable keeps its type. *)
THEOREM TypeCorrect == Spec => []TypeOK
  BY InitType, NextType, PTL DEF Spec

-----------------------------------------------------------------------------

(* close() remembers whether there was a socket before it cancels the      *)
(* reader, which clears _ws; so the socket is closed whoever comes first.  *)
THEOREM SocketsClosed == Spec => []NothingLeaks
<1>1. Init => LinkInv
  BY DEF Init, LinkInv
<1>2. LinkInv /\ [Next]_vars => LinkInv'
  BY DEF LinkInv, Next, Caller, Reader, Connect, Connected, Session, SetMode,
         SetFrequency, CurrentFrequency, GivesUp, TuneOn, TuneOff,
         NextSubBand, RestoreFreq, RestoreMode,
         CloseBegins, CloseEnds, Rebuilt, Dispatch, ReadLoopEnds, RadioExecutes,
         RadioHangsUp, Call, Closing, vars, caller, world
<1>3. LinkInv => NothingLeaks
  BY DEF LinkInv, NothingLeaks
<1> QED
  BY <1>1, <1>2, <1>3, PTL DEF Spec

-----------------------------------------------------------------------------
(* Commands under way. *)

(* The radio executes towards what it is going to be set to. *)
LEMMA ExecutionSettles ==
  ASSUME TypeOK, RadioExecutes, NEW f \in Fields, NEW v, SettlesAt(f, v)
  PROVE  SettlesAt(f, v)'
<1>1. PICK c \in Commands :
        /\ sent # <<>> /\ c = Head(sent) /\ sent' = Tail(sent)
        /\ c \in SetsOf(f) => rig'[f] = c.to
        /\ c \notin SetsOf(f) => rig'[f] = rig[f]
  <2>1. PICK c \in Commands :
          /\ sent # <<>> /\ c = Head(sent) /\ sent' = Tail(sent)
          /\ \/ c \in TuneCommand /\ c \notin SetCommand /\ rig' = rig
             \/ /\ c \in SetCommand /\ rig'[c.op] = c.to
                /\ \A g \in Fields : g # c.op => rig'[g] = rig[g]
    BY Execution
  <2> QED
    BY <2>1 DEF SetsOf
<1>2. sent \in Seq(Commands)
  BY DEF TypeOK, Commands
<1>3. LastIn(Tail(sent), SetsOf(f), SetsTo(v))
  BY <1>1, <1>2, TailOfKind DEF SettlesAt
<1>4. ASSUME NoneIn(Tail(sent), SetsOf(f)) PROVE rig'[f] = v
  <2>1. CASE c \in SetsOf(f)
    <3>1. c \in SetsTo(v)
      BY <1>1, <1>2, <1>4, <2>1, TailOfKind DEF SettlesAt
    <3> QED
      BY <1>1, <2>1, <3>1 DEF SetsTo
  <2>2. CASE c \notin SetsOf(f)
    <3>1. NoneIn(sent, SetsOf(f))
      BY <1>1, <1>2, <1>4, <2>2, TailOfKind
    <3> QED
      BY <1>1, <2>2, <3>1 DEF SettlesAt
  <2> QED
    BY <2>1, <2>2
<1> QED
  BY <1>1, <1>3, <1>4 DEF SettlesAt

(* And towards silence. *)
LEMMA ExecutionDarkens ==
  ASSUME TypeOK, RadioExecutes, NEW t \in Trxs, GoesDark(t)
  PROVE  GoesDark(t)'
<1>1. PICK c \in Commands :
        /\ sent # <<>> /\ c = Head(sent) /\ sent' = Tail(sent)
        /\ c \in TunesOf(t) /\ ~c.on => t \notin keyed'
        /\ c \notin TunesOf(t) => (t \in keyed' <=> t \in keyed)
  <2>1. PICK c \in Commands :
          /\ sent # <<>> /\ c = Head(sent) /\ sent' = Tail(sent)
          /\ \/ /\ c \in TuneCommand
                /\ keyed' = IF c.on THEN keyed \cup {c.trx} ELSE keyed \ {c.trx}
             \/ c \in SetCommand /\ c \notin TuneCommand /\ keyed' = keyed
    BY Execution
  <2> QED
    BY <2>1 DEF TunesOf
<1>2. sent \in Seq(Commands)
  BY DEF TypeOK, Commands
<1>3. LastIn(Tail(sent), TunesOf(t), Offs)
  BY <1>1, <1>2, TailOfKind DEF GoesDark
<1>4. ASSUME NoneIn(Tail(sent), TunesOf(t)) PROVE t \notin keyed'
  <2>1. CASE c \in TunesOf(t)
    <3>1. c \in Offs
      BY <1>1, <1>2, <1>4, <2>1, TailOfKind DEF GoesDark
    <3> QED
      BY <1>1, <2>1, <3>1 DEF Offs
  <2>2. CASE c \notin TunesOf(t)
    <3>1. NoneIn(sent, TunesOf(t))
      BY <1>1, <1>2, <1>4, <2>2, TailOfKind
    <3> QED
      BY <1>1, <2>2, <3>1 DEF GoesDark
  <2> QED
    BY <2>1, <2>2
<1> QED
  BY <1>1, <1>3, <1>4 DEF GoesDark

(* A command that is written decides what it sets, and nothing else.       *)
LEMMA WrittenSettles ==
  ASSUME TypeOK, NEW c \in Commands, sent' = Append(sent, c), rig' = rig,
         NEW f \in Fields, NEW v
  PROVE  /\ c \in SetsOf(f) /\ c \in SetsTo(v) => SettlesAt(f, v)'
         /\ c \notin SetsOf(f) /\ SettlesAt(f, v) => SettlesAt(f, v)'
<1>1. sent \in Seq(Commands)
  BY DEF TypeOK, Commands
<1>2. ASSUME c \in SetsOf(f), c \in SetsTo(v) PROVE SettlesAt(f, v)'
  <2>1. LastIn(Append(sent, c), SetsOf(f), SetsTo(v))
    BY <1>1, <1>2, AppendOfKind
  <2>2. ~NoneIn(Append(sent, c), SetsOf(f))
    BY <1>1, <1>2, AppendElements DEF NoneIn
  <2> QED
    BY <2>1, <2>2 DEF SettlesAt
<1>3. ASSUME c \notin SetsOf(f), SettlesAt(f, v) PROVE SettlesAt(f, v)'
  BY <1>1, <1>3, AppendOfOther DEF SettlesAt
<1> QED
  BY <1>2, <1>3

(* A tune command that is written decides where its TRX ends up; another   *)
(* changes nothing about that.                                             *)
LEMMA WrittenDarkens ==
  ASSUME TypeOK, NEW c \in Commands, sent' = Append(sent, c), keyed' = keyed,
         NEW t \in Trxs
  PROVE  /\ c \in TunesOf(t) /\ c \in Offs => GoesDark(t)'
         /\ c \notin TunesOf(t) /\ GoesDark(t) => GoesDark(t)'
<1>1. sent \in Seq(Commands)
  BY DEF TypeOK, Commands
<1>2. ASSUME c \in TunesOf(t), c \in Offs PROVE GoesDark(t)'
  <2>1. LastIn(Append(sent, c), TunesOf(t), Offs)
    BY <1>1, <1>2, AppendOfKind
  <2>2. ~NoneIn(Append(sent, c), TunesOf(t))
    BY <1>1, <1>2, AppendElements DEF NoneIn
  <2> QED
    BY <2>1, <2>2 DEF GoesDark
<1>3. ASSUME c \notin TunesOf(t), GoesDark(t) PROVE GoesDark(t)'
  BY <1>1, <1>3, AppendOfOther DEF GoesDark
<1> QED
  BY <1>2, <1>3

-----------------------------------------------------------------------------
(* A session that goes well. *)

(* At first there is nothing to put back.                                  *)
LEMMA InitPutBack == Init => PutBackInv
  BY DEF Init, PutBackInv, InUse, After

(* Every step keeps what was put back on its way to the rig.               *)
LEMMA NextPutBack == TypeOK /\ PutBackInv /\ [Next]_vars => PutBackInv'
<1> SUFFICES ASSUME TypeOK, PutBackInv, [Next]_vars PROVE PutBackInv'
  OBVIOUS
<1> USE DEF caller, world
<1>1. CASE Connect
  <2>1. \A t \in Trxs \ lit' : GoesDark(t)'
    BY <1>1, EmptyQueue DEF Connect, PutBackInv, GoesDark
  <2> QED
    BY <1>1, <2>1 DEF Connect, PutBackInv, After, InUse
<1>2. CASE Session
  BY <1>2 DEF Session, Call, PutBackInv, After, InUse, GoesDark
<1>3. CASE Connected \/ CurrentFrequency \/ GivesUp \/ NextSubBand
  BY <1>3 DEF Connected, CurrentFrequency, GivesUp, NextSubBand, Call, PutBackInv,
              After, InUse, GoesDark
<1>4. CASE SetMode \/ SetFrequency
  <2> SUFFICES ASSUME ~failed' PROVE PutBackInv'
    BY <1>4 DEF SetMode, SetFrequency, Call, PutBackInv, After, InUse
  <2>1. PICK c \in SetCommand : Written(c)
    <3>1. /\ [op |-> "mode", to |-> "CW"] \in SetCommand
          /\ [op |-> "freq", to |-> 1] \in SetCommand
      BY CommandKinds DEF Freqs, Modes
    <3> QED
      BY <1>4, <3>1 DEF SetMode, SetFrequency, Raises
  <2>2. CASE broke
    BY <1>4, <2>2 DEF SetMode, SetFrequency, Call, PutBackInv, After, InUse
  <2>3. CASE ~broke
    <3>1. sent' = Append(sent, c) /\ c \in Commands /\ keyed' = keyed
      BY <1>4, <2>1, <2>3
      DEF SetMode, SetFrequency, Call, PutBackInv, InUse, Written, Commands
    <3>2. ~failed /\ \A t \in Trxs \ lit : GoesDark(t)
      BY <1>4, <2>1, <2>3 DEF SetMode, SetFrequency, PutBackInv, Written
    <3>3. \A t \in Trxs : c \notin TunesOf(t)
      BY CommandKinds DEF TunesOf
    <3>4. \A t \in Trxs \ lit : GoesDark(t)'
      BY <3>1, <3>2, <3>3, WrittenDarkens
    <3> QED
      BY <1>4, <3>4 DEF SetMode, SetFrequency, Call, PutBackInv, After, InUse
  <2> QED
    BY <2>2, <2>3
<1>5. CASE TuneOn
  <2> SUFFICES ASSUME ~failed', ~broke PROVE PutBackInv'
    BY <1>5 DEF TuneOn, Call, PutBackInv, After, InUse
  <2> DEFINE c == [op |-> "tune", trx |-> txChannel, on |-> TRUE]
  <2>1. c \in Commands /\ \A t \in Trxs : t # txChannel => c \notin TunesOf(t)
    BY CommandKinds DEF TypeOK, Commands, TunesOf
  <2>2. sent' = Append(sent, c) /\ ~failed /\ pc' = "keyed"
    BY <1>5 DEF TuneOn, Raises, Written, PutBackInv, InUse
  <2>3. keyed' = keyed /\ \A t \in Trxs \ lit : GoesDark(t)
    BY <1>5, <2>2 DEF TuneOn, Call, PutBackInv
  <2> HIDE DEF c
  <2>4. \A t \in Trxs \ lit : t # txChannel => GoesDark(t)'
    BY <2>1, <2>2, <2>3, WrittenDarkens
  <2> QED
    BY <1>5, <2>2, <2>4 DEF TuneOn, Call, PutBackInv, After, InUse
<1>6. CASE TuneOff
  <2> SUFFICES ASSUME ~failed', ~broke PROVE PutBackInv'
    BY <1>6 DEF TuneOff, Call, PutBackInv, After, InUse
  <2> DEFINE c == [op |-> "tune", trx |-> txChannel, on |-> FALSE]
  <2>1. /\ c \in Commands /\ c \in Offs /\ c \in TunesOf(txChannel)
        /\ \A t \in Trxs : t # txChannel => c \notin TunesOf(t)
    BY CommandKinds DEF TypeOK, Commands, TunesOf, Offs
  <2>2. sent' = Append(sent, c) /\ ~failed /\ pc' \in {"pause", "restore"}
    BY <1>6 DEF TuneOff, Raises, Written, PutBackInv, InUse
  <2>3. keyed' = keyed /\ \A t \in Trxs \ lit : GoesDark(t) \/ t = txChannel
    BY <1>6, <2>2 DEF TuneOff, Call, PutBackInv
  <2> HIDE DEF c
  <2>4. \A t \in Trxs \ lit : GoesDark(t)'
    BY <2>1, <2>2, <2>3, WrittenDarkens
  <2> QED
    BY <1>6, <2>2, <2>4 DEF TuneOff, Call, PutBackInv, After, InUse
<1>7. CASE RestoreFreq
  <2> SUFFICES ASSUME ~failed', ~broke PROVE PutBackInv'
    BY <1>7 DEF RestoreFreq, Call, PutBackInv, After, InUse
  <2>1. ~failed /\ \A t \in Trxs \ lit : GoesDark(t)
    <3>1. ~Raises /\ pc = "restore"
      BY <1>7 DEF RestoreFreq, Raises
    <3>2. failed' = failed
      BY <1>7, <3>1 DEF RestoreFreq, Written
    <3> QED
      BY <3>1, <3>2 DEF PutBackInv
  <2>2. CASE snap.freq = {} /\ sent' = sent /\ pc' = "restoreMode"
    BY <1>7, <2>1, <2>2
    DEF RestoreFreq, Call, PutBackInv, After, InUse, GoesDark, Settled
  <2>3. ASSUME NEW v \in snap.freq, Written([op |-> "freq", to |-> v]),
               pc' = "restoreMode"
        PROVE  PutBackInv'
    <3> DEFINE c == [op |-> "freq", to |-> v]
    <3>1. snap["freq"] = {v} /\ c \in SetCommand /\ c \in Commands
      BY <2>3, CommandKinds DEF TypeOK, Known, AtMostOne, Commands
    <3>2. sent' = Append(sent, c) /\ keyed' = keyed /\ rig' = rig /\ snap' = snap
      BY <1>7, <2>3 DEF RestoreFreq, Call, Written, PutBackInv, InUse
    <3>3. c \in SetsOf("freq") /\ c \in SetsTo(v)
      BY <3>1 DEF SetsOf, SetsTo
    <3>4. \A t \in Trxs : c \notin TunesOf(t)
      BY CommandKinds DEF TunesOf
    <3> HIDE DEF c
    <3>5. \A t \in Trxs \ lit : GoesDark(t)'
      BY <2>1, <3>1, <3>2, <3>4, WrittenDarkens
    <3>6. SettlesAt("freq", v)'
      BY <3>1, <3>2, <3>3, CommandKinds, WrittenSettles
    <3>7. Settled("freq")'
      BY <3>1, <3>2, <3>6 DEF Settled
    <3> QED
      BY <1>7, <2>3, <3>5, <3>7 DEF RestoreFreq, Call, PutBackInv, After, InUse
  <2> QED
    BY <1>7, <2>2, <2>3 DEF RestoreFreq, Raises
<1>8. CASE RestoreMode
  <2> SUFFICES ASSUME ~failed', ~broke PROVE PutBackInv'
    BY <1>8 DEF RestoreMode, Call, PutBackInv, After, InUse
  <2>1. ~failed /\ Settled("freq") /\ \A t \in Trxs \ lit : GoesDark(t)
    <3>1. ~Raises /\ pc = "restoreMode"
      BY <1>8 DEF RestoreMode, Raises
    <3>2. failed' = failed
      BY <1>8, <3>1 DEF RestoreMode, Written
    <3> QED
      BY <3>1, <3>2 DEF PutBackInv
  <2>2. CASE snap.mode = {} /\ sent' = sent
    BY <1>8, <2>1, <2>2
    DEF RestoreMode, Call, PutBackInv, After, InUse, GoesDark, Settled, SettlesAt
  <2>3. ASSUME NEW v \in snap.mode, Written([op |-> "mode", to |-> v])
        PROVE  PutBackInv'
    <3> DEFINE c == [op |-> "mode", to |-> v]
    <3>1. snap["mode"] = {v} /\ c \in SetCommand /\ c \in Commands
      BY <2>3, CommandKinds DEF TypeOK, Known, AtMostOne, Commands
    <3>2. sent' = Append(sent, c) /\ keyed' = keyed /\ rig' = rig /\ snap' = snap
      BY <1>8, <2>3 DEF RestoreMode, Call, Written, PutBackInv, InUse
    <3>3. c \in SetsOf("mode") /\ c \in SetsTo(v) /\ c \notin SetsOf("freq")
      BY <3>1 DEF SetsOf, SetsTo
    <3>4. \A t \in Trxs : c \notin TunesOf(t)
      BY CommandKinds DEF TunesOf
    <3> HIDE DEF c
    <3>5. \A t \in Trxs \ lit : GoesDark(t)'
      BY <2>1, <3>1, <3>2, <3>4, WrittenDarkens
    <3>6. Settled("mode")'
      <4>1. SettlesAt("mode", v)'
        BY <3>1, <3>2, <3>3, CommandKinds, WrittenSettles
      <4> QED
        BY <3>1, <3>2, <4>1 DEF Settled
    <3>7. Settled("freq")'
      <4>1. \A w \in snap["freq"] : SettlesAt("freq", w)'
        BY <2>1, <3>1, <3>2, <3>3, CommandKinds, WrittenSettles DEF Settled
      <4> QED
        BY <3>2, <4>1 DEF Settled
    <3> QED
      BY <1>8, <2>3, <3>5, <3>6, <3>7 DEF RestoreMode, Call, PutBackInv, After, InUse
  <2> QED
    BY <1>8, <2>2, <2>3 DEF RestoreMode, Raises
<1>9. CASE CloseBegins
  <2>1. snap = Unknown => Settled("freq")' /\ Settled("mode")'
    BY <1>9 DEF CloseBegins, Settled, Unknown
  <2> QED
    BY <1>9, <2>1
    DEF CloseBegins, PutBackInv, After, InUse, GoesDark, Settled, SettlesAt
<1>10. CASE CloseEnds
  BY <1>10 DEF CloseEnds, Closing, PutBackInv, After, InUse, GoesDark, Settled,
              SettlesAt
<1>11. CASE Rebuilt
  BY <1>11 DEF Rebuilt, PutBackInv, After, InUse
<1>12. CASE Reader
  BY <1>12 DEF Reader, Dispatch, ReadLoopEnds, PutBackInv, GoesDark, Settled,
              SettlesAt
<1>13. CASE RadioExecutes
  <2>1. pc # "new" /\ UNCHANGED <<pc, snap, lit, failed, broke, link, txChannel>>
    BY <1>13 DEF RadioExecutes, PutBackInv
  <2>2. ASSUME NEW f \in Fields, Settled(f) PROVE Settled(f)'
    BY <1>13, <2>1, <2>2, ExecutionSettles DEF Settled
  <2>3. \A t \in Trxs : GoesDark(t) => GoesDark(t)'
    BY <1>13, ExecutionDarkens
  <2> QED
    BY <2>1, <2>2, <2>3, CommandKinds DEF PutBackInv
<1>14. CASE RadioHangsUp
  <2>1. pc = "new" => sent' = <<>>
    BY <1>14 DEF RadioHangsUp, PutBackInv, TypeOK
  <2> QED
    BY <1>14, <2>1 DEF RadioHangsUp, PutBackInv
<1>15. CASE UNCHANGED vars
  BY <1>15 DEF vars, PutBackInv, GoesDark, Settled, SettlesAt
<1> QED
  BY <1>1, <1>2, <1>3, <1>4, <1>5, <1>6, <1>7, <1>8, <1>9, <1>10, <1>11, <1>12,
     <1>13, <1>14, <1>15 DEF Next, Caller

(* Without an acknowledgement of any command, a session whose calls all    *)
(* returned leaves the radio as it found it, once what is under way has    *)
(* arrived: nothing keyed that was not keyed before, and the dial and the  *)
(* mode at the snapshot.                                                   *)
THEOREM SessionPutsBack == Spec => []RigPutBack
<1>1. TypeOK /\ PutBackInv => RigPutBack
  <2> SUFFICES ASSUME TypeOK, PutBackInv, pc = "closed", ~failed, ~broke, sent = <<>>
               PROVE  keyed \subseteq lit /\ \A f \in Fields : snap[f] \subseteq {rig[f]}
    BY DEF RigPutBack
  <2>1. \A t \in Trxs \ lit : t \notin keyed
    BY EmptyQueue DEF PutBackInv, GoesDark
  <2>2. \A f \in Fields : Settled(f)
    BY CommandKinds DEF PutBackInv, After
  <2>3. \A f \in Fields : \A v \in snap[f] : rig[f] = v
    BY <2>2, EmptyQueue DEF Settled, SettlesAt
  <2> QED
    BY <2>1, <2>3 DEF TypeOK
<1> QED
  BY <1>1, InitType, NextType, InitPutBack, NextPutBack, PTL DEF Spec
=============================================================================
