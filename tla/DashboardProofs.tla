--------------------------- MODULE DashboardProofs ---------------------------
(***************************************************************************)
(* Dashboard for any number of pages, any readings and any number of       *)
(* messages on their way: a page shows the state there is, its panel       *)
(* settles when a session has ended, and offers Stop while a cycle is on.  *)
(***************************************************************************)
EXTENDS Dashboard, DataLemmas

-----------------------------------------------------------------------------
(* The inductive invariants. *)

Phases == Starting \cup Terminal
StateMessages == {OfState(s) : s \in States}
PhaseMessages == {OfPhase(phase) : phase \in Phases}
Starts == {OfPhase(phase) : phase \in Starting}
Endings == {OfPhase(phase) : phase \in Terminal}
Messages == StateMessages \cup PhaseMessages
Connections == [page : Pages, open : BOOLEAN]

(* The type of every variable: the inbox of a page holds messages, of      *)
(* states or of phases.                                                    *)
TypeOK ==
  /\ state \in States /\ lastJson \subseteq States
  /\ clients \subseteq Connections
  /\ inbox \in [Pages -> Seq(Messages)]
  /\ shown \in [Pages -> SUBSET States]
  /\ sweeping \subseteq Pages /\ asked \subseteq Pages /\ stale \subseteq Pages
  /\ hearing \subseteq Pages
  /\ stage \in {"idle", "begun", "between", "tuning", "step", "failing", "after"}

(* What a page will show, once it has taken what is on its way to it: the  *)
(* last state, and the panel that the last phase leaves.                   *)
WillShow(p) == /\ LastIn(inbox[p], StateMessages, {OfState(state)})
               /\ NoneIn(inbox[p], StateMessages) => shown[p] = {state}
WillSettle(p) == /\ LastIn(inbox[p], PhaseMessages, Endings)
                 /\ NoneIn(inbox[p], PhaseMessages) =>
                      p \notin sweeping \/ p \in stale \/ p \in asked
WillOffer(p) == /\ LastIn(inbox[p], PhaseMessages, Starts)
                /\ NoneIn(inbox[p], PhaseMessages) => p \in sweeping

(* What the deduplication compares with is what the pages have been told.  *)
CurrentInv == /\ lastJson \subseteq {state}
              /\ \A p \in Pages : Connected(p) => WillShow(p)

(* Every way out of a session has told its end before the radio is given   *)
(* back; a page that was not there is stale.                               *)
PanelInv ==
  /\ \A p \in Pages : ~Connected(p) => /\ p \notin asked
                                       /\ p \in sweeping => p \in stale
  /\ stage \in {"idle", "after"} => \A p \in Pages : Connected(p) => WillSettle(p)

(* Nothing but the end of a cycle is said behind its start.                *)
StopInv == \A p \in hearing : /\ Connected(p)
                              /\ stage \in InCycle => WillOffer(p)

-----------------------------------------------------------------------------
(* Messages. *)

(* A message carries states or phases, never both, and at least one.       *)
LEMMA MessageKinds ==
  /\ \A s \in States : /\ OfState(s) \in StateMessages
                       /\ OfState(s) \notin PhaseMessages
                       /\ OfState(s).states = {s} /\ OfState(s).phases = {}
  /\ \A phase \in Phases : /\ OfPhase(phase) \in PhaseMessages
                           /\ OfPhase(phase) \notin StateMessages
                           /\ OfPhase(phase).phases = {phase}
                           /\ OfPhase(phase).states = {}
  /\ \A m \in Messages : /\ m.states # {} <=> m \in StateMessages
                         /\ m.phases # {} <=> m \in PhaseMessages
                         /\ m \in PhaseMessages <=> m \notin StateMessages
  /\ Starting \cap Terminal = {}
<1>1. \A s : OfState(s).states = {s} /\ OfState(s).phases = {}
  BY DEF OfState
<1>2. \A phase : OfPhase(phase).phases = {phase} /\ OfPhase(phase).states = {}
  BY DEF OfPhase
<1>3. \A m \in StateMessages : m.states # {} /\ m.phases = {}
  BY <1>1 DEF StateMessages
<1>4. \A m \in PhaseMessages : m.states = {} /\ m.phases # {}
  BY <1>2 DEF PhaseMessages
<1>5. Starting \cap Terminal = {}
  BY DEF Starting, Terminal
<1>6. /\ \A s \in States : OfState(s) \in StateMessages
      /\ \A phase \in Phases : OfPhase(phase) \in PhaseMessages
  BY DEF StateMessages, PhaseMessages
<1> QED
  BY <1>1, <1>2, <1>3, <1>4, <1>5, <1>6 DEF Messages

(* The messages that tell some phases. *)
LEMMA Telling ==
  ASSUME NEW phases \in Seq(Phases), phases # <<>>
  PROVE  LET m == [i \in DOMAIN phases |-> OfPhase(phases[i])]
         IN  /\ m \in Seq(PhaseMessages) /\ m # <<>>
             /\ m[Len(m)] = OfPhase(phases[Len(phases)])
<1> DEFINE m == [i \in DOMAIN phases |-> OfPhase(phases[i])]
<1>1. /\ Len(phases) \in Nat \ {0} /\ DOMAIN phases = 1 .. Len(phases)
      /\ \A i \in 1 .. Len(phases) : phases[i] \in Phases
  BY LenProperties, EmptySeq
<1>2. m \in [1 .. Len(phases) -> PhaseMessages]
  BY <1>1, MessageKinds
<1>3. m \in Seq(PhaseMessages)
  BY <1>1, <1>2, SeqDef
<1>4. DOMAIN m = 1 .. Len(phases) /\ m[Len(phases)] = OfPhase(phases[Len(phases)])
  BY <1>1
<1> HIDE DEF m
<1>5. Len(m) = Len(phases)
  <2>1. Len(m) \in Nat /\ 1 .. Len(m) = 1 .. Len(phases)
    BY <1>3, <1>4, LenProperties
  <2> QED
    BY <1>1, <2>1
<1>6. m # <<>>
  BY <1>1, <1>5, EmptySeq
<1> QED
  BY <1>3, <1>4, <1>5, <1>6 DEF m

-----------------------------------------------------------------------------
(* Broadcasts. *)

(* The server may know a connection of a page, and a dead one.             *)
LEMMA TwoConnections ==
  /\ \A p \in Pages : Connection(p) \in Connections /\ Dead(p) \in Connections
  /\ \A p, q \in Pages : /\ Connection(p) # Dead(q)
                         /\ Connection(p) = Connection(q) => p = q
<1>1. \A p : /\ Connection(p).page = p /\ Connection(p).open
             /\ Dead(p).page = p /\ ~Dead(p).open
  BY DEF Connection, Dead
<1>2. \A p \in Pages : Connection(p) \in Connections /\ Dead(p) \in Connections
  BY Zenon DEF Connection, Dead, Connections
<1> QED
  BY <1>1, <1>2

(* Dead connections are not pages'. *)
LEMMA Broadcasts ==
  ASSUME TypeOK, NEW messages \in Seq(Messages), Broadcast(messages)
  PROVE  /\ inbox' \in [Pages -> Seq(Messages)]
         /\ clients' \subseteq Connections
         /\ \A p \in Pages :
              /\ Connected(p)' <=> Connected(p)
              /\ Connected(p) => inbox'[p] = inbox[p] \o messages
<1>1. PICK dead \in SUBSET {c \in clients : ~c.open} : clients' = clients \ dead
  BY DEF Broadcast, DropDead
<1>2. \A p \in Pages : Connected(p)' <=> Connected(p)
  BY <1>1 DEF Connected, Connection
<1>3. inbox' = [p \in Pages |-> IF Connected(p) THEN inbox[p] \o messages
                                ELSE inbox[p]]
  BY DEF Broadcast, Deliver
<1>4. \A p \in Pages : inbox[p] \in Seq(Messages)
  BY DEF TypeOK
<1>5. \A p \in Pages : inbox[p] \o messages \in Seq(Messages)
  BY <1>4, ConcatProperties
<1> QED
  BY <1>1, <1>2, <1>3, <1>4, <1>5 DEF TypeOK

(* A phase is told. *)
LEMMA Told ==
  ASSUME TypeOK, NEW messages \in Seq(PhaseMessages), messages # <<>>,
         Broadcast(messages)
  PROVE  /\ inbox' \in [Pages -> Seq(Messages)]
         /\ clients' \subseteq Connections
         /\ \A p \in Pages : Connected(p)' <=> Connected(p)
         /\ \A p \in Pages : Connected(p) =>
              /\ messages[Len(messages)] \in Endings => WillSettle(p)'
              /\ messages[Len(messages)] \in Starts => WillOffer(p)'
              /\ state' = state /\ shown' = shown => (WillShow(p) => WillShow(p)')
<1>1. messages \in Seq(Messages)
  BY SeqMonotonic DEF Messages
<1>2. /\ inbox' \in [Pages -> Seq(Messages)]
      /\ clients' \subseteq Connections
      /\ \A p \in Pages :
           /\ Connected(p)' <=> Connected(p)
           /\ Connected(p) => inbox'[p] = inbox[p] \o messages
  BY <1>1, Broadcasts
<1> SUFFICES ASSUME NEW p \in Pages, Connected(p)
             PROVE  /\ messages[Len(messages)] \in Endings => WillSettle(p)'
                    /\ messages[Len(messages)] \in Starts => WillOffer(p)'
                    /\ state' = state /\ shown' = shown => (WillShow(p) => WillShow(p)')
  BY <1>2
<1>3. inbox[p] \in Seq(Messages) /\ inbox'[p] = inbox[p] \o messages
  BY <1>2 DEF TypeOK
<1>4. messages[Len(messages)] \in PhaseMessages
  BY LenProperties, EmptySeq
<1>5. NoneIn(messages, StateMessages)
  <2>1. \A i \in DOMAIN messages : messages[i] \in PhaseMessages
    BY LenProperties
  <2> QED
    BY <2>1, MessageKinds DEF NoneIn, Messages
<1>6. ASSUME messages[Len(messages)] \in Endings PROVE WillSettle(p)'
  BY <1>1, <1>3, <1>4, <1>6, ConcatOfKind DEF WillSettle
<1>7. ASSUME messages[Len(messages)] \in Starts PROVE WillOffer(p)'
  BY <1>1, <1>3, <1>4, <1>7, ConcatOfKind DEF WillOffer
<1>8. ASSUME state' = state, shown' = shown, WillShow(p) PROVE WillShow(p)'
  BY <1>1, <1>3, <1>5, <1>8, ConcatOfOther DEF WillShow
<1> QED
  BY <1>6, <1>7, <1>8

(* So phrased by the session. *)
LEMMA Said ==
  ASSUME TypeOK, NEW phases \in Seq(Phases), phases # <<>>, Says(phases)
  PROVE  /\ inbox' \in [Pages -> Seq(Messages)]
         /\ clients' \subseteq Connections
         /\ UNCHANGED <<state, lastJson, shown, panels>>
         /\ \A p \in Pages : Connected(p)' <=> Connected(p)
         /\ \A p \in Pages : Connected(p) =>
              /\ phases[Len(phases)] \in Terminal => WillSettle(p)'
              /\ phases[Len(phases)] \in Starting => WillOffer(p)'
              /\ WillShow(p) => WillShow(p)'
<1> DEFINE m == [i \in DOMAIN phases |-> OfPhase(phases[i])]
<1>1. /\ m \in Seq(PhaseMessages) /\ m # <<>>
      /\ m[Len(m)] = OfPhase(phases[Len(phases)])
  BY Telling
<1>2. Broadcast(m) /\ UNCHANGED <<state, lastJson, shown, panels>>
  BY DEF Says
<1>3. /\ phases[Len(phases)] \in Terminal => m[Len(m)] \in Endings
      /\ phases[Len(phases)] \in Starting => m[Len(m)] \in Starts
  BY <1>1 DEF Endings, Starts
<1> HIDE DEF m
<1> QED
  BY <1>1, <1>2, <1>3, Told

(* The state is told, or it has been. *)
LEMMA StateTold ==
  ASSUME TypeOK, CurrentInv, state' \in States, BroadcastState(state'),
         UNCHANGED <<shown, panels>>
  PROVE  /\ inbox' \in [Pages -> Seq(Messages)]
         /\ clients' \subseteq Connections
         /\ lastJson' \subseteq {state'}
         /\ \A p \in Pages : Connected(p)' <=> Connected(p)
         /\ \A p \in Pages : Connected(p) =>
              /\ WillShow(p)'
              /\ WillSettle(p) => WillSettle(p)'
              /\ WillOffer(p) => WillOffer(p)'
<1>1. CASE SameJson(state') /\ UNCHANGED <<lastJson, clients, inbox>>
  <2>1. state' = state
    BY <1>1 DEF SameJson, CurrentInv
  <2> QED
    BY <1>1, <2>1
    DEF TypeOK, CurrentInv, Connected, WillShow, WillSettle, WillOffer, panels
<1>2. CASE lastJson' = {state'} /\ Broadcast(<<OfState(state')>>)
  <2> DEFINE m == OfState(state')
  <2>1. m \in Messages /\ m \in StateMessages /\ m \notin PhaseMessages
    BY MessageKinds DEF Messages
  <2> HIDE DEF m
  <2>2. <<m>> \in Seq(Messages)
    BY <2>1
  <2>3. Broadcast(<<m>>)
    BY <1>2 DEF m
  <2>4. /\ inbox' \in [Pages -> Seq(Messages)]
        /\ clients' \subseteq Connections
        /\ \A p \in Pages :
             /\ Connected(p)' <=> Connected(p)
             /\ Connected(p) => inbox'[p] = inbox[p] \o <<m>>
    BY <2>2, <2>3, Broadcasts
  <2>5. ASSUME NEW p \in Pages, Connected(p)
        PROVE  /\ WillShow(p)'
               /\ WillSettle(p) => WillSettle(p)'
               /\ WillOffer(p) => WillOffer(p)'
    <3>1. inbox[p] \in Seq(Messages) /\ inbox'[p] = Append(inbox[p], m)
      BY <2>1, <2>4, <2>5, ConcatOne DEF TypeOK
    <3>2. WillShow(p)'
      <4>1. LastIn(inbox'[p], StateMessages, {m})
        BY <2>1, <3>1, AppendOfKind
      <4>2. ~NoneIn(inbox'[p], StateMessages)
        BY <2>1, <3>1, AppendElements DEF NoneIn
      <4> QED
        BY <4>1, <4>2 DEF WillShow, m
    <3>3. /\ WillSettle(p) => WillSettle(p)'
          /\ WillOffer(p) => WillOffer(p)'
      BY <2>1, <3>1, AppendOfOther DEF WillSettle, WillOffer, panels
    <3> QED
      BY <3>2, <3>3
  <2> QED
    BY <1>2, <2>4, <2>5
<1> QED
  BY <1>1, <1>2 DEF BroadcastState

(* A page takes its first message. *)
LEMMA Taken ==
  ASSUME TypeOK, NEW p \in Pages, Takes(p)
  PROVE  /\ inbox' \in [Pages -> Seq(Messages)]
         /\ inbox[p] \in Seq(Messages) /\ inbox[p] # <<>> /\ Message(p) \in Messages
         /\ inbox'[p] = Tail(inbox[p])
         /\ \A q \in Pages : q # p => inbox'[q] = inbox[q]
<1>1. inbox[p] \in Seq(Messages) /\ inbox[p] # <<>>
  BY DEF TypeOK, Takes
<1>2. Head(inbox[p]) \in Messages /\ Tail(inbox[p]) \in Seq(Messages)
  BY <1>1, TailElements
<1> QED
  BY <1>1, <1>2 DEF TypeOK, Takes, Message

-----------------------------------------------------------------------------
(* Types. *)

(* The first state is well typed.                                          *)
LEMMA InitType == Init => TypeOK
  BY EmptySeq DEF Init, TypeOK, States, Units

(* A session moves through its stages. *)
LEMMA StageType ==
  ASSUME TypeOK, Session
  PROVE  /\ stage' \in {"idle", "begun", "between", "tuning", "step", "failing",
                        "after"}
         /\ asked' \subseteq Pages /\ hearing' \subseteq Pages
         /\ UNCHANGED <<state, lastJson, shown, sweeping, stale>>
  BY DEF TypeOK, Session, Request, Requests, SweepStarts, CycleStarts, CycleSucceeds,
         CycleFails, CarrierOffFails, Ends, GiveBackFails, Released, Moves, Says,
         InCycle, panels, server

(* What a session says, if anything. *)
LEMMA SessionSays ==
  ASSUME TypeOK, Session
  PROVE  \/ UNCHANGED <<inbox, clients>>
         \/ Broadcast(<<OfPhase("FAIL")>>)
         \/ \E phases \in Seq(Phases) : phases # <<>> /\ Says(phases)
<1>1. /\ \A a \in Phases : <<a>> \in Seq(Phases) /\ <<a>> # <<>>
      /\ \A a, b \in Phases : <<a, b>> \in Seq(Phases) /\ <<a, b>> # <<>>
  OBVIOUS
<1>2. /\ "FAIL" \in Phases /\ "ABORT" \in Phases /\ "STARTED" \in Phases
      /\ "SWEEP_STARTED" \in Phases /\ "SUCCESS" \in Phases /\ "SWEEP_DONE" \in Phases
  BY DEF Phases, Starting, Terminal
<1>3. CASE Request \/ Released
  BY <1>3 DEF Request, Requests, Released, server
<1>4. CASE CycleFails
  BY <1>1, <1>2, <1>4 DEF CycleFails
<1>5. CASE Ends
  BY <1>1, <1>2, <1>5 DEF Ends
<1>6. CASE \/ SweepStarts \/ CycleStarts \/ CycleSucceeds
           \/ CarrierOffFails \/ GiveBackFails
  BY <1>1, <1>2, <1>6
  DEF SweepStarts, CycleStarts, CycleSucceeds, CarrierOffFails, GiveBackFails
<1> QED
  BY <1>3, <1>4, <1>5, <1>6 DEF Session

(* The refusal of a request is one phase. *)
LEMMA Refusal ==
  LET m == <<OfPhase("FAIL")>>
  IN  m \in Seq(PhaseMessages) /\ m # <<>> /\ m[Len(m)] \in Endings
<1>1. OfPhase("FAIL") \in PhaseMessages /\ OfPhase("FAIL") \in Endings
  BY DEF PhaseMessages, Phases, Terminal, Endings
<1> QED
  BY <1>1

(* A step of the session writes to connected pages only, and what a page   *)
(* will show stays something it was sent.                                  *)
LEMMA SessionType ==
  ASSUME TypeOK, Session
  PROVE  /\ inbox' \in [Pages -> Seq(Messages)]
         /\ clients' \subseteq Connections
         /\ \A p \in Pages : Connected(p)' <=> Connected(p)
         /\ \A p \in Pages : Connected(p) /\ WillShow(p) => WillShow(p)'
<1>1. UNCHANGED <<state, shown>>
  BY StageType
<1>2. CASE UNCHANGED <<inbox, clients>>
  BY <1>1, <1>2 DEF TypeOK, Connected, WillShow
<1>3. CASE Broadcast(<<OfPhase("FAIL")>>)
  BY <1>1, <1>3, Refusal, Told
<1>4. CASE \E phases \in Seq(Phases) : phases # <<>> /\ Says(phases)
  BY <1>4, Said
<1> QED
  BY <1>2, <1>3, <1>4, SessionSays

(* Every step keeps the types.                                             *)
LEMMA NextType == TypeOK /\ CurrentInv /\ [Next]_vars => TypeOK'
<1> SUFFICES ASSUME TypeOK, CurrentInv, [Next]_vars PROVE TypeOK'
  OBVIOUS
<1> USE DEF server, panels
<1>1. ASSUME state' \in States, BroadcastState(state'),
             UNCHANGED <<shown, panels, stage, hearing>>
      PROVE  TypeOK'
  <2>1. /\ inbox' \in [Pages -> Seq(Messages)]
        /\ clients' \subseteq Connections
        /\ lastJson' \subseteq {state'}
    BY <1>1, StateTold
  <2> QED
    BY <1>1, <2>1 DEF TypeOK
<1>2. ASSUME NEW r \in Readings, StatusFrame(r) PROVE TypeOK'
  <2>1. state' \in States
    BY <1>2 DEF StatusFrame, TypeOK, States
  <2> QED
    BY <1>1, <1>2, <2>1 DEF StatusFrame
<1>3. ASSUME NEW u \in Units, SetUnit(u) PROVE TypeOK'
  <2>1. state' \in States
    BY <1>3 DEF SetUnit, TypeOK, States
  <2> QED
    BY <1>1, <1>3, <2>1 DEF SetUnit
<1>4. ASSUME NEW p \in Pages, Open(p) PROVE TypeOK'
  <2>1. <<OfState(state)>> \in Seq(Messages)
    BY MessageKinds DEF TypeOK, Messages
  <2>2. inbox' \in [Pages -> Seq(Messages)]
    BY <1>4, <2>1 DEF Open, TypeOK
  <2>3. clients' \subseteq Connections
    BY <1>4, TwoConnections DEF Open, TypeOK
  <2> QED
    BY <1>4, <2>2, <2>3 DEF Open, TypeOK
<1>5. ASSUME NEW p \in Pages, Lose(p) PROVE TypeOK'
  <2>1. inbox' \in [Pages -> Seq(Messages)]
    BY <1>5, EmptySeq DEF Lose, TypeOK
  <2>2. clients' \subseteq Connections
    BY <1>5, TwoConnections DEF Lose, TypeOK
  <2>3. asked' \subseteq Pages /\ stale' \subseteq Pages /\ hearing' \subseteq Pages
    BY <1>5 DEF Lose, TypeOK
  <2> QED
    BY <1>5, <2>1, <2>2, <2>3 DEF Lose, TypeOK
<1>6. ASSUME NEW p \in Pages, ShowState(p) PROVE TypeOK'
  <2>1. Message(p).states \subseteq States
    <3>1. Message(p) \in StateMessages
      BY <1>6, Taken, MessageKinds DEF ShowState
    <3> QED
      BY <3>1, MessageKinds DEF StateMessages
  <2>2. inbox' \in [Pages -> Seq(Messages)]
    BY <1>6, Taken DEF ShowState
  <2> QED
    BY <1>6, <2>1, <2>2 DEF ShowState, TypeOK
<1>7. ASSUME NEW p \in Pages, HandleTuneEvent(p) PROVE TypeOK'
  <2>1. inbox' \in [Pages -> Seq(Messages)]
    BY <1>7, Taken DEF HandleTuneEvent
  <2>2. sweeping' \subseteq Pages /\ stale' \subseteq Pages
    BY <1>7 DEF HandleTuneEvent, PanelAfter, TypeOK
  <2> QED
    BY <1>7, <2>1, <2>2 DEF HandleTuneEvent, TypeOK
<1>8. ASSUME NEW p \in Pages, ClickStart(p) PROVE TypeOK'
  <2>1. sweeping' \subseteq Pages /\ asked' \subseteq Pages /\ stale' \subseteq Pages
    BY <1>8 DEF ClickStart, TypeOK
  <2> QED
    BY <1>8, <2>1 DEF ClickStart, TypeOK
<1>9. CASE OnClose
  BY <1>9 DEF OnClose, TypeOK
<1>10. CASE Session
  BY <1>10, StageType, SessionType DEF TypeOK
<1>11. CASE UNCHANGED vars
  BY <1>11 DEF vars, TypeOK
<1> QED
  BY <1>2, <1>3, <1>4, <1>5, <1>6, <1>7, <1>8, <1>9, <1>10, <1>11 DEF Next

-----------------------------------------------------------------------------
(* Who is connected, and what a page takes. *)

(* Connections come and go one at a time. *)
LEMMA Connects ==
  ASSUME NEW p \in Pages, NEW q \in Pages
  PROVE  /\ Open(p) => (Connected(q)' <=> Connected(q) \/ q = p)
         /\ Lose(p) => (Connected(q)' <=> Connected(q) /\ q # p)
         /\ OnClose => (Connected(q)' <=> Connected(q))
<1>1. Open(p) => (Connected(q)' <=> Connected(q) \/ q = p)
  BY TwoConnections DEF Open, Connected
<1>2. Lose(p) => (Connected(q)' <=> Connected(q) /\ q # p)
  BY TwoConnections DEF Lose, Connected
<1>3. OnClose => (Connected(q)' <=> Connected(q))
  BY DEF OnClose, Connected, Connection
<1> QED
  BY <1>1, <1>2, <1>3

(* The last message of a kind is as good behind the one that was taken.    *)
LEMMA TakenKind ==
  ASSUME TypeOK, NEW p \in Pages, Takes(p), NEW kind, NEW good,
         LastIn(inbox[p], kind, good)
  PROVE  /\ LastIn(inbox'[p], kind, good)
         /\ NoneIn(inbox'[p], kind) =>
              IF Message(p) \in kind THEN Message(p) \in good
              ELSE NoneIn(inbox[p], kind)
  BY Taken, TailOfKind DEF Message

(* The panel after a phase was taken. *)
LEMMA PanelTaken ==
  ASSUME TypeOK, NEW p \in Pages, HandleTuneEvent(p)
  PROVE  /\ Message(p) \in PhaseMessages /\ Message(p) \notin StateMessages
         /\ Message(p) \in Starts => p \in sweeping'
         /\ Message(p) \in Endings => p \notin sweeping'
         /\ \A q \in Pages : q # p => /\ q \in sweeping' <=> q \in sweeping
                                      /\ q \in stale' <=> q \in stale
<1>1. PICK phase \in Message(p).phases : sweeping' = PanelAfter(p, phase)
  BY DEF HandleTuneEvent
<1>2. Message(p) \in PhaseMessages /\ Message(p) \notin StateMessages
  BY <1>1, Taken, MessageKinds DEF HandleTuneEvent
<1>3. Message(p) \in Starts => phase \in Starting
  BY <1>1, MessageKinds DEF Starts, Phases
<1>4. Message(p) \in Endings => phase \in Terminal /\ phase \notin Starting
  BY <1>1, MessageKinds DEF Endings, Phases
<1> QED
  BY <1>1, <1>2, <1>3, <1>4 DEF PanelAfter, HandleTuneEvent

-----------------------------------------------------------------------------
(* What the pages show. *)

(* Every step leaves each connected page, once it has read its inbox, with *)
(* the last state broadcast.                                               *)
LEMMA NextCurrent == TypeOK /\ CurrentInv /\ [Next]_vars => CurrentInv'
<1> SUFFICES ASSUME TypeOK, CurrentInv, [Next]_vars PROVE CurrentInv'
  OBVIOUS
<1> USE DEF server, panels
<1>1. ASSUME state' \in States, BroadcastState(state'), UNCHANGED <<shown, panels>>
      PROVE  CurrentInv'
  BY <1>1, StateTold DEF CurrentInv
<1>2. ASSUME NEW r \in Readings, StatusFrame(r) PROVE CurrentInv'
  <2>1. state' \in States
    BY <1>2 DEF StatusFrame, TypeOK, States
  <2> QED
    BY <1>1, <1>2, <2>1 DEF StatusFrame
<1>3. ASSUME NEW u \in Units, SetUnit(u) PROVE CurrentInv'
  <2>1. state' \in States
    BY <1>3 DEF SetUnit, TypeOK, States
  <2> QED
    BY <1>1, <1>3, <2>1 DEF SetUnit
<1>4. ASSUME NEW p \in Pages, Open(p) PROVE CurrentInv'
  <2>1. UNCHANGED <<state, lastJson, shown>> /\ inbox'[p] = <<OfState(state)>>
    BY <1>4 DEF Open, TypeOK
  <2>2. WillShow(p)'
    <3> DEFINE m == OfState(state)
    <3>1. m \in StateMessages
      BY MessageKinds DEF TypeOK
    <3> HIDE DEF m
    <3>2. inbox'[p] = <<m>>
      BY <2>1 DEF m
    <3>3. 1 \in DOMAIN <<m>> /\ <<m>>[1] = m /\ \A i \in DOMAIN <<m>> : <<m>>[i] = m
      OBVIOUS
    <3> QED
      BY <2>1, <3>1, <3>2, <3>3 DEF WillShow, LastIn, NoneIn, m
  <2>3. \A q \in Pages : q # p => inbox'[q] = inbox[q]
    BY <1>4 DEF Open, TypeOK
  <2> QED
    BY <1>4, <2>1, <2>2, <2>3, Connects DEF CurrentInv, WillShow
<1>5. ASSUME NEW p \in Pages, Lose(p) PROVE CurrentInv'
  <2>1. UNCHANGED <<state, lastJson, shown>>
    BY <1>5 DEF Lose
  <2>2. \A q \in Pages : q # p => inbox'[q] = inbox[q]
    BY <1>5 DEF Lose, TypeOK
  <2> QED
    BY <1>5, <2>1, <2>2, Connects DEF CurrentInv, WillShow
<1>6. ASSUME NEW p \in Pages, ShowState(p) PROVE CurrentInv'
  <2>1. /\ Takes(p) /\ UNCHANGED <<state, lastJson, clients>>
        /\ shown' = [shown EXCEPT ![p] = Message(p).states]
    BY <1>6 DEF ShowState
  <2>2. Message(p) \in StateMessages /\ \A q \in Pages : q # p => inbox'[q] = inbox[q]
    BY <1>6, <2>1, Taken, MessageKinds DEF ShowState
  <2>3. Connected(p) /\ WillShow(p)
    BY <2>1 DEF Takes, CurrentInv
  <2>4. /\ LastIn(inbox'[p], StateMessages, {OfState(state)})
        /\ NoneIn(inbox'[p], StateMessages) => Message(p) = OfState(state)
    BY <2>1, <2>2, <2>3, TakenKind DEF WillShow
  <2>5. /\ shown'[p] = Message(p).states
        /\ \A q \in Pages : q # p => shown'[q] = shown[q]
    BY <2>1 DEF TypeOK
  <2>6. OfState(state).states = {state}
    BY DEF OfState
  <2>7. WillShow(p)'
    BY <2>1, <2>4, <2>5, <2>6 DEF WillShow
  <2> QED
    BY <2>1, <2>2, <2>5, <2>7 DEF CurrentInv, WillShow, Connected
<1>7. ASSUME NEW p \in Pages, HandleTuneEvent(p) PROVE CurrentInv'
  <2>1. Takes(p) /\ UNCHANGED <<state, lastJson, clients, shown>>
    BY <1>7 DEF HandleTuneEvent
  <2>2. /\ Message(p) \notin StateMessages
        /\ \A q \in Pages : q # p => inbox'[q] = inbox[q]
    BY <1>7, <2>1, Taken, PanelTaken
  <2>3. Connected(p) /\ WillShow(p)
    BY <2>1 DEF Takes, CurrentInv
  <2>4. /\ LastIn(inbox'[p], StateMessages, {OfState(state)})
        /\ NoneIn(inbox'[p], StateMessages) => NoneIn(inbox[p], StateMessages)
    BY <2>1, <2>2, <2>3, TakenKind DEF WillShow
  <2> QED
    BY <2>1, <2>2, <2>3, <2>4 DEF CurrentInv, WillShow, Connected
<1>8. ASSUME NEW p \in Pages, ClickStart(p) PROVE CurrentInv'
  BY <1>8 DEF ClickStart, CurrentInv, WillShow, Connected
<1>9. CASE OnClose
  BY <1>9, Connects DEF OnClose, CurrentInv, WillShow
<1>10. CASE Session
  BY <1>10, StageType, SessionType DEF CurrentInv
<1>11. CASE UNCHANGED vars
  BY <1>11 DEF vars, CurrentInv, WillShow, Connected
<1> QED
  BY <1>2, <1>3, <1>4, <1>5, <1>6, <1>7, <1>8, <1>9, <1>10, <1>11 DEF Next

(* Without pages nobody is behind.                                         *)
LEMMA InitCurrent == Init => CurrentInv
  BY DEF Init, CurrentInv, Connected

(* Every variable keeps its type. *)
THEOREM TypeCorrect == Spec => []TypeOK
  BY InitType, NextType, InitCurrent, NextCurrent, PTL DEF Spec

(* What is not sent because it is what was sent last is what every page    *)
(* shows or is going to: no page is left with an older state, or the old   *)
(* unit.                                                                   *)
THEOREM PagesCurrent == Spec => []PageIsCurrent
<1>1. CurrentInv => PageIsCurrent
  BY EmptyQueue DEF CurrentInv, PageIsCurrent, UpToDate, WillShow
<1> QED
  BY <1>1, InitType, NextType, InitCurrent, NextCurrent, PTL DEF Spec

-----------------------------------------------------------------------------
(* The panel. *)

(* Before the first session every panel is released.                       *)
LEMMA InitPanel == Init => PanelInv /\ StopInv
  BY DEF Init, PanelInv, StopInv, Connected

(* Every step leaves each panel on its way to being released when the      *)
(* session is over.                                                        *)
LEMMA NextPanel == TypeOK /\ CurrentInv /\ PanelInv /\ [Next]_vars => PanelInv'
<1> SUFFICES ASSUME TypeOK, CurrentInv, PanelInv, [Next]_vars PROVE PanelInv'
  OBVIOUS
<1> USE DEF server, panels
<1>1. ASSUME state' \in States, BroadcastState(state'),
             UNCHANGED <<shown, panels, stage>>
      PROVE  PanelInv'
  BY <1>1, StateTold DEF PanelInv
<1>2. ASSUME NEW r \in Readings, StatusFrame(r) PROVE PanelInv'
  <2>1. state' \in States
    BY <1>2 DEF StatusFrame, TypeOK, States
  <2> QED
    BY <1>1, <1>2, <2>1 DEF StatusFrame
<1>3. ASSUME NEW u \in Units, SetUnit(u) PROVE PanelInv'
  <2>1. state' \in States
    BY <1>3 DEF SetUnit, TypeOK, States
  <2> QED
    BY <1>1, <1>3, <2>1 DEF SetUnit
<1>4. ASSUME NEW p \in Pages, Open(p) PROVE PanelInv'
  <2>1. /\ UNCHANGED <<panels, stage>> /\ ~Connected(p)
        /\ inbox'[p] = <<OfState(state)>>
        /\ \A q \in Pages : q # p => inbox'[q] = inbox[q]
    BY <1>4 DEF Open, TypeOK
  <2>2. NoneIn(inbox'[p], PhaseMessages)
    BY <2>1, MessageKinds DEF TypeOK, NoneIn
  <2>3. WillSettle(p)'
    BY <2>1, <2>2, NoneHasNoLast DEF WillSettle, PanelInv
  <2> QED
    BY <1>4, <2>1, <2>3, Connects DEF PanelInv, WillSettle
<1>5. ASSUME NEW p \in Pages, Lose(p) PROVE PanelInv'
  <2>1. /\ UNCHANGED <<sweeping, stage>>
        /\ p \notin asked' /\ (p \in sweeping => p \in stale')
        /\ \A q \in Pages : q # p => /\ inbox'[q] = inbox[q]
                                     /\ q \in asked' <=> q \in asked
                                     /\ q \in stale' <=> q \in stale
    BY <1>5 DEF Lose, TypeOK
  <2> QED
    BY <1>5, <2>1, Connects DEF PanelInv, WillSettle
<1>6. ASSUME NEW p \in Pages, ShowState(p) PROVE PanelInv'
  <2>1. Takes(p) /\ UNCHANGED <<clients, panels, stage>>
    BY <1>6 DEF ShowState
  <2>2. /\ Message(p) \notin PhaseMessages
        /\ \A q \in Pages : q # p => inbox'[q] = inbox[q]
    BY <1>6, <2>1, Taken, MessageKinds DEF ShowState
  <2>3. WillSettle(p) => WillSettle(p)'
    BY <2>1, <2>2, TakenKind DEF WillSettle
  <2> QED
    BY <2>1, <2>2, <2>3 DEF PanelInv, WillSettle, Connected
<1>7. ASSUME NEW p \in Pages, HandleTuneEvent(p) PROVE PanelInv'
  <2>1. Takes(p) /\ Connected(p) /\ UNCHANGED <<clients, asked, stage>>
    BY <1>7 DEF HandleTuneEvent, Takes
  <2>2. \A q \in Pages : q # p => inbox'[q] = inbox[q]
    BY <2>1, Taken
  <2>3. WillSettle(p) => WillSettle(p)'
    BY <1>7, <2>1, TakenKind, PanelTaken DEF WillSettle
  <2> QED
    BY <1>7, <2>1, <2>2, <2>3, PanelTaken DEF PanelInv, WillSettle, Connected
<1>8. ASSUME NEW p \in Pages, ClickStart(p) PROVE PanelInv'
  BY <1>8 DEF ClickStart, PanelInv, WillSettle, Connected
<1>9. CASE OnClose
  BY <1>9, Connects DEF OnClose, PanelInv, WillSettle
<1>10. CASE Session
  <2>1. /\ \A p \in Pages : Connected(p)' <=> Connected(p)
        /\ UNCHANGED <<sweeping, stale>> /\ asked' \subseteq asked
    BY <1>10, StageType, SessionType
    DEF Session, Request, Requests, SweepStarts, CycleStarts, CycleSucceeds,
        CycleFails, CarrierOffFails, Ends, GiveBackFails, Released, Says
  <2>2. ASSUME stage' \in {"idle", "after"}, NEW p \in Pages, Connected(p)
        PROVE  WillSettle(p)'
    <3>1. CASE Request
      <4>1. Broadcast(<<OfPhase("FAIL")>>)
        BY <2>2, <3>1 DEF Request, Requests, Moves
      <4> QED
        BY <2>2, <4>1, Refusal, Told
    <3>2. ASSUME NEW phase \in Terminal, Says(<<phase>>) PROVE WillSettle(p)'
      <4>1. <<phase>> \in Seq(Phases) /\ <<phase>> # <<>> /\ Len(<<phase>>) = 1
            /\ <<phase>>[1] = phase
        BY DEF Phases
      <4> QED
        BY <2>2, <3>2, <4>1, Said
    <3>3. ASSUME Says(<<"FAIL", "FAIL">>) PROVE WillSettle(p)'
      <4>1. /\ <<"FAIL", "FAIL">> \in Seq(Phases) /\ <<"FAIL", "FAIL">> # <<>>
            /\ Len(<<"FAIL", "FAIL">>) = 2 /\ <<"FAIL", "FAIL">>[2] \in Terminal
        BY DEF Phases, Terminal
      <4> QED
        BY <2>2, <3>3, <4>1, Said
    <3>4. CASE CycleSucceeds \/ Ends \/ GiveBackFails
      BY <3>2, <3>3, <3>4 DEF CycleSucceeds, Ends, GiveBackFails, Terminal
    <3>5. CASE Released
      BY <2>2, <3>5 DEF Released, Moves, PanelInv, WillSettle, Connected
    <3> QED
      BY <1>10, <2>2, <3>1, <3>4, <3>5
      DEF Session, SweepStarts, CycleStarts, CycleFails, CarrierOffFails, Moves,
          InCycle
  <2> QED
    BY <2>1, <2>2 DEF PanelInv
<1>11. CASE UNCHANGED vars
  BY <1>11 DEF vars, PanelInv, WillSettle, Connected
<1> QED
  BY <1>2, <1>3, <1>4, <1>5, <1>6, <1>7, <1>8, <1>9, <1>10, <1>11 DEF Next

(* However a session ended, and whoever asked for it, no page that heard   *)
(* the end of it goes on waiting.                                          *)
THEOREM PanelsSettle == Spec => []PanelSettles
<1>1. PanelInv => PanelSettles
  BY EmptyQueue DEF PanelInv, PanelSettles, UpToDate, WillSettle
<1> QED
  BY <1>1, InitType, NextType, InitCurrent, NextCurrent, InitPanel, NextPanel, PTL
  DEF Spec

(* Every step leaves each page that follows the cycle with Stop, or with   *)
(* the phase that will offer it.                                           *)
LEMMA NextStop == TypeOK /\ CurrentInv /\ StopInv /\ [Next]_vars => StopInv'
<1> SUFFICES ASSUME TypeOK, CurrentInv, StopInv, [Next]_vars PROVE StopInv'
  OBVIOUS
<1> USE DEF server, panels
<1>0. hearing \subseteq Pages
  BY DEF TypeOK
<1>1. ASSUME state' \in States, BroadcastState(state'),
             UNCHANGED <<shown, panels, stage, hearing>>
      PROVE  StopInv'
  BY <1>0, <1>1, StateTold DEF StopInv
<1>2. ASSUME NEW r \in Readings, StatusFrame(r) PROVE StopInv'
  <2>1. state' \in States
    BY <1>2 DEF StatusFrame, TypeOK, States
  <2> QED
    BY <1>1, <1>2, <2>1 DEF StatusFrame
<1>3. ASSUME NEW u \in Units, SetUnit(u) PROVE StopInv'
  <2>1. state' \in States
    BY <1>3 DEF SetUnit, TypeOK, States
  <2> QED
    BY <1>1, <1>3, <2>1 DEF SetUnit
<1>4. ASSUME NEW p \in Pages, Open(p) PROVE StopInv'
  <2>1. /\ UNCHANGED <<sweeping, stage, hearing>> /\ p \notin hearing
        /\ \A q \in Pages : q # p => inbox'[q] = inbox[q]
    BY <1>4 DEF Open, TypeOK, StopInv
  <2> QED
    BY <1>0, <1>4, <2>1, Connects DEF StopInv, WillOffer
<1>5. ASSUME NEW p \in Pages, Lose(p) PROVE StopInv'
  <2>1. /\ UNCHANGED <<sweeping, stage>> /\ hearing' = hearing \ {p}
        /\ \A q \in Pages : q # p => inbox'[q] = inbox[q]
    BY <1>5 DEF Lose, TypeOK
  <2> QED
    BY <1>0, <1>5, <2>1, Connects DEF StopInv, WillOffer
<1>6. ASSUME NEW p \in Pages, ShowState(p) PROVE StopInv'
  <2>1. Takes(p) /\ UNCHANGED <<clients, sweeping, stage, hearing>>
    BY <1>6 DEF ShowState
  <2>2. /\ Message(p) \notin PhaseMessages
        /\ \A q \in Pages : q # p => inbox'[q] = inbox[q]
    BY <1>6, <2>1, Taken, MessageKinds DEF ShowState
  <2>3. WillOffer(p) => WillOffer(p)'
    BY <2>1, <2>2, TakenKind DEF WillOffer
  <2> QED
    BY <1>0, <2>1, <2>2, <2>3 DEF StopInv, WillOffer, Connected
<1>7. ASSUME NEW p \in Pages, HandleTuneEvent(p) PROVE StopInv'
  <2>1. Takes(p) /\ UNCHANGED <<clients, stage, hearing>>
    BY <1>7 DEF HandleTuneEvent
  <2>2. \A q \in Pages : q # p => inbox'[q] = inbox[q]
    BY <2>1, Taken
  <2>3. WillOffer(p) => WillOffer(p)'
    BY <1>7, <2>1, TakenKind, PanelTaken DEF WillOffer
  <2> QED
    BY <1>0, <1>7, <2>1, <2>2, <2>3, PanelTaken DEF StopInv, WillOffer, Connected
<1>8. ASSUME NEW p \in Pages, ClickStart(p) PROVE StopInv'
  BY <1>8 DEF ClickStart, StopInv, WillOffer, Connected
<1>9. CASE OnClose
  BY <1>0, <1>9, Connects DEF OnClose, StopInv, WillOffer
<1>10. CASE Session
  <2>1. \A p \in Pages : Connected(p)' <=> Connected(p)
    BY <1>10, SessionType
  <2>2. CASE CycleStarts
    <3>1. hearing' = {p \in Pages : Connected(p)} /\ Says(<<"STARTED">>)
      BY <2>2 DEF CycleStarts
    <3>2. /\ <<"STARTED">> \in Seq(Phases) /\ <<"STARTED">> # <<>>
          /\ Len(<<"STARTED">>) = 1 /\ <<"STARTED">>[1] \in Starting
      BY DEF Phases, Starting
    <3>3. \A p \in hearing' : WillOffer(p)'
      BY <3>1, <3>2, Said
    <3> QED
      BY <2>1, <3>1, <3>3 DEF StopInv
  <2>3. CASE hearing' = {}
    BY <2>3 DEF StopInv
  <2>4. CASE hearing' = hearing /\ stage' \notin InCycle
    BY <1>0, <2>1, <2>4 DEF StopInv
  <2> QED
    BY <1>10, <2>2, <2>3, <2>4
    DEF Session, Request, Requests, SweepStarts, CycleSucceeds, CycleFails,
        CarrierOffFails, Ends, GiveBackFails, Released, Moves, InCycle
<1>11. CASE UNCHANGED vars
  BY <1>11 DEF vars, StopInv, WillOffer, Connected
<1> QED
  BY <1>2, <1>3, <1>4, <1>5, <1>6, <1>7, <1>8, <1>9, <1>10, <1>11 DEF Next

(* Whoever follows a cycle can stop it, however far behind it is.          *)
THEOREM StopsOffered == Spec => []StopOffered
<1>1. StopInv => StopOffered
  BY EmptyQueue DEF StopInv, StopOffered, UpToDate, WillOffer
<1> QED
  BY <1>1, InitType, NextType, InitCurrent, NextCurrent, InitPanel, NextStop, PTL
  DEF Spec
=============================================================================
