---------------------------- MODULE SerialProofs ----------------------------
(***************************************************************************)
(* What is proved about the serial side of the server: the link and its    *)
(* queue of presses (SerialHandler), for any number of presses and any     *)
(* behaviour of the adapter; the frames that are found in the stream of    *)
(* bytes (FrameParser), for every payload, trailer, buffer and chunk; and  *)
(* what is made of them (AmpReadings), for every power, hold time, decay,  *)
(* threshold and interval.                                                 *)
(*                                                                         *)
(* The parser is a recursive function of the stream.  That it is defined,  *)
(* and what it computes, takes the induction of DataLemmas.                *)
(***************************************************************************)
EXTENDS SerialHandler, FrameParser, AmpReadings, DataLemmas

-----------------------------------------------------------------------------
(* Queues. *)

(* Taking the head of a queue shifts what is left. *)
LEMMA TailOfQueue ==
  ASSUME NEW q \in Seq(Command), q # <<>>
  PROVE  /\ Head(q) \in Command /\ Head(q) = q[1]
         /\ Tail(q) \in Seq(Command)
         /\ 1 \in DOMAIN q
         /\ \A i \in DOMAIN Tail(q) : i + 1 \in DOMAIN q /\ Tail(q)[i] = q[i + 1]
  OBVIOUS

(* A command that is added is the last one; the others keep their place.   *)
LEMMA AppendToQueue ==
  ASSUME NEW q \in Seq(Command), NEW c \in Command
  PROVE  /\ Append(q, c) \in Seq(Command)
         /\ \A i \in DOMAIN Append(q, c) :
              \/ i \in DOMAIN q /\ Append(q, c)[i] = q[i]
              \/ i = Len(q) + 1 /\ Append(q, c)[i] = c
  OBVIOUS

(* Carrying a queue over to a new port changes nothing but the mark.       *)
LEMMA CarriedQueue ==
  ASSUME NEW q \in Seq(Command)
  PROVE  /\ Carried(q) \in Seq(Command)
         /\ DOMAIN Carried(q) = DOMAIN q
         /\ \A i \in DOMAIN q : /\ Carried(q)[i] \in Command
                                /\ Carried(q)[i].n = q[i].n
                                /\ Carried(q)[i].up = q[i].up
  <1>1. DOMAIN Carried(q) = DOMAIN q  BY DEF Carried
  <1>2. \A i \in DOMAIN q : q[i] \in Command  OBVIOUS
  <1>3. \A i \in DOMAIN q : Carried(q)[i] = [q[i] EXCEPT !.carried = TRUE]
    BY DEF Carried
  <1>4. \A i \in DOMAIN q : /\ Carried(q)[i] \in Command
                            /\ Carried(q)[i].n = q[i].n
                            /\ Carried(q)[i].up = q[i].up
    BY <1>2, <1>3 DEF Command
  <1>5. Carried(q) \in Seq(Command)
    <2>1. DOMAIN q = 1 .. Len(q)  OBVIOUS
    <2>2. Carried(q) \in [1 .. Len(q) -> Command]  BY <2>1, <1>4 DEF Carried
    <2> QED  BY <2>2
  <1> QED  BY <1>1, <1>4, <1>5

-----------------------------------------------------------------------------
(* Types. *)

(* The handler is built with every variable of its type.                   *)
LEMMA InitType == Init => TypeOK
  <1>1. <<>> \in Seq(Command)  OBVIOUS
  <1> SUFFICES ASSUME Init PROVE TypeOK  OBVIOUS
  <1>2. adapter \in [plugged : BOOLEAN, good : BOOLEAN]  BY DEF Init
  <1>3. wire \in Command  BY DEF Init, Command
  <1> QED  BY <1>1, <1>2, <1>3 DEF Init, TypeOK

(* No step takes a variable out of its type.                               *)
LEMMA NextType == TypeOK /\ [Next]_vars => TypeOK'
  <1> SUFFICES ASSUME TypeOK, [Next]_vars PROVE TypeOK'  OBVIOUS
  <1> USE DEF TypeOK
  <1>0. <<>> \in Seq(Command)  OBVIOUS
  <1>1. CASE Press
    <2> DEFINE c == [n |-> pressed + 1, up |-> CanWrite, carried |-> FALSE]
    <2>1. c \in Command  BY DEF Command, CanWrite
    <2>2. queue' \in Seq(Command)  BY <1>1, <2>1, AppendToQueue DEF Press
    <2> QED  BY <1>1, <2>2 DEF Press
  <1>2. CASE OpenPort
    BY <1>2, CarriedQueue DEF OpenPort
  <1>3. CASE OpenFails  BY <1>0, <1>3 DEF OpenFails, Teardown
  <1>4. CASE ServingEnds  BY <1>4 DEF ServingEnds
  <1>5. CASE Closes  BY <1>0, <1>5 DEF Closes, Teardown
  <1>6. CASE PauseOver  BY <1>6 DEF PauseOver
  <1>7. CASE Cancel  BY <1>0, <1>7 DEF Cancel, Teardown
  <1>8. CASE Stop
    <2>1. rcu' \in BOOLEAN  BY <1>8 DEF Stop, WritesRcu
    <2> QED  BY <1>0, <1>8, <2>1 DEF Stop, Teardown
  <1>9. CASE WriteCommand
    BY <1>9, TailOfQueue DEF WriteCommand, Writes
  <1>10. CASE RcuTick
    <2>1. rcu' \in BOOLEAN  BY <1>10 DEF RcuTick, WritesRcu
    <2> QED  BY <1>10, <2>1 DEF RcuTick
  <1>11. CASE Reader
    BY <1>11 DEF Reader, ReaderFails, ReaderStops, SignalDisconnect
  <1>12. CASE Unplug \/ Replug
    <2>1. CASE Unplug  BY <2>1 DEF Unplug
    <2>2. CASE Replug
      <3>1. adapter' \in [plugged : BOOLEAN, good : BOOLEAN]
        BY <2>2 DEF Replug
      <3> QED  BY <2>2, <3>1 DEF Replug
    <2> QED  BY <1>12, <2>1, <2>2
  <1>13. CASE UNCHANGED vars  BY <1>13 DEF vars
  <1> QED
    BY <1>1, <1>2, <1>3, <1>4, <1>5, <1>6, <1>7, <1>8, <1>9, <1>10, <1>11,
       <1>12, <1>13 DEF Next, Start

(* Every variable keeps its type. *)
THEOREM TypeCorrect == Spec => []TypeOK
  <1> QED  BY InitType, NextType, PTL DEF Spec

-----------------------------------------------------------------------------
(* Silence after stop(). *)

(* A stopped handler holds no port, and start() opens one only while it    *)
(* runs: this is what keeps the tasks that are still there from writing.   *)
StoppedHasNoPort == ~running => port = "none"

(* No step of a stopped handler opens a port.                              *)
LEMMA NextStopped == StoppedHasNoPort /\ [Next]_vars => StoppedHasNoPort'
  <1> SUFFICES ASSUME StoppedHasNoPort, [Next]_vars PROVE StoppedHasNoPort'
    OBVIOUS
  <1> USE DEF StoppedHasNoPort
  <1>1. CASE Start
    <2>1. CASE OpenPort  BY <2>1 DEF OpenPort
    <2>2. CASE OpenFails \/ Closes  BY <2>2 DEF OpenFails, Closes, Teardown
    <2>3. CASE ServingEnds \/ PauseOver  BY <2>3 DEF ServingEnds, PauseOver
    <2> QED  BY <1>1, <2>1, <2>2, <2>3 DEF Start
  <1>2. CASE Stop \/ Cancel  BY <1>2 DEF Stop, Cancel, Teardown
  <1>3. CASE Reader
    BY <1>3 DEF Reader, ReaderFails, ReaderStops, SignalDisconnect, CanWrite
  <1>4. CASE Press \/ WriteCommand \/ RcuTick \/ Unplug \/ Replug
    BY <1>4 DEF Press, WriteCommand, RcuTick, Unplug, Replug
  <1>5. CASE UNCHANGED vars  BY <1>5 DEF vars
  <1> QED  BY <1>1, <1>2, <1>3, <1>4, <1>5 DEF Next

(* Without a port, no step writes to the amplifier.                        *)
LEMMA StoppedIsSilent ==
  StoppedHasNoPort /\ [Next]_vars => (~running => UNCHANGED <<rcu, wire>>)
  <1> SUFFICES ASSUME StoppedHasNoPort, [Next]_vars, ~running
               PROVE  UNCHANGED <<rcu, wire>>
    OBVIOUS
  <1>1. ~Reaches  BY DEF StoppedHasNoPort, Reaches, CanWrite
  <1>2. CASE Start
    BY <1>2 DEF Start, OpenPort, OpenFails, ServingEnds, Closes, PauseOver
  <1>3. CASE WriteCommand \/ RcuTick
    BY <1>1, <1>3 DEF WriteCommand, RcuTick, Writes, WritesRcu
  <1>4. CASE Press \/ Stop \/ Cancel \/ Unplug \/ Replug
    BY <1>4 DEF Press, Stop, Cancel, Unplug, Replug
  <1>5. CASE Reader
    BY <1>5 DEF Reader, ReaderFails, ReaderStops, SignalDisconnect
  <1>6. CASE UNCHANGED vars  BY <1>6 DEF vars
  <1> QED  BY <1>2, <1>3, <1>4, <1>5, <1>6 DEF Next

(* Once stop() was called, nothing more reaches the amplifier.             *)
THEOREM StopIsSilent == Spec => SilentAfterStop
  <1>1. Init => StoppedHasNoPort  BY DEF Init, StoppedHasNoPort
  <1>2. StoppedHasNoPort /\ [Next]_vars => [~running => UNCHANGED <<rcu, wire>>]_vars
    BY StoppedIsSilent
  <1> QED  BY <1>1, <1>2, NextStopped, PTL DEF Spec, SilentAfterStop

-----------------------------------------------------------------------------
(* Presses and ports. *)

(* What makes PressDiesWithPort inductive: while start() is between two    *)
(* ports there is none, and without a port nothing in the queue was queued *)
(* for one.                                                                *)
PortInv ==
  /\ main = "closed" => port = "none"
  /\ port = "none" => \A i \in DOMAIN queue : ~queue[i].up
  /\ PressDiesWithPort

(* The handler is built with no port and an empty queue.                   *)
LEMMA InitPort == Init => PortInv
  BY DEF Init, PortInv, PressDiesWithPort

(* No step carries a command that was queued for a port to a later one.    *)
LEMMA NextPort == TypeOK /\ PortInv /\ [Next]_vars => PortInv'
  <1> SUFFICES ASSUME TypeOK, PortInv, [Next]_vars PROVE PortInv'  OBVIOUS
  <1> USE DEF PortInv, PressDiesWithPort
  <1>1. CASE Press
    <2> DEFINE c == [n |-> pressed + 1, up |-> CanWrite, carried |-> FALSE]
    <2>1. c \in Command /\ c.up = CanWrite /\ c.carried = FALSE
      BY DEF Command, CanWrite, TypeOK
    <2>2. queue' = Append(queue, c) /\ port' = port /\ main' = main
      BY <1>1 DEF Press
    <2>3. \A i \in DOMAIN queue' : \/ i \in DOMAIN queue /\ queue'[i] = queue[i]
                                   \/ queue'[i] = c
      BY <2>1, <2>2, AppendToQueue DEF TypeOK
    <2> QED  BY <2>1, <2>2, <2>3 DEF CanWrite
  <1>2. CASE OpenPort
    <2>1. \A i \in DOMAIN queue : ~queue[i].up  BY <1>2 DEF OpenPort
    <2>2. DOMAIN queue' = DOMAIN queue
          /\ \A i \in DOMAIN queue : queue'[i].up = queue[i].up
      BY <1>2, CarriedQueue DEF OpenPort, TypeOK
    <2> QED  BY <1>2, <2>1, <2>2 DEF OpenPort
  <1>3. CASE OpenFails \/ Closes \/ Cancel \/ Stop
    <2>1. queue' = <<>> /\ port' = "none"
      BY <1>3 DEF OpenFails, Closes, Cancel, Stop, Teardown
    <2> QED  BY <2>1
  <1>4. CASE ServingEnds \/ PauseOver  BY <1>4 DEF ServingEnds, PauseOver
  <1>5. CASE WriteCommand
    BY <1>5, TailOfQueue DEF WriteCommand, TypeOK
  <1>6. CASE Reader
    BY <1>6 DEF Reader, ReaderFails, ReaderStops, SignalDisconnect, CanWrite
  <1>7. CASE RcuTick \/ Unplug \/ Replug  BY <1>7 DEF RcuTick, Unplug, Replug
  <1>8. CASE UNCHANGED vars  BY <1>8 DEF vars
  <1> QED
    BY <1>1, <1>2, <1>3, <1>4, <1>5, <1>6, <1>7, <1>8 DEF Next, Start

(* A command queued for an open port is never written to a later one.      *)
THEOREM PressesDieWithPort == Spec => []PressDiesWithPort
  <1>1. PortInv => PressDiesWithPort  BY DEF PortInv
  <1> QED  BY <1>1, InitPort, NextPort, TypeCorrect, PTL DEF Spec

-----------------------------------------------------------------------------
(* Order. *)

(* The queue is in the order of sending, and all of it was sent after what *)
(* was written last.                                                       *)
OrderInv ==
  /\ wire.n <= pressed
  /\ \A i \in DOMAIN queue : wire.n < queue[i].n /\ queue[i].n <= pressed
  /\ \A i, j \in DOMAIN queue : i < j => queue[i].n < queue[j].n

(* Nothing is queued or written at first.                                  *)
LEMMA InitOrder == Init => OrderInv
  BY DEF Init, OrderInv

(* What a command is numbered with can be compared.                        *)
LEMMA NumbersAreNat ==
  ASSUME TypeOK
  PROVE  wire.n \in Nat /\ \A i \in DOMAIN queue : queue[i].n \in Nat
  <1>1. \A c \in Command : c.n \in Nat  BY DEF Command
  <1>2. \A i \in DOMAIN queue : queue[i] \in Command  BY DEF TypeOK
  <1> QED  BY <1>1, <1>2 DEF TypeOK

(* The order survives a press, a write, a teardown and a re-open.          *)
LEMMA NextOrder == TypeOK /\ OrderInv /\ [Next]_vars => OrderInv'
  <1> SUFFICES ASSUME TypeOK, OrderInv, [Next]_vars PROVE OrderInv'  OBVIOUS
  <1> USE DEF OrderInv
  <1>1. CASE Press
    <2> DEFINE c == [n |-> pressed + 1, up |-> CanWrite, carried |-> FALSE]
    <2>1. c \in Command /\ c.n = pressed + 1
      BY DEF Command, CanWrite, TypeOK
    <2>2. queue' = Append(queue, c) /\ pressed' = pressed + 1 /\ wire' = wire
      BY <1>1 DEF Press
    <2>3. \A i \in DOMAIN queue' :
            \/ i \in DOMAIN queue /\ queue'[i] = queue[i]
            \/ i = Len(queue) + 1 /\ queue'[i] = c
      BY <2>1, <2>2, AppendToQueue DEF TypeOK
    <2>4. /\ DOMAIN queue = 1 .. Len(queue) /\ Len(queue) \in Nat
          /\ \A i \in DOMAIN queue : queue[i].n \in Nat
          /\ wire.n \in Nat /\ pressed \in Nat
      BY NumbersAreNat DEF TypeOK
    <2>5. wire'.n <= pressed'  BY <2>2, <2>4
    <2>6. \A i \in DOMAIN queue' : wire'.n < queue'[i].n /\ queue'[i].n <= pressed'
      BY <2>1, <2>2, <2>3, <2>4
    <2>7. \A i, j \in DOMAIN queue' : i < j => queue'[i].n < queue'[j].n
      BY <2>1, <2>3, <2>4
    <2> QED  BY <2>5, <2>6, <2>7
  <1>2. CASE OpenPort
    <2>1. /\ DOMAIN queue' = DOMAIN queue
          /\ \A i \in DOMAIN queue : queue'[i].n = queue[i].n
          /\ wire' = wire /\ pressed' = pressed
      BY <1>2, CarriedQueue DEF OpenPort, TypeOK
    <2> QED  BY <2>1
  <1>3. CASE OpenFails \/ Closes \/ Cancel \/ Stop
    <2>1. queue' = <<>> /\ wire' = wire /\ pressed' = pressed
      BY <1>3 DEF OpenFails, Closes, Cancel, Stop, Teardown
    <2> QED  BY <2>1
  <1>4. CASE WriteCommand
    <2>1. /\ Head(queue) = queue[1] /\ 1 \in DOMAIN queue
          /\ DOMAIN queue = 1 .. Len(queue)
          /\ \A i \in DOMAIN Tail(queue) :
               i \in Nat /\ i >= 1 /\ i + 1 \in DOMAIN queue
               /\ Tail(queue)[i] = queue[i + 1]
      BY <1>4, TailOfQueue DEF WriteCommand, TypeOK
    <2>2. /\ queue' = Tail(queue) /\ pressed' = pressed
          /\ wire' = wire \/ wire' = Head(queue)
      BY <1>4 DEF WriteCommand, Writes
    <2>3. wire'.n <= pressed'  BY <2>1, <2>2
    <2>4. \A i \in DOMAIN queue' : wire'.n < queue'[i].n /\ queue'[i].n <= pressed'
      <3> TAKE i \in DOMAIN queue'
      <3>1. queue'[i] = queue[i + 1] /\ i + 1 \in DOMAIN queue /\ 1 < i + 1
        BY <2>1, <2>2
      <3>2. queue[1].n < queue[i + 1].n  BY <3>1, <2>1
      <3> QED  BY <2>1, <2>2, <3>1, <3>2
    <2>5. \A i, j \in DOMAIN queue' : i < j => queue'[i].n < queue'[j].n
      BY <2>1, <2>2
    <2> QED  BY <2>3, <2>4, <2>5
  <1>5. CASE ServingEnds \/ PauseOver  BY <1>5 DEF ServingEnds, PauseOver
  <1>6. CASE Reader
    BY <1>6 DEF Reader, ReaderFails, ReaderStops, SignalDisconnect
  <1>7. CASE RcuTick \/ Unplug \/ Replug  BY <1>7 DEF RcuTick, Unplug, Replug
  <1>8. CASE UNCHANGED vars  BY <1>8 DEF vars
  <1> QED
    BY <1>1, <1>2, <1>3, <1>4, <1>5, <1>6, <1>7, <1>8 DEF Next, Start

(* Only the head of the queue is written, and it is newer than the last.   *)
LEMMA WritesInOrder ==
  TypeOK /\ OrderInv /\ [Next]_vars => (wire' # wire => wire'.n > wire.n)
  <1> SUFFICES ASSUME TypeOK, OrderInv, [Next]_vars, wire' # wire
               PROVE  wire'.n > wire.n
    OBVIOUS
  <1>1. WriteCommand
    BY DEF Next, vars, Press, Start, Stop, Cancel, RcuTick, Reader, Unplug,
           Replug, OpenPort, OpenFails, ServingEnds, Closes, PauseOver,
           ReaderFails, ReaderStops, SignalDisconnect
  <1>2. wire' = queue[1] /\ 1 \in DOMAIN queue
    BY <1>1, TailOfQueue DEF WriteCommand, Writes, TypeOK
  <1>3. wire.n \in Nat /\ queue[1].n \in Nat  BY <1>2, NumbersAreNat
  <1> QED  BY <1>2, <1>3 DEF OrderInv

(* Keycodes are written in the order they were sent, and none twice.       *)
THEOREM OrderKept == Spec => PressesInOrder
  <1>1. TypeOK /\ OrderInv /\ [Next]_vars
          => [wire' # wire => wire'.n > wire.n]_vars
    BY WritesInOrder
  <1> QED
    BY <1>1, InitOrder, NextOrder, TypeCorrect, PTL DEF Spec, PressesInOrder

-----------------------------------------------------------------------------
(* Streams of bytes. *)

(* What the parser is given, and what it makes of it. *)
Stream == Seq(Byte)
Drained == [found : Seq(Frames), left : Stream]

(* What is left of a stream from some byte on.                             *)
LEMMA FromFacts ==
  ASSUME NEW s \in Stream, NEW i \in 1 .. Len(s) + 1
  PROVE  /\ From(s, i) \in Stream
         /\ Len(From(s, i)) = Len(s) - i + 1
         /\ \A k \in 1 .. Len(s) - i + 1 : From(s, i)[k] = s[i + k - 1]
<1>1. \A k \in i .. Len(s) : s[k] \in Byte
  BY DEF Stream
<1>2. /\ SubSeq(s, i, Len(s)) \in Stream
      /\ Len(SubSeq(s, i, Len(s))) = IF i <= Len(s) THEN Len(s) - i + 1 ELSE 0
      /\ \A k \in 1 .. Len(s) - i + 1 : SubSeq(s, i, Len(s))[k] = s[i + k - 1]
  BY <1>1, SubSeqProperties DEF Stream
<1> QED BY <1>2 DEF From, Stream

(* The first sync is one, and no other comes before it.                    *)
LEMMA FirstSync ==
  ASSUME NEW s \in Stream, NEW start \in Nat, Syncs(s, start) # {}
  PROVE  /\ Min(Syncs(s, start)) \in Syncs(s, start)
         /\ \A i \in Syncs(s, start) : Min(Syncs(s, start)) <= i
<1>1. Syncs(s, start) \in SUBSET Nat
  BY DEF Syncs, Stream
<1>2. \E m \in Syncs(s, start) : \A i \in Syncs(s, start) : m <= i
  BY <1>1, LeastNumber
<1> QED BY <1>2 DEF Min

(* A sync is three sync bytes. *)
LEMMA SyncIs ==
  ASSUME NEW s \in Stream, NEW start \in Nat, NEW i
  PROVE  i \in Syncs(s, start) <=>
           /\ i \in Nat /\ start <= i /\ i + 2 <= Len(s)
           /\ s[i] = Sync /\ s[i + 1] = Sync /\ s[i + 2] = Sync
  BY DEF Syncs, Stream

(* A stream that has been synced starts with a sync. *)
LEMMA SyncedFacts ==
  ASSUME NEW s \in Stream, Syncs(s, 1) # {}
  PROVE  /\ Min(Syncs(s, 1)) \in 1 .. Len(s)
         /\ Synced(s) \in Stream
         /\ Len(Synced(s)) = Len(s) - Min(Syncs(s, 1)) + 1
         /\ Len(Synced(s)) \in 3 .. Len(s)
         /\ 1 \in Syncs(Synced(s), 1)
         /\ \A k \in 1 .. Len(Synced(s)) : Synced(s)[k] = s[Min(Syncs(s, 1)) + k - 1]
<1> DEFINE m == Min(Syncs(s, 1))
<1>0. Len(s) \in Nat
  BY DEF Stream
<1>1. m \in Syncs(s, 1)
  BY FirstSync
<1>2. m \in Nat /\ 1 <= m /\ m + 2 <= Len(s)
      /\ s[m] = Sync /\ s[m + 1] = Sync /\ s[m + 2] = Sync
  BY <1>1, SyncIs
<1> HIDE DEF m
<1>3. /\ From(s, m) \in Stream
      /\ Len(From(s, m)) = Len(s) - m + 1
      /\ \A k \in 1 .. Len(s) - m + 1 : From(s, m)[k] = s[m + k - 1]
  BY <1>0, <1>2, FromFacts
<1>4. 1 \in Syncs(From(s, m), 1)
  <2>1. From(s, m)[1] = s[m] /\ From(s, m)[2] = s[m + 1] /\ From(s, m)[3] = s[m + 2]
    BY <1>0, <1>2, <1>3
  <2> QED BY <1>0, <1>2, <1>3, <2>1, SyncIs
<1> QED BY <1>0, <1>2, <1>3, <1>4 DEF Synced, m

(* A stream that starts with a sync is synced. *)
LEMMA SyncedAlready ==
  ASSUME NEW b \in Stream, 1 \in Syncs(b, 1)
  PROVE  Synced(b) = b
<1>1. Min(Syncs(b, 1)) = 1
  BY FirstSync, SyncIs
<1>2. From(b, 1) = b
  BY SubSeqFull DEF From, Stream
<1> QED BY <1>1, <1>2 DEF Synced

(* The four bytes before the payload, and those after it, have a length.   *)
LEMMA Lengths == /\ Payload \in Nat /\ Trailer \in Nat /\ Total \in Nat
                 /\ Total >= 4 + Payload /\ MaxBuffer \in Nat /\ MaxBuffer > Total
                 /\ Total = 4 + Payload + Trailer
  BY LengthsAssumption, BufferAssumption DEF Total

(* The end of a display frame is a sync behind its head. *)
LEMMA RcuEndFacts ==
  ASSUME NEW b \in Stream, Syncs(b, 5) # {}
  PROVE  /\ RcuEnd(b) \in 5 .. Len(b) - 2 /\ Len(b) \in Nat
         /\ RcuEnd(b) \in Syncs(b, 5)
         /\ \A i \in Syncs(b, 5) : RcuEnd(b) <= i
  BY FirstSync, SyncIs DEF RcuEnd, Stream

(* A turn of the loop takes at least a byte. *)
LEMMA TurnFacts ==
  ASSUME NEW s \in Stream, ~Waits(s)
  PROVE  /\ Rest(Synced(s)) \in Stream
         /\ Len(Rest(Synced(s))) < Len(s)
         /\ Frame(Synced(s)) \in Seq(Frames)
<1> DEFINE b == Synced(s)
<1>1. Syncs(s, 1) # {} /\ Len(b) >= 4
  BY SyncedFacts DEF Waits, Stream
<1>2. b \in Stream /\ Len(b) \in 4 .. Len(s) /\ Len(s) \in Nat
  BY <1>1, SyncedFacts DEF Stream
<1>3. b[4] = Csv => Len(b) >= Total
  BY <1>2, Lengths DEF Waits
<1>4. b[4] = Rcu => Syncs(b, 5) # {}
  BY <1>1 DEF Waits
<1> HIDE DEF b
<1>5. Csv # Rcu
  BY DEF Csv, Rcu
<1>6. CASE b[4] = Csv
  <2>1. Rest(b) = From(b, Total + 1) /\ Frame(b) = <<CsvFrame(SubSeq(b, 5, 4 + Payload))>>
    BY <1>5, <1>6 DEF Rest, Frame, AfterCsv
  <2>2. From(b, Total + 1) \in Stream /\ Len(From(b, Total + 1)) < Len(b)
    BY <1>2, <1>3, <1>6, FromFacts, Lengths
  <2>3. SubSeq(b, 5, 4 + Payload) \in Stream
    <3>1. \A i \in 5 .. 4 + Payload : b[i] \in Byte
      BY <1>2, <1>3, <1>6, Lengths DEF Stream
    <3> QED BY <3>1, Lengths, SubSeqProperties DEF Stream
  <2> QED BY <1>2, <2>1, <2>2, <2>3 DEF Frames, CsvFrame, Stream, b
<1>7. CASE b[4] = Rcu
  <2>1. Rest(b) = From(b, RcuEnd(b)) /\ Frame(b) = <<RcuFrame(SubSeq(b, 5, RcuEnd(b) - 1))>>
    BY <1>5, <1>7 DEF Rest, Frame
  <2>2. RcuEnd(b) \in 5 .. Len(b) - 2
    BY <1>2, <1>4, <1>7, RcuEndFacts
  <2>3. From(b, RcuEnd(b)) \in Stream /\ Len(From(b, RcuEnd(b))) < Len(b)
    BY <1>2, <2>2, FromFacts
  <2>4. SubSeq(b, 5, RcuEnd(b) - 1) \in Stream
    <3>1. \A i \in 5 .. RcuEnd(b) - 1 : b[i] \in Byte
      BY <1>2, <2>2 DEF Stream
    <3> QED BY <2>2, <3>1, SubSeqProperties DEF Stream
  <2> QED BY <1>2, <2>1, <2>3, <2>4 DEF Frames, RcuFrame, Stream, b
<1>8. CASE b[4] # Csv /\ b[4] # Rcu
  <2>1. Rest(b) = Tail(b) /\ Frame(b) = <<>>
    BY <1>8 DEF Rest, Frame
  <2>2. Tail(b) \in Stream /\ Len(Tail(b)) = Len(b) - 1
    BY <1>2 DEF Stream
  <2> QED BY <1>2, <2>1, <2>2 DEF b
<1> QED BY <1>6, <1>7, <1>8

(* What the loop leaves when it ends at once. *)
Left(s) == IF Syncs(s, 1) = {} THEN Kept(s) ELSE Synced(s)

(* It is a stream no longer than what the loop got. *)
LEMMA LeftFacts ==
  ASSUME NEW s \in Stream
  PROVE  Left(s) \in Stream /\ Len(Left(s)) <= Len(s)
<1>1. Len(s) \in Nat
  BY DEF Stream
<1>2. CASE Syncs(s, 1) = {}
  BY <1>1, <1>2, FromFacts DEF Left, Kept
<1>3. CASE Syncs(s, 1) # {}
  BY <1>1, <1>3, SyncedFacts DEF Left
<1> QED BY <1>2, <1>3

(* The parser is defined for every stream, and is what its loop says. *)
LEMMA DrainDef ==
  /\ Drain \in [Stream -> Drained]
  /\ \A s \in Stream :
       Drain[s] = IF Waits(s) THEN [found |-> <<>>, left |-> Left(s)]
                  ELSE [found |-> Frame(Synced(s)) \o Drain[Rest(Synced(s))].found,
                        left |-> Drain[Rest(Synced(s))].left]
<1> DEFINE size == [s \in Stream |-> Len(s)]
           stop == {s \in Stream : Waits(s)}
           base == [s \in Stream |-> [found |-> <<>>, left |-> Left(s)]]
           next == [s \in Stream |-> IF Waits(s) THEN s ELSE Rest(Synced(s))]
           step == [pair \in Stream \X Drained |->
                      [found |-> (IF Waits(pair[1]) THEN <<>> ELSE Frame(Synced(pair[1])))
                                   \o pair[2].found,
                       left |-> pair[2].left]]
           Body(f, s) == IF Waits(s) THEN [found |-> <<>>, left |-> Left(s)]
                         ELSE LET d == f[Rest(Synced(s))]
                              IN  [found |-> Frame(Synced(s)) \o d.found, left |-> d.left]
<1>1. size \in [Stream -> Nat] /\ stop \in SUBSET Stream
  BY DEF Stream
<1>2. base \in [Stream -> Drained]
  BY LeftFacts DEF Drained
<1>3. next \in [Stream -> Stream]
  BY TurnFacts
<1>4. step \in [Stream \X Drained -> Drained]
  BY TurnFacts DEF Drained
<1>5. \A s \in Stream \ stop : size[next[s]] < size[s]
  BY TurnFacts
<1>6. PICK f \in [Stream -> Drained] :
        \A s \in Stream : f[s] = Turn(f, stop, base, step, next, s)
  <2> HIDE DEF size, stop, base, next, step
  <2>1. IsLoop(Stream, Drained, size, stop, base, next, step)
    BY <1>1, <1>2, <1>3, <1>4, <1>5 DEF IsLoop
  <2> QED BY <2>1, LoopFunction
<1>7. ASSUME NEW s \in Stream PROVE Turn(f, stop, base, step, next, s) = Body(f, s)
  BY TurnFacts DEF Turn, Drained
<1>8. f = [s \in Stream |-> Body(f, s)]
  BY <1>6, <1>7
<1>9. Drain = [s \in Stream |-> Body(Drain, s)]
  BY <1>8 DEF Drain, Stream, Left
<1>10. \A s \in Stream : Drain[s] = Body(Drain, s)
  BY <1>9
<1>11. {s \in Stream : Drain[s] \in Drained} = Stream
  <2> DEFINE P == {s \in Stream : Drain[s] \in Drained}
  <2>1. ASSUME NEW s \in Stream, \A r \in Stream : size[r] < size[s] => r \in P
        PROVE  Drain[s] \in Drained
    <3>1. CASE Waits(s)
      <4>1. Drain[s] = [found |-> <<>>, left |-> Left(s)]
        BY <1>10, <3>1
      <4>2. Left(s) \in Stream
        BY LeftFacts
      <4> QED BY <4>1, <4>2 DEF Drained
    <3>2. CASE ~Waits(s)
      <4>1. Drain[Rest(Synced(s))] \in Drained
        BY <2>1, <3>2, TurnFacts
      <4>2. Drain[s] = [found |-> Frame(Synced(s)) \o Drain[Rest(Synced(s))].found,
                        left |-> Drain[Rest(Synced(s))].left]
        BY <1>10, <3>2
      <4>3. Frame(Synced(s)) \in Seq(Frames)
        BY <3>2, TurnFacts
      <4> QED BY <4>1, <4>2, <4>3 DEF Drained
    <3> QED BY <3>1, <3>2
  <2>2. P \in SUBSET Stream /\ \A s \in Stream : Drain[s] \in Drained => s \in P
    OBVIOUS
  <2>3. P = Stream
    <3> HIDE DEF P, size
    <3> QED BY <1>1, <2>1, <2>2, InductionOnSize
  <2> QED BY <2>3
<1>12. Drain \in [Stream -> Drained]
  BY <1>9, <1>11
<1> QED BY <1>10, <1>12
-----------------------------------------------------------------------------
(* Where the reads cut the stream. *)

(* Two streams, one behind the other. *)
LEMMA ConcatFacts ==
  ASSUME NEW s \in Stream, NEW t \in Stream
  PROVE  /\ s \o t \in Stream
         /\ Len(s) \in Nat /\ Len(t) \in Nat /\ Len(s \o t) = Len(s) + Len(t)
         /\ \A i \in 1 .. Len(s) : (s \o t)[i] = s[i]
         /\ \A i \in 1 .. Len(t) : (s \o t)[Len(s) + i] = t[i]
<1>1. /\ s \o t \in Stream /\ Len(s) \in Nat /\ Len(t) \in Nat
      /\ Len(s \o t) = Len(s) + Len(t)
      /\ \A i \in 1 .. Len(s) + Len(t) :
           (s \o t)[i] = IF i <= Len(s) THEN s[i] ELSE t[i - Len(s)]
  BY ConcatProperties DEF Stream
<1> QED BY <1>1

(* From a byte of the first of two streams on. *)
LEMMA FromConcat ==
  ASSUME NEW s \in Stream, NEW t \in Stream, NEW i \in 1 .. Len(s) + 1
  PROVE  From(s \o t, i) = From(s, i) \o t
<1>1. /\ s \o t \in Stream /\ Len(s) \in Nat /\ Len(t) \in Nat
      /\ Len(s \o t) = Len(s) + Len(t)
      /\ \A k \in 1 .. Len(s) : (s \o t)[k] = s[k]
      /\ \A k \in 1 .. Len(t) : (s \o t)[Len(s) + k] = t[k]
  BY ConcatFacts
<1> DEFINE x == From(s \o t, i)
           y == From(s, i)
<1>2. /\ y \in Stream /\ Len(y) = Len(s) - i + 1
      /\ \A k \in 1 .. Len(s) - i + 1 : y[k] = s[i + k - 1]
  BY FromFacts
<1>3. /\ x \in Stream /\ Len(x) = Len(s) + Len(t) - i + 1
      /\ \A k \in 1 .. Len(s) + Len(t) - i + 1 : x[k] = (s \o t)[i + k - 1]
  <2> DEFINE w == s \o t
  <2>1. w \in Stream /\ Len(w) = Len(s) + Len(t) /\ i \in 1 .. Len(w) + 1
    BY <1>1
  <2> HIDE DEF w
  <2>2. /\ From(w, i) \in Stream /\ Len(From(w, i)) = Len(w) - i + 1
        /\ \A k \in 1 .. Len(w) - i + 1 : From(w, i)[k] = w[i + k - 1]
    BY <2>1, FromFacts
  <2> QED BY <2>1, <2>2 DEF w
<1> HIDE DEF x, y
<1>4. /\ y \o t \in Stream /\ Len(y \o t) = Len(y) + Len(t)
      /\ \A k \in 1 .. Len(y) : (y \o t)[k] = y[k]
      /\ \A k \in 1 .. Len(t) : (y \o t)[Len(y) + k] = t[k]
  BY <1>2, ConcatFacts
<1>5. ASSUME NEW k \in 1 .. Len(x) PROVE x[k] = (y \o t)[k]
  <2>1. CASE k <= Len(y)
    <3>1. k \in 1 .. Len(y) /\ i + k - 1 \in 1 .. Len(s)
      BY <1>1, <1>2, <1>3, <2>1
    <3> QED BY <1>1, <1>2, <1>3, <1>4, <3>1
  <2>2. CASE k > Len(y)
    <3> DEFINE j == k - Len(y)
    <3>1. j \in 1 .. Len(t) /\ k = Len(y) + j /\ i + k - 1 = Len(s) + j
      BY <1>1, <1>2, <1>3, <2>2
    <3>2. x[k] = (s \o t)[Len(s) + j] /\ (y \o t)[k] = t[j]
      BY <1>1, <1>2, <1>3, <1>4, <3>1
    <3> QED BY <1>1, <3>1, <3>2
  <2> QED BY <1>1, <1>2, <1>3, <2>1, <2>2
<1>6. Len(x) = Len(y \o t)
  BY <1>1, <1>2, <1>3, <1>4
<1> QED BY <1>3, <1>4, <1>5, <1>6, SeqEqual DEF Stream, x, y

(* From a byte of the second of two streams on. *)
LEMMA FromBehind ==
  ASSUME NEW s \in Stream, NEW t \in Stream, NEW i \in 1 .. Len(t) + 1
  PROVE  From(s \o t, Len(s) + i) = From(t, i)
<1> DEFINE w == s \o t
           x == From(w, Len(s) + i)
           y == From(t, i)
<1>1. /\ w \in Stream /\ Len(s) \in Nat /\ Len(t) \in Nat
      /\ Len(w) = Len(s) + Len(t)
      /\ \A k \in 1 .. Len(t) : w[Len(s) + k] = t[k]
  BY ConcatFacts
<1> HIDE DEF w
<1>2. /\ y \in Stream /\ Len(y) = Len(t) - i + 1
      /\ \A k \in 1 .. Len(t) - i + 1 : y[k] = t[i + k - 1]
  BY FromFacts
<1>3. /\ x \in Stream /\ Len(x) = Len(t) - i + 1
      /\ \A k \in 1 .. Len(t) - i + 1 : x[k] = w[Len(s) + (i + k - 1)]
  <2>1. PICK m \in 1 .. Len(w) + 1 : m = Len(s) + i
    BY <1>1
  <2>2. /\ From(w, m) \in Stream /\ Len(From(w, m)) = Len(w) - m + 1
        /\ \A k \in 1 .. Len(w) - m + 1 : From(w, m)[k] = w[m + k - 1]
    BY <1>1, FromFacts
  <2>3. /\ Len(w) - m + 1 = Len(t) - i + 1
        /\ \A k \in 1 .. Len(t) - i + 1 : m + k - 1 = Len(s) + (i + k - 1)
    BY <1>1, <2>1
  <2>4. x = From(w, m)
    BY <2>1
  <2> HIDE DEF x
  <2> QED BY <2>2, <2>3, <2>4
<1> HIDE DEF x, y
<1>4. ASSUME NEW k \in 1 .. Len(x) PROVE x[k] = y[k]
  <2>1. k \in 1 .. Len(t) - i + 1 /\ i + k - 1 \in 1 .. Len(t)
    BY <1>1, <1>3
  <2> QED BY <1>1, <1>2, <1>3, <2>1
<1> QED BY <1>2, <1>3, <1>4, SeqEqual DEF Stream, w, x, y

(* A stream is what comes before two cuts, between them and behind them.   *)
LEMMA Splits3 ==
  ASSUME NEW s \in Stream, NEW m \in 0 .. Len(s), NEW n \in m .. Len(s)
  PROVE  s = (SubSeq(s, 1, m) \o SubSeq(s, m + 1, n)) \o SubSeq(s, n + 1, Len(s))
<1>1. Len(s) \in Nat
  BY DEF Stream
<1>2. SubSeq(s, 1, m) \o SubSeq(s, m + 1, n) = SubSeq(s, 1, n)
  BY <1>1, ConcatAdjacentSubSeq DEF Stream
<1>3. SubSeq(s, 1, n) \o SubSeq(s, n + 1, Len(s)) = SubSeq(s, 1, Len(s))
  <2>1. /\ 1 \in 1 .. Len(s) + 1 /\ n \in 1 - 1 .. Len(s) /\ Len(s) \in n .. Len(s)
        /\ s \in Seq(Byte)
    BY <1>1 DEF Stream
  <2> QED BY <2>1, ConcatAdjacentSubSeq
<1>4. SubSeq(s, 1, Len(s)) = s
  BY SubSeqFull DEF Stream
<1> QED BY <1>2, <1>3, <1>4

(* From a byte of what is left from another on. *)
LEMMA FromFrom ==
  ASSUME NEW s \in Stream, NEW i \in 1 .. Len(s) + 1, NEW j \in 1 .. Len(s) - i + 2
  PROVE  From(From(s, i), j) = From(s, i + j - 1)
<1> DEFINE y == From(s, i)
<1>0. Len(s) \in Nat
  BY DEF Stream
<1>1. /\ y \in Stream /\ Len(y) = Len(s) - i + 1
      /\ \A k \in 1 .. Len(s) - i + 1 : y[k] = s[i + k - 1]
  BY FromFacts
<1> HIDE DEF y
<1> DEFINE x == From(y, j)
           z == From(s, i + j - 1)
<1>2. /\ x \in Stream /\ Len(x) = Len(y) - j + 1
      /\ \A k \in 1 .. Len(y) - j + 1 : x[k] = y[j + k - 1]
  <2>1. j \in 1 .. Len(y) + 1
    BY <1>0, <1>1
  <2> QED BY <1>1, <2>1, FromFacts
<1>3. /\ z \in Stream /\ Len(z) = Len(s) - (i + j - 1) + 1
      /\ \A k \in 1 .. Len(s) - (i + j - 1) + 1 : z[k] = s[(i + j - 1) + k - 1]
  <2>1. i + j - 1 \in 1 .. Len(s) + 1
    BY <1>0
  <2> QED BY <2>1, FromFacts
<1> HIDE DEF x, z
<1>4. ASSUME NEW k \in 1 .. Len(x) PROVE x[k] = z[k]
  <2>1. /\ k \in 1 .. Len(y) - j + 1 /\ j + k - 1 \in 1 .. Len(s) - i + 1
        /\ k \in 1 .. Len(s) - (i + j - 1) + 1
        /\ i + (j + k - 1) - 1 = (i + j - 1) + k - 1
    BY <1>0, <1>1, <1>2
  <2> QED BY <1>1, <1>2, <1>3, <2>1
<1>5. Len(x) = Len(z)
  BY <1>0, <1>1, <1>2, <1>3
<1> QED BY <1>2, <1>3, <1>4, <1>5, SeqEqual DEF Stream, x, y, z

(* The syncs of what is left are those of the stream. *)
LEMMA SyncsOfFrom ==
  ASSUME NEW s \in Stream, NEW i \in 1 .. Len(s) + 1, NEW start \in Nat,
         NEW j \in Nat, 1 <= j
  PROVE  j \in Syncs(From(s, i), start) <=> start <= j /\ i + j - 1 \in Syncs(s, 1)
<1> DEFINE y == From(s, i)
<1>0. Len(s) \in Nat
  BY DEF Stream
<1>1. /\ y \in Stream /\ Len(y) = Len(s) - i + 1
      /\ \A k \in 1 .. Len(s) - i + 1 : y[k] = s[i + k - 1]
  BY FromFacts
<1> HIDE DEF y
<1>2. j + 2 <= Len(y) <=> (i + j - 1) + 2 <= Len(s)
  BY <1>0, <1>1
<1>3. j + 2 <= Len(y) => /\ y[j] = s[i + j - 1]
                         /\ y[j + 1] = s[(i + j - 1) + 1]
                         /\ y[j + 2] = s[(i + j - 1) + 2]
  <2> SUFFICES ASSUME j + 2 <= Len(y)
               PROVE  /\ y[j] = s[i + j - 1]
                      /\ y[j + 1] = s[(i + j - 1) + 1]
                      /\ y[j + 2] = s[(i + j - 1) + 2]
    OBVIOUS
  <2>1. /\ j \in 1 .. Len(s) - i + 1 /\ j + 1 \in 1 .. Len(s) - i + 1
        /\ j + 2 \in 1 .. Len(s) - i + 1
        /\ i + (j + 1) - 1 = (i + j - 1) + 1 /\ i + (j + 2) - 1 = (i + j - 1) + 2
    BY <1>0, <1>1
  <2>2. y[j + 1] = s[i + (j + 1) - 1] /\ y[j + 2] = s[i + (j + 2) - 1] /\ y[j] = s[i + j - 1]
    BY <1>1, <2>1
  <2> QED BY <2>1, <2>2
<1>4. j \in Syncs(y, start) <=>
        start <= j /\ j + 2 <= Len(y) /\ y[j] = Sync /\ y[j + 1] = Sync /\ y[j + 2] = Sync
  BY <1>1, SyncIs
<1>5. i + j - 1 \in Syncs(s, 1) <=>
        /\ (i + j - 1) + 2 <= Len(s)
        /\ s[i + j - 1] = Sync /\ s[(i + j - 1) + 1] = Sync /\ s[(i + j - 1) + 2] = Sync
  <2>1. i + j - 1 \in Nat /\ 1 <= i + j - 1
    BY <1>0
  <2> QED BY <2>1, SyncIs
<1> QED BY <1>2, <1>3, <1>4, <1>5 DEF y

(* What comes behind adds syncs, none of them within. *)
LEMMA SyncsOfConcat ==
  ASSUME NEW s \in Stream, NEW t \in Stream, NEW start \in Nat, NEW i \in Nat, 1 <= i
  PROVE  /\ i \in Syncs(s, start) => i \in Syncs(s \o t, start)
         /\ i \in Syncs(s \o t, start) /\ i + 2 <= Len(s) => i \in Syncs(s, start)
<1>1. /\ s \o t \in Stream /\ Len(s) \in Nat /\ Len(t) \in Nat
      /\ Len(s \o t) = Len(s) + Len(t)
      /\ \A k \in 1 .. Len(s) : (s \o t)[k] = s[k]
  BY ConcatFacts
<1>2. i + 2 <= Len(s) => /\ (s \o t)[i] = s[i] /\ (s \o t)[i + 1] = s[i + 1]
                         /\ (s \o t)[i + 2] = s[i + 2]
  BY <1>1
<1>3. i \in Syncs(s, start) <=>
        start <= i /\ i + 2 <= Len(s) /\ s[i] = Sync /\ s[i + 1] = Sync /\ s[i + 2] = Sync
  BY SyncIs
<1>4. i \in Syncs(s \o t, start) <=>
        /\ start <= i /\ i + 2 <= Len(s \o t)
        /\ (s \o t)[i] = Sync /\ (s \o t)[i + 1] = Sync /\ (s \o t)[i + 2] = Sync
  <2> DEFINE w == s \o t
  <2>1. w \in Stream
    BY <1>1
  <2> HIDE DEF w
  <2>2. i \in Syncs(w, start) <=>
          start <= i /\ i + 2 <= Len(w) /\ w[i] = Sync /\ w[i + 1] = Sync /\ w[i + 2] = Sync
    BY <2>1, SyncIs
  <2> QED BY <2>2 DEF w
<1> QED BY <1>1, <1>2, <1>3, <1>4

(* What comes behind does not change which sync is first. *)
LEMMA FirstOfConcat ==
  ASSUME NEW s \in Stream, NEW t \in Stream, NEW start \in Nat, start >= 1,
         Syncs(s, start) # {}
  PROVE  /\ Syncs(s \o t, start) # {}
         /\ Min(Syncs(s \o t, start)) = Min(Syncs(s, start))
<1> DEFINE m == Min(Syncs(s, start))
           n == Min(Syncs(s \o t, start))
<1>1. m \in Syncs(s, start) /\ \A i \in Syncs(s, start) : m <= i
  BY FirstSync
<1>2. m \in Nat /\ 1 <= m /\ m + 2 <= Len(s)
  BY <1>1, SyncIs
<1>3. s \o t \in Stream /\ Len(s) \in Nat
  BY ConcatFacts
<1>4. m \in Syncs(s \o t, start)
  BY <1>1, <1>2, SyncsOfConcat
<1>5. n \in Syncs(s \o t, start) /\ n <= m
  BY <1>3, <1>4, FirstSync
<1>6. n \in Nat /\ 1 <= n /\ n + 2 <= Len(s)
  BY <1>2, <1>3, <1>5, SyncIs
<1>7. n \in Syncs(s, start)
  BY <1>5, <1>6, SyncsOfConcat
<1> QED BY <1>1, <1>2, <1>4, <1>5, <1>6, <1>7

(* Bytes before the first sync, but for the last three, make no            *)
(* difference.                                                             *)
LEMMA NoiseIsSkipped ==
  ASSUME NEW s \in Stream, NEW i \in 1 .. Len(s) + 1,
         \A j \in Syncs(s, 1) : i <= j,
         Syncs(s, 1) = {} => i + 2 <= Len(s) \/ i = 1
  PROVE  Drain[s] = Drain[From(s, i)]
<1> DEFINE y == From(s, i)
<1>0. Len(s) \in Nat
  BY DEF Stream
<1>1. y \in Stream /\ Len(y) = Len(s) - i + 1
  BY FromFacts
<1>2. CASE Syncs(s, 1) # {}
  <2> DEFINE m == Min(Syncs(s, 1))
             n == Min(Syncs(y, 1))
  <2>1. m \in Syncs(s, 1) /\ (\A j \in Syncs(s, 1) : m <= j)
    BY <1>2, FirstSync
  <2>2. m \in Nat /\ i <= m /\ 1 <= m /\ m + 2 <= Len(s)
    BY <2>1, SyncIs
  <2>3. m - i + 1 \in Nat /\ 1 <= m - i + 1 /\ i + (m - i + 1) - 1 = m
    BY <1>0, <2>2
  <2>4. m - i + 1 \in Syncs(y, 1)
    BY <2>1, <2>3, SyncsOfFrom
  <2>5. n \in Syncs(y, 1) /\ n <= m - i + 1
    BY <1>1, <2>4, FirstSync
  <2>6. n \in Nat /\ 1 <= n
    BY <1>1, <2>5, SyncIs
  <2>7. i + n - 1 \in Syncs(s, 1)
    BY <2>5, <2>6, SyncsOfFrom
  <2>8. m <= i + n - 1
    BY <2>1, <2>7
  <2>9. n = m - i + 1
    BY <1>0, <2>2, <2>5, <2>6, <2>8
  <2>10. From(y, n) = From(s, m)
    <3>1. n \in 1 .. Len(s) - i + 2 /\ i + n - 1 = m
      BY <1>0, <2>2, <2>9
    <3> QED BY <3>1, FromFrom
  <2>11. Synced(y) = Synced(s) /\ Syncs(y, 1) # {}
    BY <2>4, <2>10 DEF Synced
  <2>12. Waits(y) <=> Waits(s)
    BY <1>2, <2>11 DEF Waits
  <2> QED BY <1>1, <1>2, <2>11, <2>12, DrainDef DEF Left
<1>3. CASE Syncs(s, 1) = {}
  <2>1. Syncs(y, 1) = {}
    <3> SUFFICES ASSUME NEW j \in Syncs(y, 1) PROVE FALSE
      OBVIOUS
    <3>1. j \in Nat /\ 1 <= j
      BY <1>1, SyncIs
    <3> QED BY <1>3, <3>1, SyncsOfFrom
  <2>2. Kept(y) = Kept(s)
    <3>1. CASE i = 1
      BY <3>1, SubSeqFull DEF From, Stream
    <3>2. CASE i + 2 <= Len(s) /\ Len(y) > 3
      <4>1. Len(y) - 2 \in 1 .. Len(s) - i + 2 /\ i + (Len(y) - 2) - 1 = Len(s) - 2
        BY <1>0, <1>1, <3>2
      <4>2. From(y, Len(y) - 2) = From(s, Len(s) - 2)
        BY <4>1, FromFrom
      <4> QED BY <1>0, <1>1, <3>2, <4>2 DEF Kept
    <3>3. CASE i + 2 <= Len(s) /\ Len(y) <= 3 /\ i # 1
      <4>1. i = Len(s) - 2 /\ Len(s) > 3
        BY <1>0, <1>1, <3>3
      <4> QED BY <3>3, <4>1 DEF Kept
    <3> QED BY <1>0, <1>1, <1>3, <3>1, <3>2, <3>3
  <2>3. Waits(s) /\ Waits(y)
    BY <1>3, <2>1 DEF Waits
  <2> QED BY <1>1, <1>3, <2>1, <2>2, <2>3, DrainDef DEF Left
<1> QED BY <1>2, <1>3

(* What the loop leaves is all it needs of what it has seen.               *)
LEMMA LeftIsEnough ==
  ASSUME NEW s \in Stream, NEW t \in Stream
  PROVE  Drain[s \o t] = Drain[Left(s) \o t]
<1>0. /\ s \o t \in Stream /\ Len(s) \in Nat /\ Len(t) \in Nat
      /\ Len(s \o t) = Len(s) + Len(t)
  BY ConcatFacts
<1>1. CASE Syncs(s, 1) # {}
  <2> DEFINE m == Min(Syncs(s, 1))
  <2>1. m \in 1 .. Len(s) /\ Left(s) = From(s, m)
    BY <1>1, SyncedFacts DEF Left, Synced
  <2>2. Syncs(s \o t, 1) # {} /\ Min(Syncs(s \o t, 1)) = m
    BY <1>1, FirstOfConcat
  <2>3. \A j \in Syncs(s \o t, 1) : m <= j
    BY <1>0, <2>2, FirstSync
  <2> HIDE DEF m
  <2>4. From(s \o t, m) = Left(s) \o t
    <3>1. m \in 1 .. Len(s) + 1
      BY <1>0, <2>1
    <3> QED BY <2>1, <3>1, FromConcat
  <2>5. m \in 1 .. Len(s \o t) + 1
    BY <1>0, <2>1
  <2> QED BY <1>0, <2>2, <2>3, <2>4, <2>5, NoiseIsSkipped
<1>2. CASE Syncs(s, 1) = {} /\ Len(s) > 3
  <2> DEFINE i == Len(s) - 2
  <2>1. i \in 1 .. Len(s) + 1 /\ i \in 1 .. Len(s \o t) + 1 /\ i + 2 <= Len(s \o t)
    BY <1>0, <1>2
  <2>2. Left(s) = From(s, i)
    BY <1>2 DEF Left, Kept
  <2>3. ASSUME NEW j \in Syncs(s \o t, 1) PROVE i <= j
    <3>1. j \in Nat /\ 1 <= j
      BY <1>0, SyncIs
    <3>2. ~(j + 2 <= Len(s))
      BY <1>2, <3>1, SyncsOfConcat
    <3> QED BY <1>0, <3>1, <3>2
  <2> HIDE DEF i
  <2>4. From(s \o t, i) = Left(s) \o t
    BY <2>1, <2>2, FromConcat
  <2> QED BY <1>0, <2>1, <2>3, <2>4, NoiseIsSkipped
<1>3. CASE Syncs(s, 1) = {} /\ Len(s) <= 3
  BY <1>0, <1>3 DEF Left, Kept
<1> QED BY <1>0, <1>1, <1>2, <1>3

(* Whatever comes behind, a frame that is complete is taken first. *)
LEMMA TurnOfConcat ==
  ASSUME NEW s \in Stream, NEW t \in Stream, ~Waits(s)
  PROVE  /\ ~Waits(s \o t)
         /\ Frame(Synced(s \o t)) = Frame(Synced(s))
         /\ Rest(Synced(s \o t)) = Rest(Synced(s)) \o t
<1> DEFINE b == Synced(s)
<1>1. /\ Syncs(s, 1) # {} /\ b \in Stream /\ Len(b) \in Nat /\ Len(b) >= 4
      /\ b[4] = Csv => Len(b) >= Total
      /\ b[4] = Rcu => Syncs(b, 5) # {}
  <2>1. Syncs(s, 1) # {}
    BY DEF Waits
  <2>2. b \in Stream
    BY <2>1, SyncedFacts
  <2>3. Len(b) \in Nat /\ Total \in Nat
    BY <2>2, Lengths DEF Stream
  <2> QED BY <2>1, <2>2, <2>3 DEF Waits
<1>2. Syncs(s \o t, 1) # {} /\ Synced(s \o t) = b \o t
  <2>1. Syncs(s \o t, 1) # {} /\ Min(Syncs(s \o t, 1)) = Min(Syncs(s, 1))
    BY <1>1, FirstOfConcat
  <2>2. Min(Syncs(s, 1)) \in 1 .. Len(s) + 1
    <3>1. Min(Syncs(s, 1)) \in 1 .. Len(s) /\ Len(s) \in Nat
      BY <1>1, SyncedFacts DEF Stream
    <3> QED BY <3>1
  <2> QED BY <2>1, <2>2, FromConcat DEF Synced
<1> HIDE DEF b
<1>3. /\ b \o t \in Stream /\ Len(t) \in Nat /\ Len(b \o t) = Len(b) + Len(t)
      /\ \A k \in 1 .. Len(b) : (b \o t)[k] = b[k]
  BY <1>1, ConcatFacts
<1>4. (b \o t)[4] = b[4]
  BY <1>1, <1>3
<1>5. b[4] = Rcu => Syncs(b \o t, 5) # {} /\ RcuEnd(b \o t) = RcuEnd(b)
  BY <1>1, FirstOfConcat DEF RcuEnd
<1>6. ~Waits(s \o t)
  BY <1>1, <1>2, <1>3, <1>4, <1>5, Lengths DEF Waits
<1>7. Csv # Rcu
  BY DEF Csv, Rcu
<1>8. ASSUME NEW m \in 5 .. Len(b) + 1, NEW n \in 4 .. Len(b)
      PROVE  From(b \o t, m) = From(b, m) \o t /\ SubSeq(b \o t, 5, n) = SubSeq(b, 5, n)
  <2>1. From(b \o t, m) = From(b, m) \o t
    <3>1. m \in 1 .. Len(b) + 1
      BY <1>1
    <3> QED BY <1>1, <3>1, FromConcat
  <2>2. CASE n >= 5
    <3>1. 5 \in 1 .. Len(b) /\ n \in 1 .. Len(b)
      BY <1>1, <2>2
    <3>2. SubSeq(b \o t, 5, n) = SubSeq(b, 5, n)
      BY <1>1, <3>1, SubSeqOfConcat1 DEF Stream
    <3> QED BY <2>1, <3>2
  <2>3. CASE n = 4
    <3>1. SubSeq(b \o t, 5, n) = <<>> /\ SubSeq(b, 5, n) = <<>>
      BY <2>3, SubSeqEmpty
    <3> QED BY <2>1, <3>1
  <2> QED BY <1>1, <2>1, <2>2, <2>3
<1>9. CASE b[4] = Csv
  <2>1. Total + 1 \in 5 .. Len(b) + 1 /\ 4 + Payload \in 4 .. Len(b)
    BY <1>1, <1>9, Lengths
  <2>2. /\ From(b \o t, Total + 1) = From(b, Total + 1) \o t
        /\ SubSeq(b \o t, 5, 4 + Payload) = SubSeq(b, 5, 4 + Payload)
    BY <1>8, <2>1
  <2>3. /\ Frame(b \o t) = Frame(b)
        /\ Rest(b \o t) = Rest(b) \o t
    BY <1>4, <1>7, <1>9, <2>2 DEF Frame, Rest, AfterCsv
  <2> QED BY <1>2, <1>6, <2>3 DEF b
<1>10. CASE b[4] = Rcu
  <2>1. RcuEnd(b) \in 5 .. Len(b) + 1 /\ RcuEnd(b) - 1 \in 4 .. Len(b)
    BY <1>1, <1>10, RcuEndFacts
  <2>2. /\ From(b \o t, RcuEnd(b)) = From(b, RcuEnd(b)) \o t
        /\ SubSeq(b \o t, 5, RcuEnd(b) - 1) = SubSeq(b, 5, RcuEnd(b) - 1)
    BY <1>8, <2>1
  <2>3. /\ Frame(b \o t) = Frame(b)
        /\ Rest(b \o t) = Rest(b) \o t
    BY <1>4, <1>5, <1>7, <1>10, <2>2 DEF Frame, Rest
  <2> QED BY <1>2, <1>6, <2>3 DEF b
<1>11. CASE b[4] # Csv /\ b[4] # Rcu
  <2>1. Tail(b) = From(b, 2) /\ Tail(b \o t) = From(b \o t, 2)
    BY <1>1, <1>3, TailIsSubSeq DEF From, Stream
  <2>2. Tail(b \o t) = Tail(b) \o t
    BY <1>1, <2>1, FromConcat
  <2>3. Frame(b \o t) = Frame(b) /\ Rest(b \o t) = Rest(b) \o t
    BY <1>4, <1>11, <2>2 DEF Frame, Rest
  <2> QED BY <1>2, <1>6, <2>3 DEF b
<1> QED BY <1>9, <1>10, <1>11

(* One reading and then another. *)
Then(d, e) == [found |-> d.found \o e.found, left |-> e.left]

(* It finds the frames of both and leaves what the second leaves. *)
LEMMA ThenFacts ==
  ASSUME NEW d \in Drained, NEW e \in Drained
  PROVE  /\ Then(d, e).found = d.found \o e.found /\ Then(d, e).left = e.left
         /\ Then(d, e) \in Drained
  BY DEF Then, Drained

(* Of frames found in three readings, it does not matter which two are put *)
(* together first.                                                         *)
LEMMA FramesConcat ==
  ASSUME NEW f \in Seq(Frames), NEW g \in Seq(Frames), NEW h \in Seq(Frames)
  PROVE  f \o (g \o h) = (f \o g) \o h
  BY ConcatAssociative

(* Reading a stream in two parts finds what reading it in one does.        *)
LEMMA DrainSplits ==
  ASSUME NEW s \in Stream, NEW t \in Stream
  PROVE  Drain[s \o t] = Then(Drain[s], Drain[Drain[s].left \o t])
<1> DEFINE P == {r \in Stream : Drain[r \o t] = Then(Drain[r], Drain[Drain[r].left \o t])}
           size == [r \in Stream |-> Len(r)]
<1>1. ASSUME NEW r \in Stream, \A q \in Stream : size[q] < size[r] => q \in P
      PROVE  Drain[r \o t] = Then(Drain[r], Drain[Drain[r].left \o t])
  <2>1. CASE Waits(r)
    <3>1. Drain[r] = [found |-> <<>>, left |-> Left(r)]
      BY <2>1, DrainDef
    <3>2. Left(r) \o t \in Stream
      BY LeftFacts, ConcatFacts
    <3>3. Drain[Left(r) \o t] \in Drained
      BY <3>2, DrainDef
    <3>4. Then(Drain[r], Drain[Left(r) \o t]) = Drain[Left(r) \o t]
      BY <3>1, <3>3 DEF Then, Drained
    <3> QED BY <3>1, <3>4, LeftIsEnough
  <2>2. CASE ~Waits(r)
    <3> DEFINE rest == Rest(Synced(r))
               frame == Frame(Synced(r))
    <3>1. rest \in Stream /\ Len(rest) < Len(r) /\ frame \in Seq(Frames)
      BY <2>2, TurnFacts
    <3>2. Drain[r] = [found |-> frame \o Drain[rest].found, left |-> Drain[rest].left]
      BY <2>2, DrainDef
    <3>3. r \o t \in Stream
      BY ConcatFacts
    <3>4. /\ ~Waits(r \o t) /\ Frame(Synced(r \o t)) = frame
          /\ Rest(Synced(r \o t)) = rest \o t
      BY <2>2, TurnOfConcat
    <3>5. Drain[r \o t] = [found |-> frame \o Drain[rest \o t].found,
                           left |-> Drain[rest \o t].left]
      BY <3>3, <3>4, DrainDef
    <3>6. Drain[rest \o t] = Then(Drain[rest], Drain[Drain[rest].left \o t])
      BY <1>1, <3>1
    <3> HIDE DEF rest, frame
    <3>7. Drain[rest] \in Drained
      BY <3>1, DrainDef
    <3>8. Drain[rest].left \o t \in Stream
      BY <3>7, ConcatFacts DEF Drained
    <3>9. Drain[Drain[rest].left \o t] \in Drained
      BY <3>8, DrainDef
    <3>10. PICK d \in Drained, e \in Drained :
              d = Drain[rest] /\ e = Drain[Drain[rest].left \o t]
      BY <3>7, <3>9
    <3>11. /\ Drain[rest \o t] = Then(d, e)
           /\ Drain[r] = [found |-> frame \o d.found, left |-> d.left]
           /\ e = Drain[d.left \o t]
      BY <3>2, <3>6, <3>10
    <3>12. Drain[rest \o t].found = d.found \o e.found /\ Drain[rest \o t].left = e.left
      <4>1. Then(d, e).found = d.found \o e.found /\ Then(d, e).left = e.left
        BY ThenFacts
      <4>2. Drain[rest \o t] = Then(d, e)
        BY <3>11
      <4> QED BY <4>1, <4>2
    <3>13. Drain[r \o t] = [found |-> frame \o (d.found \o e.found), left |-> e.left]
      BY <3>5, <3>12
    <3>14. Then(Drain[r], Drain[Drain[r].left \o t])
             = [found |-> (frame \o d.found) \o e.found, left |-> e.left]
      BY <3>11 DEF Then
    <3>15. frame \o (d.found \o e.found) = (frame \o d.found) \o e.found
      <4>1. d.found \in Seq(Frames) /\ e.found \in Seq(Frames)
        BY DEF Drained
      <4> QED BY <3>1, <4>1, FramesConcat
    <3> QED BY <3>13, <3>14, <3>15
  <2> QED BY <2>1, <2>2
<1>2. P \in SUBSET Stream /\ size \in [Stream -> Nat]
  BY DEF Stream
<1>3. P = Stream
  <2>1. ASSUME NEW r \in Stream, \A q \in Stream : size[q] < size[r] => q \in P
        PROVE  r \in P
    BY <1>1, <2>1
  <2> HIDE DEF P, size
  <2> QED BY <1>2, <2>1, InductionOnSize
<1> QED BY <1>3

-----------------------------------------------------------------------------
(* What the parser leaves in its buffer. *)

(* At most three bytes, or the start of a frame that is not over.          *)
Pending == {r \in Stream : \/ Len(r) <= 3
                           \/ /\ Len(r) >= 4 /\ 1 \in Syncs(r, 1)
                              /\ \/ r[4] = Csv /\ Len(r) < Total
                                 \/ r[4] = Rcu /\ Syncs(r, 5) = {}}

(* Without a sync at most three bytes are kept. *)
LEMMA KeptFacts ==
  ASSUME NEW s \in Stream
  PROVE  Kept(s) \in Stream /\ Len(Kept(s)) <= 3
<1>0. Len(s) \in Nat
  BY DEF Stream
<1>1. CASE Len(s) > 3
  <2>1. PICK i \in 1 .. Len(s) + 1 : i = Len(s) - 2
    BY <1>0, <1>1
  <2>2. From(s, i) \in Stream /\ Len(From(s, i)) = Len(s) - i + 1
    BY FromFacts
  <2>3. Kept(s) = From(s, i) /\ Len(s) - i + 1 = 3
    BY <1>0, <1>1, <2>1 DEF Kept
  <2> QED BY <2>2, <2>3
<1>2. CASE ~(Len(s) > 3)
  BY <1>0, <1>2 DEF Kept
<1> QED BY <1>1, <1>2

(* When the loop ends, what it leaves is pending. *)
LEMMA LeftIsPending ==
  ASSUME NEW s \in Stream, Waits(s)
  PROVE  Left(s) \in Pending
<1>0. Len(s) \in Nat
  BY DEF Stream
<1>1. CASE Syncs(s, 1) = {}
  <2>1. Left(s) = Kept(s)
    BY <1>1 DEF Left
  <2> QED BY <2>1, KeptFacts DEF Pending
<1>2. CASE Syncs(s, 1) # {}
  <2> DEFINE b == Synced(s)
  <2>1. b \in Stream /\ Len(b) \in Nat /\ 1 \in Syncs(b, 1) /\ Left(s) = b
    BY <1>0, <1>2, SyncedFacts DEF Left
  <2>2. \/ Len(b) < 4
        \/ b[4] = Csv /\ Len(b) < Total
        \/ b[4] = Rcu /\ Syncs(b, 5) = {}
    BY <1>2 DEF Waits
  <2> HIDE DEF b
  <2> QED BY <2>1, <2>2 DEF Pending
<1> QED BY <1>1, <1>2

(* The parser leaves no more than it was given, and only what is pending.  *)
LEMMA DrainLeaves ==
  ASSUME NEW s \in Stream
  PROVE  Drain[s].left \in Pending /\ Len(Drain[s].left) <= Len(s)
<1> DEFINE P == {r \in Stream : Drain[r].left \in Pending /\ Len(Drain[r].left) <= Len(r)}
           size == [r \in Stream |-> Len(r)]
<1>1. ASSUME NEW r \in Stream, \A q \in Stream : size[q] < size[r] => q \in P
      PROVE  Drain[r].left \in Pending /\ Len(Drain[r].left) <= Len(r)
  <2>1. CASE Waits(r)
    <3>1. Drain[r].left = Left(r)
      BY <2>1, DrainDef
    <3> QED BY <2>1, <3>1, LeftIsPending, LeftFacts
  <2>2. CASE ~Waits(r)
    <3> DEFINE rest == Rest(Synced(r))
    <3>1. rest \in Stream /\ Len(rest) < Len(r)
      BY <2>2, TurnFacts
    <3>2. Drain[r].left = Drain[rest].left
      BY <2>2, DrainDef
    <3>3. Drain[rest].left \in Pending /\ Len(Drain[rest].left) <= Len(rest)
      BY <1>1, <3>1
    <3>4. Len(rest) \in Nat /\ Len(r) \in Nat /\ Len(Drain[rest].left) \in Nat
      BY <3>1, <3>3 DEF Pending, Stream
    <3> HIDE DEF rest
    <3> QED BY <3>1, <3>2, <3>3, <3>4
  <2> QED BY <2>1, <2>2
<1>2. P \in SUBSET Stream /\ size \in [Stream -> Nat]
  BY DEF Stream
<1>3. P = Stream
  <2>1. ASSUME NEW r \in Stream, \A q \in Stream : size[q] < size[r] => q \in P
        PROVE  r \in P
    BY <1>1, <2>1
  <2> HIDE DEF P, size
  <2> QED BY <1>2, <2>1, InductionOnSize
<1> QED BY <1>3

(* Nothing comes of nothing. *)
LEMMA DrainOfNothing == Drain[<<>>] = [found |-> <<>>, left |-> <<>>]
<1>1. <<>> \in Stream /\ Len(<<>>) = 0
  BY DEF Stream
<1>2. Syncs(<<>>, 1) = {}
  BY DEF Syncs
<1>3. Waits(<<>>) /\ Left(<<>>) = <<>>
  BY <1>2 DEF Waits, Left, Kept
<1> QED BY <1>1, <1>3, DrainDef

-----------------------------------------------------------------------------
(* Finding the next frame. *)

(* A turn that finds nothing takes one byte. *)
LEMMA OtherTurn ==
  ASSUME NEW w \in Stream, 1 \in Syncs(w, 1), Len(w) >= 4, w[4] \notin {Csv, Rcu}
  PROVE  Drain[w] = Drain[Tail(w)] /\ Tail(w) = From(w, 2)
<1>1. Synced(w) = w /\ Syncs(w, 1) # {}
  BY SyncedAlready
<1>2. ~Waits(w)
  <2>1. Len(w) \in Nat
    BY DEF Stream
  <2> QED BY <1>1, <2>1 DEF Waits
<1>3. Rest(w) = Tail(w) /\ Frame(w) = <<>>
  BY DEF Rest, Frame
<1>4. Tail(w) \in Stream
  BY <1>1, <1>2, <1>3, TurnFacts
<1>5. Drain[Tail(w)] \in Drained
  BY <1>4, DrainDef
<1>6. Drain[w] = [found |-> <<>> \o Drain[Tail(w)].found, left |-> Drain[Tail(w)].left]
  BY <1>1, <1>2, <1>3, DrainDef
<1>7. ASSUME NEW d \in Drained PROVE [found |-> <<>> \o d.found, left |-> d.left] = d
  BY DEF Drained
<1>8. Tail(w) = From(w, 2)
  BY TailIsSubSeq DEF From, Stream
<1> QED BY <1>5, <1>6, <1>7, <1>8

(* Syncs that no marker follows are passed over. *)
LEMMA SkipTo ==
  ASSUME NEW w \in Stream, NEW p \in Syncs(w, 1),
         \A j \in Syncs(w, 1) : j < p => w[j + 3] \notin {Csv, Rcu}
  PROVE  Drain[w] = Drain[From(w, p)]
<1> DEFINE good(v) == \A q \in Syncs(v, 1) :
                        (\A j \in Syncs(v, 1) : j < q => v[j + 3] \notin {Csv, Rcu})
                          => Drain[v] = Drain[From(v, q)]
           P == {v \in Stream : good(v)}
           size == [v \in Stream |-> Len(v)]
<1>1. ASSUME NEW v \in Stream, \A u \in Stream : size[u] < size[v] => u \in P,
             NEW q \in Syncs(v, 1),
             \A j \in Syncs(v, 1) : j < q => v[j + 3] \notin {Csv, Rcu}
      PROVE  Drain[v] = Drain[From(v, q)]
  <2> DEFINE m == Min(Syncs(v, 1))
             b == From(v, m)
             c == From(v, m + 1)
  <2>1. m \in Syncs(v, 1) /\ \A j \in Syncs(v, 1) : m <= j
    BY FirstSync
  <2>2. /\ m \in Nat /\ 1 <= m /\ m + 2 <= Len(v) /\ m <= q /\ Len(v) \in Nat
        /\ q \in Nat /\ q + 2 <= Len(v)
    BY <2>1, SyncIs DEF Stream
  <2> HIDE DEF m
  <2>3. m \in 1 .. Len(v) + 1
    BY <2>2
  <2>4. Drain[v] = Drain[b]
    BY <2>1, <2>3, NoiseIsSkipped
  <2>5. CASE m = q
    BY <2>4, <2>5
  <2>6. CASE m # q
    <3>1. /\ b \in Stream /\ Len(b) = Len(v) - m + 1
          /\ \A k \in 1 .. Len(v) - m + 1 : b[k] = v[m + k - 1]
      BY <2>3, FromFacts
    <3>2. Len(b) >= 4 /\ b[4] = v[m + 3]
      <4>1. 4 \in 1 .. Len(v) - m + 1 /\ m + 4 - 1 = m + 3
        BY <2>2, <2>6
      <4> QED BY <2>2, <3>1, <4>1
    <3>3. v[m + 3] \notin {Csv, Rcu}
      BY <1>1, <2>1, <2>2, <2>6
    <3>4. 1 \in Syncs(b, 1)
      <4>1. m + 1 - 1 = m
        BY <2>2
      <4> QED BY <2>1, <2>3, <4>1, SyncsOfFrom
    <3> HIDE DEF b
    <3>5. Drain[b] = Drain[From(b, 2)]
      BY <3>1, <3>2, <3>3, <3>4, OtherTurn
    <3>6. From(b, 2) = c
      <4>1. 2 \in 1 .. Len(v) - m + 2 /\ m + 2 - 1 = m + 1
        BY <2>2
      <4> QED BY <2>3, <4>1, FromFrom DEF b
    <3>7. m + 1 \in 1 .. Len(v) + 1
      BY <2>2
    <3>8. /\ c \in Stream /\ Len(c) = Len(v) - (m + 1) + 1
          /\ \A k \in 1 .. Len(v) - (m + 1) + 1 : c[k] = v[m + 1 + k - 1]
      BY <3>7, FromFacts
    <3>9. good(c)
      BY <1>1, <2>2, <3>8
    <3> DEFINE o == q - m
    <3>10. o \in Syncs(c, 1)
      <4>1. o \in Nat /\ 1 <= o /\ (m + 1) + o - 1 = q
        BY <2>2, <2>6
      <4> QED BY <3>7, <4>1, SyncsOfFrom
    <3>11. ASSUME NEW j \in Syncs(c, 1), j < o PROVE c[j + 3] \notin {Csv, Rcu}
      <4>1. j \in Nat /\ 1 <= j
        BY <3>8, SyncIs
      <4>2. m + j \in Syncs(v, 1)
        <5>1. (m + 1) + j - 1 = m + j
          BY <2>2, <4>1
        <5> QED BY <3>7, <4>1, <5>1, SyncsOfFrom
      <4>3. m + j < q
        BY <2>2, <3>11, <4>1
      <4>4. v[(m + j) + 3] \notin {Csv, Rcu}
        BY <1>1, <4>2, <4>3
      <4>5. j + 3 \in 1 .. Len(v) - (m + 1) + 1 /\ m + 1 + (j + 3) - 1 = (m + j) + 3
        BY <2>2, <3>11, <4>1
      <4> QED BY <3>8, <4>4, <4>5
    <3>12. Drain[c] = Drain[From(c, o)]
      BY <3>9, <3>10, <3>11
    <3>13. From(c, o) = From(v, q)
      <4>1. o \in 1 .. Len(v) - (m + 1) + 2 /\ (m + 1) + o - 1 = q
        BY <2>2, <2>6
      <4> QED BY <3>7, <4>1, FromFrom
    <3> QED BY <2>4, <3>5, <3>6, <3>12, <3>13
  <2> QED BY <2>5, <2>6
<1>2. P \in SUBSET Stream /\ size \in [Stream -> Nat]
  BY DEF Stream
<1>3. P = Stream
  <2>1. ASSUME NEW v \in Stream, \A u \in Stream : size[u] < size[v] => u \in P
        PROVE  v \in P
    <3> HIDE DEF size
    <3> QED BY <1>1, <2>1
  <2> HIDE DEF P, size
  <2> QED BY <1>2, <2>1, InductionOnSize
<1>4. good(w)
  <2>1. w \in P
    BY <1>3
  <2> QED BY <2>1
<1> QED BY <1>4

(* Up to three bytes in front of a sync do not hide it. *)
LEMMA FewAreSkipped ==
  ASSUME NEW r \in Stream, Len(r) <= 3, NEW g \in Stream, 1 \in Syncs(g, 1)
  PROVE  Drain[r \o g] = Drain[g]
<1> DEFINE w == r \o g
           p == Len(r) + 1
<1>1. /\ w \in Stream /\ Len(r) \in Nat /\ Len(g) \in Nat
      /\ Len(w) = Len(r) + Len(g)
      /\ \A i \in 1 .. Len(r) : w[i] = r[i]
      /\ \A i \in 1 .. Len(g) : w[Len(r) + i] = g[i]
  BY ConcatFacts
<1>2. /\ Len(g) >= 3 /\ g[1] = Sync /\ g[2] = Sync /\ g[3] = Sync
  BY <1>1, SyncIs
<1>3. w[p] = Sync /\ w[p + 1] = Sync /\ w[p + 2] = Sync
  <2>1. /\ 1 \in 1 .. Len(g) /\ 2 \in 1 .. Len(g) /\ 3 \in 1 .. Len(g)
        /\ p + 1 = Len(r) + 2 /\ p + 2 = Len(r) + 3
    BY <1>1, <1>2
  <2> QED BY <1>1, <1>2, <2>1
<1>4. From(w, p) = g
  <2>1. p \in 1 .. Len(r) + 1
    BY <1>1
  <2>2. From(w, p) = From(r, p) \o g
    BY <2>1, FromConcat
  <2>3. From(r, p) = <<>>
    <3>1. \A i \in 1 .. Len(r) + 1 : /\ From(r, i) \in Stream
                                      /\ Len(From(r, i)) = Len(r) - i + 1
      BY FromFacts
    <3>2. From(r, p) \in Stream /\ Len(From(r, p)) = 0
      BY <1>1, <2>1, <3>1
    <3> QED BY <3>2, EmptySeq DEF Stream
  <2>4. <<>> \o g = g
    BY DEF Stream
  <2> QED BY <2>2, <2>3, <2>4
<1> HIDE DEF w
<1>5. p \in Syncs(w, 1)
  <2>1. p \in Nat /\ 1 <= p /\ p + 2 <= Len(w)
    BY <1>1, <1>2
  <2> QED BY <1>1, <1>3, <2>1, SyncIs
<1>6. ASSUME NEW j \in Syncs(w, 1), j < p PROVE w[j + 3] \notin {Csv, Rcu}
  <2>1. j \in Nat /\ 1 <= j
    BY <1>1, SyncIs
  <2>2. j + 3 = p \/ j + 3 = p + 1 \/ j + 3 = p + 2
    BY <1>1, <1>6, <2>1
  <2>3. w[j + 3] = Sync
    BY <1>3, <2>2
  <2> QED BY <2>3 DEF Sync, Csv, Rcu
<1>7. Drain[w] = Drain[From(w, p)]
  BY <1>1, <1>5, <1>6, SkipTo
<1> QED BY <1>4, <1>7 DEF w

(* An intact status frame is one. *)
LEMMA IntactFacts ==
  ASSUME NEW g \in Stream, Intact(g)
  PROVE  /\ Len(g) = Total /\ Len(g) >= 4
         /\ g[1] = Sync /\ g[2] = Sync /\ g[3] = Sync /\ g[4] = Csv
         /\ 1 \in Syncs(g, 1) /\ \A j \in Syncs(g, 1) : j = 1
<1>1. Len(g) = Total /\ Len(g) >= 4 /\ Len(g) \in Nat
  BY Lengths DEF Intact
<1>2. g[1] = Sync /\ g[2] = Sync /\ g[3] = Sync /\ g[4] = Csv
  <2>1. \A i \in 1 .. 4 : g[i] \in Byte
    BY <1>1 DEF Stream
  <2>2. \A i \in 1 .. 4 : SubSeq(g, 1, 4)[i] = g[1 + i - 1]
    BY <1>1, <2>1, SubSeqProperties DEF Stream
  <2>3. \A i \in 1 .. 4 : <<Sync, Sync, Sync, Csv>>[i] = g[i]
    <3>1. SubSeq(g, 1, 4) = <<Sync, Sync, Sync, Csv>>
      BY DEF Intact
    <3>2. \A i \in 1 .. 4 : SubSeq(g, 1, 4)[i] = g[i]
      BY <2>2
    <3> HIDE DEF Intact
    <3> QED BY <3>1, <3>2
  <2>4. \A i \in 1 .. 4 : g[i] = IF i = 4 THEN Csv ELSE Sync
    BY <2>3
  <2> QED BY <2>4
<1>3. 1 \in Syncs(g, 1)
  BY <1>1, <1>2, SyncIs
<1>4. ASSUME NEW j \in Syncs(g, 1) PROVE j = 1
  <2>1. /\ j \in Nat /\ 1 <= j /\ j + 2 <= Len(g)
        /\ g[j] = Sync /\ g[j + 1] = Sync /\ g[j + 2] = Sync
    BY SyncIs
  <2>2. j < 5
    <3>1. j \notin Syncs(g, 5)
      BY DEF Intact
    <3> QED BY <2>1, <3>1, SyncIs
  <2>3. j # 4 /\ j + 1 # 4 /\ j + 2 # 4
    BY <1>2, <2>1 DEF Sync, Csv
  <2> QED BY <2>1, <2>2, <2>3
<1> QED BY <1>1, <1>2, <1>3, <1>4

(* Alone, it is found, and nothing is left. *)
LEMMA IntactIsFound ==
  ASSUME NEW g \in Stream, Intact(g)
  PROVE  Drain[g] = [found |-> <<CsvFrame(SubSeq(g, 5, 4 + Payload))>>, left |-> <<>>]
<1>1. /\ Len(g) = Total /\ Len(g) >= 4 /\ g[4] = Csv /\ 1 \in Syncs(g, 1)
      /\ Len(g) \in Nat
  BY IntactFacts, Lengths
<1>2. Synced(g) = g /\ Syncs(g, 1) # {}
  BY <1>1, SyncedAlready
<1>3. Csv # Rcu
  BY DEF Csv, Rcu
<1>4. ~Waits(g)
  BY <1>1, <1>2, <1>3, Lengths DEF Waits
<1>5. Rest(g) = <<>>
  <2>1. Rest(g) = From(g, Total + 1)
    BY <1>1, <1>3 DEF Rest, AfterCsv
  <2>2. \A i \in 1 .. Len(g) + 1 : /\ From(g, i) \in Stream
                                  /\ Len(From(g, i)) = Len(g) - i + 1
    BY FromFacts
  <2>3. From(g, Total + 1) \in Stream /\ Len(From(g, Total + 1)) = 0
    BY <1>1, <2>2, Lengths
  <2> QED BY <2>1, <2>3, EmptySeq DEF Stream
<1>6. Frame(g) = <<CsvFrame(SubSeq(g, 5, 4 + Payload))>>
  BY <1>1, <1>3 DEF Frame
<1>7. Frame(g) \in Seq(Frames)
  BY <1>2, <1>4, TurnFacts
<1>8. Drain[g] = [found |-> Frame(g) \o Drain[<<>>].found, left |-> Drain[<<>>].left]
  BY <1>2, <1>4, <1>5, DrainDef
<1>9. Frame(g) \o <<>> = Frame(g)
  BY <1>7
<1> QED BY <1>6, <1>8, <1>9, DrainOfNothing

(* What is left after an intact frame cannot hide the next one, whatever   *)
(* was pending before it.                                                  *)
LEMMA IntactClears ==
  ASSUME NEW r \in Pending, NEW f \in Stream, Intact(f)
  PROVE  Len(Drain[r \o f].left) <= 3
<1>0. r \in Stream /\ Len(r) \in Nat /\ Total \in Nat /\ Len(f) = Total /\ Len(f) >= 4
  BY IntactFacts, Lengths DEF Pending, Stream
<1>1. /\ r \o f \in Stream /\ Len(r \o f) = Len(r) + Len(f)
      /\ \A i \in 1 .. Len(r) : (r \o f)[i] = r[i]
      /\ \A i \in 1 .. Len(f) : (r \o f)[Len(r) + i] = f[i]
  BY <1>0, ConcatFacts
<1>2. Len(Drain[f].left) = 0
  <2>1. Drain[f] = [found |-> <<CsvFrame(SubSeq(f, 5, 4 + Payload))>>, left |-> <<>>]
    BY IntactIsFound
  <2> QED BY <2>1
<1>3. CASE Len(r) <= 3
  <2>1. Drain[r \o f] = Drain[f]
    BY <1>0, <1>3, IntactFacts, FewAreSkipped
  <2> QED BY <1>2, <2>1
<1>4. ASSUME Len(r) >= 4, 1 \in Syncs(r, 1)
      PROVE  /\ Synced(r \o f) = r \o f /\ Syncs(r \o f, 1) # {}
             /\ (r \o f)[4] = r[4] /\ Len(r \o f) >= 4
  <2>1. 1 \in Syncs(r \o f, 1)
    BY <1>0, <1>4, SyncsOfConcat
  <2>2. Synced(r \o f) = r \o f
    BY <1>1, <2>1, SyncedAlready
  <2>3. (r \o f)[4] = r[4] /\ Len(r \o f) >= 4
    BY <1>0, <1>1, <1>4
  <2> QED BY <2>1, <2>2, <2>3
(* A torn status frame takes the head of this one; the rest has no sync.   *)
<1>5. CASE Len(r) >= 4 /\ 1 \in Syncs(r, 1) /\ r[4] = Csv /\ Len(r) < Total
  <2> DEFINE b == r \o f
             u == Total - Len(r) + 1
             y == From(f, u)
  <2>1. b \in Stream /\ Synced(b) = b /\ Syncs(b, 1) # {} /\ b[4] = Csv /\ Len(b) >= 4
        /\ Len(b) = Len(r) + Len(f)
    BY <1>1, <1>4, <1>5
  <2>2. u \in 1 .. Len(f) + 1 /\ u >= 2
    BY <1>0, <1>5
  <2>3. From(b, Total + 1) = y
    <3>1. b = r \o f /\ Len(r) + u = Total + 1
      BY <1>0
    <3> QED BY <1>0, <2>2, <3>1, FromBehind
  <2>4. y \in Stream
    BY <2>2, FromFacts
  <2>5. Syncs(y, 1) = {}
    <3> SUFFICES ASSUME NEW j \in Syncs(y, 1) PROVE FALSE
      OBVIOUS
    <3>1. j \in Nat /\ 1 <= j
      BY <2>4, SyncIs
    <3>2. u + j - 1 \in Syncs(f, 1)
      BY <2>2, <3>1, SyncsOfFrom
    <3> QED BY <1>0, <2>2, <3>1, <3>2, IntactFacts
  <2> HIDE DEF b, y
  <2>6. ~Waits(b) /\ Rest(b) = y
    <3>1. Csv # Rcu
      BY DEF Csv, Rcu
    <3>2. Len(b) >= Total
      BY <1>0, <2>1
    <3>3. ~Waits(b)
      BY <1>0, <2>1, <3>1, <3>2 DEF Waits
    <3> QED BY <2>1, <2>3, <3>1, <3>3 DEF Rest, AfterCsv
  <2>7. Drain[b].left = Drain[y].left
    BY <2>1, <2>6, DrainDef
  <2>8. Waits(y) /\ Left(y) = Kept(y)
    BY <2>5 DEF Waits, Left
  <2>9. Drain[y].left = Kept(y)
    BY <2>4, <2>8, DrainDef
  <2>10. Len(Kept(y)) <= 3
    BY <2>4, KeptFacts
  <2> QED BY <2>7, <2>9, <2>10 DEF b
(* An open display frame ends where this one begins, or two bytes sooner.  *)
<1>6. CASE Len(r) >= 4 /\ 1 \in Syncs(r, 1) /\ r[4] = Rcu /\ Syncs(r, 5) = {}
  <2> DEFINE b == r \o f
             q == RcuEnd(b)
             y == From(r, q)
  <2>1. /\ b \in Stream /\ Synced(b) = b /\ Syncs(b, 1) # {} /\ b[4] = Rcu /\ Len(b) >= 4
        /\ Len(b) = Len(r) + Len(f)
    BY <1>1, <1>4, <1>6
  <2>2. Len(r) + 1 \in Syncs(b, 5)
    <3>1. f[1] = Sync /\ f[2] = Sync /\ f[3] = Sync
      BY IntactFacts
    <3>2. b[Len(r) + 1] = Sync /\ b[Len(r) + 2] = Sync /\ b[Len(r) + 3] = Sync
      <4>1. 1 \in 1 .. Len(f) /\ 2 \in 1 .. Len(f) /\ 3 \in 1 .. Len(f)
        BY <1>0
      <4> QED BY <1>1, <3>1, <4>1
    <3>3. /\ Len(r) + 1 \in Nat /\ 5 <= Len(r) + 1 /\ (Len(r) + 1) + 2 <= Len(b)
          /\ (Len(r) + 1) + 1 = Len(r) + 2 /\ (Len(r) + 1) + 2 = Len(r) + 3
      BY <1>0, <1>6, <2>1
    <3> HIDE DEF b
    <3> QED BY <2>1, <3>2, <3>3, SyncIs
  <2>3. q \in Syncs(b, 5) /\ q <= Len(r) + 1
    BY <2>1, <2>2, RcuEndFacts
  <2>4. q \in Nat /\ 5 <= q
    BY <2>1, <2>3, SyncIs
  <2>5. ~(q + 2 <= Len(r))
    <3>1. q \notin Syncs(r, 5)
      BY <1>6
    <3> HIDE DEF q
    <3> QED BY <1>0, <2>3, <2>4, <3>1, SyncsOfConcat
  <2>6. q \in 1 .. Len(r) + 1
    BY <1>0, <2>3, <2>4
  <2>7. From(b, q) = y \o f
    <3> HIDE DEF q
    <3> QED BY <1>0, <2>6, FromConcat
  <2>8. y \in Stream /\ Len(y) <= 3
    <3>1. y \in Stream /\ Len(y) = Len(r) - q + 1
      <4> HIDE DEF q
      <4> QED BY <1>0, <2>6, FromFacts
    <3> QED BY <1>0, <2>4, <2>5, <3>1
  <2> HIDE DEF b, y, q
  <2>9. ~Waits(b) /\ Rest(b) = From(b, q)
    <3>1. Csv # Rcu
      BY DEF Csv, Rcu
    <3>2. ~Waits(b)
      BY <1>0, <2>1, <2>2, <3>1 DEF Waits
    <3> QED BY <2>1, <3>1, <3>2 DEF Rest, q
  <2>10. Drain[b].left = Drain[y \o f].left
    <3>1. Synced(b) = b /\ ~Waits(b) /\ b \in Stream
      BY <2>1, <2>9
    <3>2. Drain[b].left = Drain[Rest(b)].left
      BY <3>1, DrainDef
    <3> QED BY <2>7, <2>9, <3>2
  <2>11. Drain[y \o f] = Drain[f]
    BY <2>8, IntactFacts, FewAreSkipped
  <2> QED BY <1>2, <2>10, <2>11 DEF b
<1> QED BY <1>0, <1>3, <1>5, <1>6 DEF Pending

(* Of two intact frames in a row the second is the last found, whatever    *)
(* came before.                                                            *)
LEMMA SecondIsFound ==
  ASSUME NEW x \in Stream, NEW f \in Stream, NEW g \in Stream, Intact(f), Intact(g)
  PROVE  /\ Drain[(x \o f) \o g].left = <<>>
         /\ \E found \in Seq(Frames) :
              Drain[(x \o f) \o g].found
                = found \o <<CsvFrame(SubSeq(g, 5, 4 + Payload))>>
<1> DEFINE r == Drain[x].left
           y == Drain[x \o f].left
<1>1. x \o f \in Stream
  BY ConcatFacts
<1>2. r \in Pending
  BY DrainLeaves
<1>3. Len(y) <= 3 /\ y \in Stream
  <2>1. Drain[r \o f] \in Drained /\ Drain[x] \in Drained
    <3>1. r \in Stream
      BY <1>2 DEF Pending
    <3>2. r \o f \in Stream
      BY <3>1, ConcatFacts
    <3> QED BY <3>2, DrainDef
  <2>2. Drain[x \o f] = Then(Drain[x], Drain[r \o f])
    BY DrainSplits
  <2>3. y = Drain[r \o f].left
    <3> HIDE DEF r
    <3> QED BY <2>1, <2>2, ThenFacts
  <2>4. Len(Drain[r \o f].left) <= 3
    BY <1>2, IntactClears
  <2> QED BY <2>1, <2>3, <2>4 DEF Drained
<1>4. Drain[y \o g] = Drain[g]
  <2>1. 1 \in Syncs(g, 1)
    BY IntactFacts
  <2> HIDE DEF y
  <2> QED BY <1>3, <2>1, FewAreSkipped
<1>5. Drain[(x \o f) \o g] = Then(Drain[x \o f], Drain[g])
  BY <1>1, <1>4, DrainSplits
<1>6. Drain[g] = [found |-> <<CsvFrame(SubSeq(g, 5, 4 + Payload))>>, left |-> <<>>]
  BY IntactIsFound
<1>7. Drain[x \o f] \in Drained
  BY <1>1, DrainDef
<1>8. /\ Drain[(x \o f) \o g].left = <<>>
      /\ Drain[(x \o f) \o g].found
           = Drain[x \o f].found \o <<CsvFrame(SubSeq(g, 5, 4 + Payload))>>
  <2> DEFINE last == <<CsvFrame(SubSeq(g, 5, 4 + Payload))>>
             d == Drain[x \o f]
  <2>1. Then(d, [found |-> last, left |-> <<>>]) = [found |-> d.found \o last, left |-> <<>>]
    BY DEF Then
  <2> HIDE DEF last, d
  <2>2. Drain[(x \o f) \o g] = [found |-> d.found \o last, left |-> <<>>]
    BY <1>5, <1>6, <2>1 DEF last, d
  <2> QED BY <2>2 DEF last, d
<1>9. Drain[x \o f].found \in Seq(Frames)
  BY <1>7 DEF Drained
<1> QED BY <1>8, <1>9

-----------------------------------------------------------------------------
(* The invariant: what has been found is what the whole stream holds.  An  *)
(* open display frame that was flushed is the last of it.                  *)

Whole == Drain[stream]
AsWhole == got = Whole.found /\ buf = Whole.left
Flushed == /\ reads = MaxReads /\ buf = <<>> /\ Len(Whole.left) >= 4
           /\ got = Append(Whole.found, RcuFrame(From(Whole.left, 5)))
FramesInv == FramesTypeOK /\ (AsWhole \/ Flushed)

(* A chunk keeps it: reading a stream in two parts is reading it in one.   *)
LEMMA IngestKeeps ==
  ASSUME NEW chunk \in Chunks, FramesInv, Ingest(chunk)
  PROVE  FramesInv'
<1>1. /\ buf \in Stream /\ stream \in Stream /\ chunk \in Stream /\ got \in Seq(Frames)
      /\ reads \in Nat /\ reads < MaxReads /\ MaxReads \in Nat
  BY ChunksAssumption, MaxReadsAssumption DEF FramesInv, FramesTypeOK, Stream, Ingest
<1>2. AsWhole
  BY <1>1 DEF FramesInv, Flushed
<1>3. buf \o chunk \in Stream /\ stream \o chunk \in Stream
  BY <1>1, ConcatFacts
<1>4. PICK d \in Drained, e \in Drained : d = Drain[stream] /\ e = Drain[buf \o chunk]
  BY <1>1, <1>3, DrainDef
<1>5. got = d.found /\ buf = d.left
  BY <1>2, <1>4 DEF AsWhole, Whole
<1>6. Drain[stream \o chunk] = Then(d, e)
  <2>1. Drain[stream \o chunk] = Then(Drain[stream], Drain[Drain[stream].left \o chunk])
    BY <1>1, DrainSplits
  <2> QED BY <1>4, <1>5, <2>1
<1>7. /\ buf' = e.left /\ got' = got \o e.found /\ stream' = stream \o chunk
      /\ reads' = reads + 1 /\ Len(buf \o chunk) <= MaxBuffer
  BY <1>4 DEF Ingest
<1>8. AsWhole'
  <2>1. Then(d, e).found = d.found \o e.found /\ Then(d, e).left = e.left
    BY ThenFacts
  <2>2. Drain[stream'] = Then(d, e)
    BY <1>6, <1>7
  <2> QED BY <1>5, <1>7, <2>1, <2>2 DEF AsWhole, Whole
<1>9. FramesTypeOK'
  <2>1. e.left \in Stream /\ e.found \in Seq(Frames)
    BY DEF Drained
  <2>2. Len(e.left) <= MaxBuffer
    <3>1. Len(e.left) <= Len(buf \o chunk)
      BY <1>3, <1>4, DrainLeaves
    <3>2. Len(e.left) \in Nat /\ Len(buf \o chunk) \in Nat /\ MaxBuffer \in Nat
      BY <1>3, <2>1, Lengths DEF Stream
    <3> QED BY <1>7, <3>1, <3>2
  <2>3. got \o e.found \in Seq(Frames)
    BY <1>1, <2>1
  <2>4. reads + 1 \in 0 .. MaxReads
    BY <1>1
  <2> QED BY <1>3, <1>7, <2>1, <2>2, <2>3, <2>4 DEF FramesTypeOK, Stream
<1> QED BY <1>8, <1>9 DEF FramesInv

(* So does an empty buffer. *)
LEMMA EmptyKeeps ==
  ASSUME EmptyBuffer, got' = <<>>
  PROVE  FramesInv'
<1>1. Drain[stream'] = [found |-> <<>>, left |-> <<>>]
  BY DrainOfNothing DEF EmptyBuffer
<1>2. AsWhole'
  BY <1>1 DEF AsWhole, Whole, EmptyBuffer
<1>3. FramesTypeOK'
  BY Lengths, MaxReadsAssumption DEF FramesTypeOK, EmptyBuffer
<1> QED BY <1>2, <1>3 DEF FramesInv

(* And a flush, which only ends an open display frame. *)
LEMMA FlushKeeps ==
  ASSUME FramesInv, QuietFlush
  PROVE  FramesInv'
<1>1. buf \in Stream /\ got \in Seq(Frames) /\ Len(buf) >= 4 /\ Len(buf) \in Nat
  BY DEF FramesInv, FramesTypeOK, QuietFlush, Stream
<1>2. buf # <<>>
  BY <1>1
<1>3. AsWhole
  BY <1>2 DEF FramesInv, Flushed
<1>4. /\ buf' = <<>> /\ got' = Append(got, RcuFrame(From(buf, 5)))
      /\ reads' = MaxReads /\ stream' = stream
  BY DEF QuietFlush
<1>5. Flushed'
  BY <1>1, <1>3, <1>4 DEF Flushed, AsWhole, Whole
<1>6. FramesTypeOK'
  <2>1. From(buf, 5) \in Stream
    <3>1. 5 \in 1 .. Len(buf) + 1
      BY <1>1
    <3> QED BY <1>1, <3>1, FromFacts
  <2>2. RcuFrame(From(buf, 5)) \in Frames
    BY <2>1 DEF RcuFrame, Frames, Stream
  <2>3. Append(got, RcuFrame(From(buf, 5))) \in Seq(Frames)
    BY <1>1, <2>2
  <2> QED BY <1>4, <2>3, Lengths, MaxReadsAssumption DEF FramesTypeOK, FramesInv
<1> QED BY <1>5, <1>6 DEF FramesInv

(* The invariant is one. *)
LEMMA FramesInvHolds == FramesSpec => []FramesInv
<1>1. FramesInit => FramesInv
  <2> SUFFICES ASSUME FramesInit PROVE FramesInv
    OBVIOUS
  <2>1. Drain[stream] = [found |-> <<>>, left |-> <<>>]
    BY DrainOfNothing DEF FramesInit
  <2>2. AsWhole
    BY <2>1 DEF AsWhole, Whole, FramesInit
  <2>3. FramesTypeOK
    BY Lengths, MaxReadsAssumption DEF FramesTypeOK, FramesInit
  <2> QED BY <2>2, <2>3 DEF FramesInv
<1>2. FramesInv /\ [FramesNext]_framing => FramesInv'
  <2> SUFFICES ASSUME FramesInv, [FramesNext]_framing PROVE FramesInv'
    OBVIOUS
  <2>1. ASSUME NEW c \in Chunks, Ingest(c) PROVE FramesInv'
    BY <2>1, IngestKeeps
  <2>2. ASSUME NEW c \in Chunks, Overflow(c) PROVE FramesInv'
    BY <2>2, EmptyKeeps DEF Overflow
  <2>3. CASE QuietFlush
    BY <2>3, FlushKeeps
  <2>4. CASE Reopen
    BY <2>4, EmptyKeeps DEF Reopen
  <2>5. CASE UNCHANGED framing
    BY <2>5 DEF framing, FramesInv, FramesTypeOK, AsWhole, Flushed, Whole
  <2> QED BY <2>1, <2>2, <2>3, <2>4, <2>5 DEF FramesNext
<1> QED BY <1>1, <1>2, PTL DEF FramesSpec

(* The buffer never outgrows its limit, and what is handed on are frames.  *)
THEOREM FramesTypeCorrect == FramesSpec => []FramesTypeOK
<1>1. FramesInv => FramesTypeOK
  BY DEF FramesInv
<1> QED BY <1>1, FramesInvHolds, PTL

(* Where the reads cut the stream makes no difference to what is found.    *)
THEOREM CutsDoNotMatter == FramesSpec => []ChunksDoNotMatter
<1>1. FramesInv => ChunksDoNotMatter
  BY DEF FramesInv, ChunksDoNotMatter, AsWhole, Flushed, Whole
<1> QED BY <1>1, FramesInvHolds, PTL

(* Whatever came before, and however it was read, the second of two intact *)
(* status frames in a row is found.                                        *)
THEOREM ParserResynchronises == FramesSpec => []Resynchronises
<1>1. FramesInv => Resynchronises
  <2> DEFINE n == Len(stream)
             x == SubSeq(stream, 1, n - 2 * Total)
             f == SubSeq(stream, n - 2 * Total + 1, n - Total)
             g == SubSeq(stream, n - Total + 1, n)
             last == CsvFrame(SubSeq(g, 5, 4 + Payload))
  <2> SUFFICES ASSUME FramesInv, n >= 2 * Total, Intact(f), Intact(g)
               PROVE  got # <<>> /\ Last(got) = last
    BY DEF Resynchronises
  <2>1. stream \in Stream /\ n \in Nat /\ Total \in Nat /\ Total >= 4
    BY Lengths DEF FramesInv, FramesTypeOK, Stream
  <2>2. x \in Stream /\ f \in Stream /\ g \in Stream
    <3>1. \A i \in 1 .. n : stream[i] \in Byte
      BY <2>1 DEF Stream
    <3>2. ASSUME NEW i \in 1 .. n + 1, NEW j \in 0 .. n PROVE SubSeq(stream, i, j) \in Stream
      BY <2>1, <3>1, <3>2, SubSeqProperties DEF Stream
    <3>3. /\ n - 2 * Total + 1 \in 1 .. n + 1 /\ n - Total + 1 \in 1 .. n + 1 /\ 1 \in 1 .. n + 1
          /\ n - 2 * Total \in 0 .. n /\ n - Total \in 0 .. n /\ n \in 0 .. n
      BY <2>1
    <3> HIDE DEF n
    <3> QED BY <3>2, <3>3
  <2>3. stream = (x \o f) \o g
    <3>1. PICK i \in 0 .. Len(stream), j \in 0 .. Len(stream) :
            i = n - 2 * Total /\ j = n - Total
      <4>1. n - 2 * Total \in 0 .. Len(stream) /\ n - Total \in 0 .. Len(stream)
        BY <2>1
      <4> HIDE DEF n
      <4> QED BY <4>1
    <3>2. j \in i .. Len(stream)
      BY <2>1, <3>1
    <3>3. stream = (SubSeq(stream, 1, i) \o SubSeq(stream, i + 1, j))
                     \o SubSeq(stream, j + 1, Len(stream))
      BY <2>1, <3>2, Splits3
    <3> QED BY <3>1, <3>3
  <2> HIDE DEF n, x, f, g
  <2>4. Drain[stream].left = <<>>
    BY <2>2, <2>3, SecondIsFound
  <2>5. PICK found \in Seq(Frames) : Drain[stream].found = found \o <<last>>
    BY <2>2, <2>3, SecondIsFound
  <2>6. AsWhole
    <3>1. ~(Len(Whole.left) >= 4)
      BY <2>4 DEF Whole
    <3> QED BY <3>1 DEF FramesInv, Flushed
  <2>7. got = found \o <<last>>
    BY <2>5, <2>6 DEF AsWhole, Whole
  <2> HIDE DEF last
  <2>8. Len(got) = Len(found) + 1 /\ got[Len(found) + 1] = last /\ Len(found) \in Nat
    BY <2>7
  <2> QED BY <2>8 DEF Last
<1> QED BY <1>1, FramesInvHolds, PTL

-----------------------------------------------------------------------------
(* AmpReadings: arithmetic. *)

(* The smaller and the larger of two numbers are numbers, and one of the   *)
(* two.                                                                    *)
LEMMA AtMostAtLeast ==
  ASSUME NEW p \in Nat, NEW q \in Nat
  PROVE  /\ AtMost(p, q) \in Nat /\ AtMost(p, q) <= p /\ AtMost(p, q) <= q
         /\ AtLeast(p, q) \in Nat /\ p <= AtLeast(p, q) /\ q <= AtLeast(p, q)
         /\ AtMost(p, q) \in {p, q} /\ AtLeast(p, q) \in {p, q}
  BY DEF AtMost, AtLeast

(* Ages stop at Ever, beyond every limit they are compared with.           *)
LEMMA EverIsNat == Ever \in Nat /\ Ever > Hold /\ Ever >= Threshold + Interval
  BY PowerAssumption, MeterAssumption, PresenceAssumption DEF Ever

(* An age grows by one until it stops counting. *)
LEMMA OlderIsAge ==
  ASSUME NEW a \in Age
  PROVE  /\ Older(a) \in Age
         /\ a < Ever => Older(a) = a + 1
         /\ Older(a) >= a
  BY EverIsNat DEF Older, Age

(* The peak falls from where it was, and not below the reading. *)
LEMMA FallenIsBetween ==
  ASSUME NEW p \in Power, peak \in Power, csvAge \in Age
  PROVE  /\ Fallen(p) \in Power
         /\ p <= Fallen(p)
         /\ Fallen(p) <= AtLeast(p, peak)
<1>1. Decay * csvAge \in Nat
  BY EverIsNat, MeterAssumption DEF Age
<1>2. Less(peak, Decay * csvAge) \in Power /\ Less(peak, Decay * csvAge) <= peak
  BY <1>1, PowerAssumption DEF Less, Power
<1> QED
  BY <1>2, PowerAssumption DEF Fallen, AtLeast, Power

-----------------------------------------------------------------------------
(* The types. *)

(* The first state is well typed.                                          *)
LEMMA InitTypeOK == ReadingsInit => ReadingsTypeOK
  BY PowerAssumption, PresenceAssumption, EverIsNat
  DEF ReadingsInit, ReadingsTypeOK, Power, Age, None

(* A status frame (_consume_csv_frame) keeps powers and ages in their      *)
(* ranges.                                                                 *)
LEMMA FrameTypeOK ==
  ASSUME ReadingsTypeOK, NEW frame \in Fields, StatusFrame(frame)
  PROVE  ReadingsTypeOK'
<1> USE DEF ReadingsTypeOK
<1> DEFINE k == KeyOf(frame)
           p == frame.p
<1>1. p \in Power /\ k \in Ops \X Txs
  BY DEF Fields, KeyOf, Ops, Txs
<1>2. 0 \in Age /\ 0 \in Power
  BY EverIsNat, PowerAssumption DEF Age, Power
<1>3. key' \in Ops \X Txs /\ power' \in Power
  BY <1>1 DEF StatusFrame
<1>4. peak' \in Power /\ held' \in Age
  BY <1>1, <1>2, FallenIsBetween DEF StatusFrame
<1>5. avg' \in Power
  <2>1. CASE k # key
    BY <2>1, <1>1 DEF StatusFrame, Smoothed
  <2>2. CASE k = key
    <3>1. avg' \in AtMost(avg, p)..AtLeast(avg, p)
      BY <2>2 DEF StatusFrame, Smoothed
    <3> QED
      BY <3>1, <1>1, PowerAssumption DEF AtMost, AtLeast, Power
  <2> QED
    BY <2>1, <2>2
<1>6. csvAge' \in Age /\ top' \in Power /\ topAge' \in Age /\ low' \in Power
  BY <1>1, <1>2 DEF StatusFrame, Remember, AtMost
<1> QED
  BY <1>3, <1>4, <1>5, <1>6 DEF StatusFrame

(* So does every step.                                                     *)
LEMMA StepTypeOK == ReadingsTypeOK /\ [ReadingsNext]_readings => ReadingsTypeOK'
<1> SUFFICES ASSUME ReadingsTypeOK, [ReadingsNext]_readings PROVE ReadingsTypeOK'
  OBVIOUS
<1>1. ASSUME NEW frame \in Fields, StatusFrame(frame) PROVE ReadingsTypeOK'
  BY <1>1, FrameTypeOK
<1>2. CASE UNCHANGED readings
  BY <1>2 DEF ReadingsTypeOK, readings, meter, history
<1>3. ASSUME NEW frame \in Fields, DamagedFrame(frame) PROVE ReadingsTypeOK'
  BY <1>3 DEF DamagedFrame, ReadingsTypeOK, readings, meter, history
<1>4. CASE DisplayFrame
  BY <1>4, EverIsNat DEF DisplayFrame, ReadingsTypeOK, meter, history, Age
<1>5. CASE Heartbeat
  BY <1>5, PresenceAssumption DEF Heartbeat, ReadingsTypeOK, meter, history
<1>6. CASE Tick
  BY <1>6, OlderIsAge, PresenceAssumption DEF Tick, ReadingsTypeOK
<1> QED
  BY <1>1, <1>2, <1>3, <1>4, <1>5, <1>6 DEF ReadingsNext

(* Every variable of the meter and of the presence heartbeat keeps its     *)
(* type: powers stay within what the amplifier reports, ages within what   *)
(* is counted.                                                             *)
THEOREM ReadingsTypeCorrect == ReadingsSpec => []ReadingsTypeOK
  BY InitTypeOK, StepTypeOK, PTL DEF ReadingsSpec

-----------------------------------------------------------------------------
(* The meter.  While the highest power is recent, the peak was pinned when *)
(* it was reported: the two ages are one.                                  *)

MeterInv ==
  /\ power <= peak /\ peak <= top
  /\ topAge <= Hold => peak = top /\ held = topAge

(* How far the peak may have fallen: until the highest power stops being   *)
(* counted, its age and the silence since the last frame are true times.   *)
FallInv ==
  /\ csvAge <= topAge
  /\ topAge < Ever => top - peak <= Decay * (topAge - csvAge)

(* Before the first frame the meter shows nothing.                         *)
LEMMA InitMeter == ReadingsInit => MeterInv /\ FallInv
<1>1. ReadingsInit => MeterInv
  BY EverIsNat, MeterAssumption DEF ReadingsInit, MeterInv
<1>2. ReadingsInit => FallInv
  BY EverIsNat DEF ReadingsInit, FallInv
<1> QED
  BY <1>1, <1>2

(* What a status frame leaves, in numbers.                                 *)
LEMMA FrameNumbers ==
  ASSUME ReadingsTypeOK, NEW frame \in Fields
  PROVE  /\ frame.p \in Nat /\ power \in Nat /\ peak \in Nat /\ avg \in Nat
         /\ top \in Nat /\ low \in Nat
         /\ csvAge \in Nat /\ held \in Nat /\ topAge \in Nat /\ Hold \in Nat
  BY PowerAssumption, MeterAssumption, EverIsNat
  DEF Fields, ReadingsTypeOK, Power, Age

(* A status frame keeps the meter true: it restarts with the state, rises  *)
(* at once, and falls only when the hold time is over.                     *)
LEMMA FrameMeter ==
  ASSUME ReadingsTypeOK, MeterInv, NEW frame \in Fields, StatusFrame(frame)
  PROVE  MeterInv'
<1> DEFINE k == KeyOf(frame)
           p == frame.p
<1>0. /\ p \in Nat /\ power \in Nat /\ peak \in Nat
      /\ top \in Nat /\ csvAge \in Nat /\ held \in Nat /\ topAge \in Nat
      /\ Hold \in Nat
  BY FrameNumbers
<1>1. CASE k # key
  <2>1. power' = p /\ peak' = p /\ held' = 0 /\ top' = p /\ topAge' = 0
    BY <1>1 DEF StatusFrame, Pins, Remember
  <2> QED
    BY <2>1, <1>0 DEF MeterInv
<1>2. CASE k = key /\ p >= top
  <2>1. Pins(k, p)
    BY <1>0, <1>2 DEF Pins, MeterInv
  <2>2. power' = p /\ peak' = p /\ held' = 0 /\ top' = p /\ topAge' = 0
    BY <1>2, <2>1 DEF StatusFrame, Remember
  <2> QED
    BY <2>2, <1>0 DEF MeterInv
<1>3. CASE k = key /\ ~(p >= top)
  <2>1. power' = p /\ top' = top /\ topAge' = topAge
    BY <1>3 DEF StatusFrame, Remember
  <2>3. CASE p >= peak
    <3>1. peak' = p /\ topAge > Hold
      BY <2>3, <1>0, <1>3 DEF StatusFrame, Pins, MeterInv
    <3> QED
      BY <3>1, <2>1, <1>0, <1>3 DEF MeterInv
  <2>4. CASE ~(p >= peak) /\ held > Hold
    <3>1. peak' = Fallen(p) /\ topAge > Hold
      BY <2>4, <1>0, <1>3 DEF StatusFrame, Pins, MeterInv
    <3>2. Fallen(p) \in Nat /\ p <= Fallen(p) /\ Fallen(p) <= AtLeast(p, peak)
      BY FallenIsBetween, PowerAssumption DEF Fields, ReadingsTypeOK, Power
    <3>3. AtLeast(p, peak) <= top
      BY <1>0, <1>3 DEF AtLeast, MeterInv
    <3>4. AtLeast(p, peak) \in Nat
      BY <1>0, AtMostAtLeast
    <3> QED
      BY <3>1, <3>2, <3>3, <3>4, <2>1, <1>0 DEF MeterInv
  <2>5. CASE ~(p >= peak) /\ ~(held > Hold)
    <3>1. peak' = peak /\ held' = held
      BY <2>5, <1>3 DEF StatusFrame, Pins
    <3> QED
      BY <3>1, <2>1, <2>5, <1>0 DEF MeterInv
  <2> QED
    BY <2>3, <2>4, <2>5
<1> QED
  BY <1>1, <1>2, <1>3

(* The time since the last frame splits what the peak may have fallen.     *)
LEMMA DecaySplits ==
  ASSUME NEW a \in Nat, NEW b \in Nat, b <= a
  PROVE  /\ Decay * (a - b) + Decay * b = Decay * a
         /\ Decay * (a - b) \in Nat /\ Decay * b \in Nat /\ Decay * a \in Nat
<1>1. PICK d \in Nat : a = b + d
  BY a - b \in Nat, a = b + (a - b)
<1>2. Decay * (b + d) = Decay * b + Decay * d
  BY MeterAssumption
<1>3. Decay * d \in Nat /\ Decay * b \in Nat
  BY MeterAssumption
<1> QED
  BY <1>1, <1>2, <1>3

(* One fall after another: what they take off together is their sum. *)
LEMMA TwoFalls ==
  ASSUME NEW x \in Nat, NEW y \in Nat, NEW z \in Nat,
         NEW first \in Nat, NEW second \in Nat, NEW both,
         first + second = both, x - y <= first, y <= z + second
  PROVE  x - z <= both
<1>1. x <= y + first
  OBVIOUS
<1>2. y + first <= z + second + first
  OBVIOUS
<1> QED
  BY <1>1, <1>2

(* A status frame takes no more off the peak than the rate allows.         *)
LEMMA FrameFall ==
  ASSUME ReadingsTypeOK, MeterInv, FallInv, NEW frame \in Fields,
         StatusFrame(frame)
  PROVE  FallInv'
<1> DEFINE k == KeyOf(frame)
           p == frame.p
<1>0. /\ p \in Nat /\ peak \in Nat /\ top \in Nat
      /\ csvAge \in Nat /\ topAge \in Nat /\ csvAge' = 0 /\ peak <= top
  BY FrameNumbers DEF StatusFrame, MeterInv
<1>1. CASE k # key \/ p >= top
  <2>1. top' = p /\ topAge' = 0
    BY <1>1 DEF StatusFrame, Remember
  <2>2. peak' = p
    BY <1>0, <1>1 DEF StatusFrame, Pins
  <2>3. Decay * (0 - 0) = 0
    BY MeterAssumption
  <2> QED
    BY <1>0, <2>1, <2>2, <2>3 DEF FallInv
<1>2. CASE k = key /\ ~(p >= top)
  <2> DEFINE last == Decay * csvAge
             all == Decay * topAge
             before == Decay * (topAge - csvAge)
  <2>1. top' = top /\ topAge' = topAge
    BY <1>2 DEF StatusFrame, Remember
  <2>2. before + last = all /\ before \in Nat /\ last \in Nat /\ all \in Nat
    BY <1>0, DecaySplits DEF FallInv
  <2>3. Decay * (topAge - 0) = all
    BY <1>0
  <2>4. peak' \in Nat /\ peak <= peak' + last
    <3>1. CASE p >= peak
      BY <1>0, <1>2, <2>2, <3>1 DEF StatusFrame, Pins
    <3>2. CASE ~(p >= peak) /\ held > Hold
      <4>1. peak' = Fallen(p)
        BY <1>2, <3>2 DEF StatusFrame, Pins
      <4>2. Less(peak, last) \in Nat /\ peak <= Less(peak, last) + last
        BY <1>0, <2>2 DEF Less
      <4>3. Fallen(p) \in Nat /\ Less(peak, last) <= Fallen(p)
        BY <1>0, <4>2 DEF Fallen, AtLeast
      <4> QED
        BY <1>0, <2>2, <4>1, <4>2, <4>3
    <3>3. CASE ~(p >= peak) /\ ~(held > Hold)
      BY <1>0, <1>2, <2>2, <3>3 DEF StatusFrame, Pins
    <3> QED
      BY <3>1, <3>2, <3>3
  <2>5. topAge < Ever => top - peak <= before
    BY DEF FallInv
  <2> HIDE DEF last, all, before
  <2>6. ASSUME topAge < Ever PROVE top - peak' <= all
    <3>1. top - peak <= before
      BY <2>5, <2>6
    <3>2. /\ top \in Nat /\ peak \in Nat /\ peak' \in Nat
          /\ before \in Nat /\ last \in Nat /\ before + last = all
      BY <1>0, <2>2, <2>4
    <3> QED
      BY <2>4, <3>1, <3>2, TwoFalls
  <2> QED
    BY <1>0, <2>1, <2>3, <2>6 DEF FallInv
<1> QED
  BY <1>1, <1>2

(* Time leaves the meter as it is. *)
LEMMA TickMeter ==
  ASSUME ReadingsTypeOK, MeterInv, FallInv, Tick
  PROVE  MeterInv' /\ FallInv'
<1>1. /\ held \in Age /\ topAge \in Age /\ csvAge \in Age /\ Hold \in Nat
      /\ Older(topAge) \in Nat /\ Ever \in Nat
  BY EverIsNat, MeterAssumption, OlderIsAge DEF ReadingsTypeOK, Age
<1>2. MeterInv'
  <2>2. ASSUME topAge' <= Hold PROVE topAge <= Hold /\ held' = topAge'
    <3>1. topAge <= Hold
      BY <1>1, <2>2, OlderIsAge DEF Tick, Age
    <3> QED
      BY <3>1 DEF Tick, MeterInv
  <2> QED
    BY <2>2 DEF Tick, MeterInv
<1>3. csvAge' <= topAge'
  BY <1>1 DEF Tick, Older, Age, FallInv
<1>4. ASSUME topAge' < Ever
      PROVE  topAge < Ever /\ topAge' - csvAge' = topAge - csvAge
  BY <1>1, <1>4 DEF Tick, Older, Age, FallInv
<1>5. top' = top /\ peak' = peak
  BY DEF Tick
<1> QED
  BY <1>2, <1>3, <1>4, <1>5 DEF FallInv

(* So does every step.                                                     *)
LEMMA StepMeter ==
  ReadingsTypeOK /\ MeterInv /\ FallInv /\ [ReadingsNext]_readings
    => MeterInv' /\ FallInv'
<1> SUFFICES ASSUME ReadingsTypeOK, MeterInv, FallInv, [ReadingsNext]_readings
             PROVE  MeterInv' /\ FallInv'
  OBVIOUS
<1>1. ASSUME NEW frame \in Fields, StatusFrame(frame)
      PROVE  MeterInv' /\ FallInv'
  BY <1>1, FrameMeter, FrameFall
<1>2. CASE UNCHANGED meter
  BY <1>2 DEF MeterInv, FallInv, meter, history
<1>3. CASE Tick
  BY <1>3, TickMeter
<1> QED
  BY <1>1, <1>2, <1>3
  DEF ReadingsNext, DamagedFrame, DisplayFrame, Heartbeat, readings

(* The peak on show is at least the reading and at most the highest        *)
(* reading since the amplifier entered its state, is that one for the hold *)
(* time, and has then fallen no further than Decay allows for the time     *)
(* from that reading to the last frame.                                    *)
THEOREM MeterCorrect == ReadingsSpec => []MeterIsTrue
<1>1. ReadingsTypeOK /\ MeterInv /\ FallInv => MeterIsTrue
  <2> SUFFICES ASSUME ReadingsTypeOK, MeterInv, FallInv PROVE MeterIsTrue
    OBVIOUS
  <2> DEFINE fall == Decay * (topAge - csvAge)
  <2>1. peak \in Nat /\ top \in Nat /\ topAge \in Nat /\ csvAge \in Nat
    BY PowerAssumption, EverIsNat DEF ReadingsTypeOK, Power, Age
  <2>2. fall \in Nat
    BY <2>1, DecaySplits DEF FallInv
  <2>3. topAge < Ever => top - peak <= fall
    BY DEF FallInv
  <2> HIDE DEF fall
  <2>4. topAge < Ever => peak >= Less(top, fall)
    BY <2>1, <2>2, <2>3 DEF Less
  <2> QED
    BY <2>4 DEF fall, MeterInv, MeterIsTrue
<1> QED
  BY <1>1, InitTypeOK, StepTypeOK, InitMeter, StepMeter, PTL DEF ReadingsSpec

-----------------------------------------------------------------------------
(* The average. *)

(* A status frame keeps the average among the readings of its state.       *)
LEMMA FrameAverage ==
  ASSUME ReadingsTypeOK, AverageIsTrue, NEW frame \in Fields,
         StatusFrame(frame)
  PROVE  AverageIsTrue'
<1> DEFINE k == KeyOf(frame)
           p == frame.p
<1>0. p \in Nat /\ avg \in Nat /\ top \in Nat /\ low \in Nat
  BY FrameNumbers
<1>1. CASE k # key
  <2>1. avg' = p /\ top' = p /\ low' = p
    BY <1>1 DEF StatusFrame, Smoothed, Remember
  <2> QED
    BY <1>0, <2>1 DEF AverageIsTrue
<1>2. CASE k = key
  <2>1. avg' \in AtMost(avg, p)..AtLeast(avg, p)
    BY <1>2 DEF StatusFrame, Smoothed
  <2>2. low' = AtMost(low, p) /\ top' = AtLeast(top, p)
    BY <1>0, <1>2 DEF StatusFrame, Remember, AtLeast
  <2> QED
    BY <1>0, <2>1, <2>2 DEF AtMost, AtLeast, AverageIsTrue
<1> QED
  BY <1>1, <1>2

(* The average on show lies between the lowest and the highest reading     *)
(* since the amplifier entered its operating and TX state: the reset       *)
(* leaves nothing of the state before in it.                               *)
THEOREM AverageCorrect == ReadingsSpec => []AverageIsTrue
<1>1. ReadingsInit => AverageIsTrue
  BY DEF ReadingsInit, AverageIsTrue
<1>2. ReadingsTypeOK /\ AverageIsTrue /\ [ReadingsNext]_readings => AverageIsTrue'
  <2> SUFFICES ASSUME ReadingsTypeOK, AverageIsTrue, [ReadingsNext]_readings
               PROVE  AverageIsTrue'
    OBVIOUS
  <2>1. ASSUME NEW frame \in Fields, StatusFrame(frame) PROVE AverageIsTrue'
    BY <2>1, FrameAverage
  <2>2. CASE UNCHANGED <<avg, top, low>>
    BY <2>2 DEF AverageIsTrue
  <2> QED
    BY <2>1, <2>2 DEF ReadingsNext, DamagedFrame, DisplayFrame, Heartbeat, Tick,
                      readings, meter, history
<1> QED
  BY <1>1, <1>2, InitTypeOK, StepTypeOK, PTL DEF ReadingsSpec

-----------------------------------------------------------------------------
(* Presence.  After an "up", the silence and the time to the next          *)
(* heartbeat together stay below the promise; after a "down", the silence  *)
(* has grown with the time since, or a frame has ended it.                 *)

PresenceInv ==
  /\ told = "up" => Silence + beatIn < Threshold + Interval
  /\ told = "down" => LET since == Interval - beatIn
                      IN  Silence <= since \/ Silence >= Threshold + since

(* Both ages grow together, so the silence grows as they do. *)
LEMMA OlderSilence ==
  ASSUME NEW a \in Age, NEW b \in Age
  PROVE  AtMost(Older(a), Older(b)) = Older(AtMost(a, b))
  BY EverIsNat DEF AtMost, Older, Age

(* The silence is a number. *)
LEMMA SilenceIsAge == ReadingsTypeOK => Silence \in Age /\ Silence \in Nat
  BY EverIsNat DEF ReadingsTypeOK, Silence, AtMost, Age

(* A frame of either kind ends the silence. *)
LEMMA HeardPresence ==
  ASSUME ReadingsTypeOK, csvAge' = 0 \/ rcuAge' = 0,
         csvAge' \in Nat, rcuAge' \in Nat, UNCHANGED <<beatIn, told>>
  PROVE  PresenceInv'
<1>1. Silence' = 0
  BY DEF Silence, AtMost
<1>2. beatIn' \in 0..Interval /\ Threshold \in Nat \ {0} /\ Interval \in Nat
  BY PresenceAssumption DEF ReadingsTypeOK
<1> QED
  BY <1>1, <1>2 DEF PresenceInv

(* Every step keeps the time that is left for the amplifier to be missed,  *)
(* and the silence it was missed for.                                      *)
LEMMA StepPresence == ReadingsTypeOK /\ PresenceInv /\ [ReadingsNext]_readings => PresenceInv'
<1> SUFFICES ASSUME ReadingsTypeOK, PresenceInv, [ReadingsNext]_readings PROVE PresenceInv'
  OBVIOUS
<1>0. /\ csvAge \in Nat /\ rcuAge \in Nat /\ beatIn \in 0..Interval
      /\ Threshold \in Nat \ {0} /\ Interval \in Nat \ {0} /\ Silence \in Nat
  BY PresenceAssumption, EverIsNat, SilenceIsAge DEF ReadingsTypeOK, Age
<1>1. ASSUME NEW frame \in Fields, StatusFrame(frame) PROVE PresenceInv'
  <2>1. csvAge' = 0 /\ rcuAge' = rcuAge /\ UNCHANGED <<beatIn, told>>
    BY <1>1 DEF StatusFrame
  <2> QED
    BY <2>1, <1>0, HeardPresence
<1>2. CASE UNCHANGED readings
  BY <1>2 DEF PresenceInv, Silence, AtMost, readings, meter
<1>3. CASE DisplayFrame
  <2>1. csvAge' = csvAge /\ rcuAge' = 0 /\ UNCHANGED <<beatIn, told>>
    BY <1>3 DEF DisplayFrame, meter
  <2> QED
    BY <2>1, <1>0, HeardPresence
<1>4. CASE Heartbeat
  <2>1. Silence' = Silence /\ beatIn' = Interval
    BY <1>4 DEF Heartbeat, meter, Silence, AtMost
  <2>2. told' = IF Silence < Threshold THEN "up" ELSE "down"
    BY <1>4 DEF Heartbeat, Alive
  <2> QED
    BY <2>1, <2>2, <1>0 DEF PresenceInv
<1>5. CASE Tick
  <2>1. told' = told /\ beatIn > 0 /\ beatIn' = beatIn - 1
    BY <1>5 DEF Tick
  <2>2. Silence' = Older(Silence) /\ Silence \in Age
    <3>1. csvAge \in Age /\ rcuAge \in Age
      BY DEF ReadingsTypeOK
    <3>2. csvAge' = Older(csvAge) /\ rcuAge' = Older(rcuAge)
      BY <1>5 DEF Tick
    <3> QED
      BY <3>1, <3>2, OlderSilence, SilenceIsAge DEF Silence
  <2>3. /\ Silence' \in Nat
        /\ Silence' = Silence + 1 \/ (Silence' = Silence /\ Silence = Ever)
    BY <2>2, EverIsNat DEF Older, Age
  <2>4. ASSUME told' = "up" PROVE Silence' + beatIn' < Threshold + Interval
    <3>1. Silence + beatIn < Threshold + Interval
      BY <2>1, <2>4 DEF PresenceInv
    <3>2. Silence' <= Silence + 1
      BY <2>3, <1>0
    <3>3. \A s, t \in Nat : s + beatIn < Threshold + Interval /\ t <= s + 1 =>
                             t + beatIn' < Threshold + Interval
      BY <2>1, <1>0
    <3>4. Silence \in Nat /\ Silence' \in Nat
      BY <2>3, <1>0
    <3> QED
      BY <3>1, <3>2, <3>3, <3>4, Zenon
  <2>5. ASSUME told' = "down"
        PROVE  \/ Silence' <= Interval - beatIn'
               \/ Silence' >= Threshold + (Interval - beatIn')
    BY <2>1, <2>3, <2>5, <1>0, EverIsNat DEF PresenceInv
  <2> QED
    BY <2>4, <2>5 DEF PresenceInv
<1> QED
  BY <1>1, <1>2, <1>3, <1>4, <1>5 DEF ReadingsNext, DamagedFrame

(* An amplifier of which neither kind of frame is heard any more is no     *)
(* longer called up when Threshold + Interval have passed, and none is     *)
(* called down that was heard within Threshold of the heartbeat.           *)
THEOREM PresenceCorrect == ReadingsSpec => []PresenceIsTrue
<1>1. ReadingsInit => PresenceInv
  BY DEF ReadingsInit, PresenceInv
<1>2. ReadingsTypeOK /\ PresenceInv => PresenceIsTrue
  <2> SUFFICES ASSUME ReadingsTypeOK, PresenceInv PROVE PresenceIsTrue
    OBVIOUS
  <2>1. /\ beatIn \in 0..Interval /\ Silence \in Nat
        /\ Threshold \in Nat /\ Interval \in Nat
    BY PresenceAssumption, SilenceIsAge DEF ReadingsTypeOK
  <2> HIDE DEF Silence
  <2> QED
    BY <2>1 DEF PresenceInv, PresenceIsTrue
<1> QED
  BY <1>1, <1>2, InitTypeOK, StepTypeOK, StepPresence, PTL DEF ReadingsSpec
=============================================================================
