----------------------------- MODULE RadioProofs -----------------------------
(***************************************************************************)
(* RadioController for every set of settings and changes, every shipped    *)
(* configuration and any number of calls under way: the connection is to   *)
(* the radio of the configuration in effect, and that configuration does   *)
(* not change under a cycle that has its connection.                       *)
(***************************************************************************)
EXTENDS RadioController, DataLemmas

-----------------------------------------------------------------------------
(* The lock as one line of calls: its holder, and those who wait. *)

LineOf(held, waiting) ==
  (IF held = {} THEN <<>> ELSE <<CHOOSE c \in held : TRUE>>) \o waiting
Line == LineOf(holder, waiters)

(* The lock has one holder at most, and nobody waits for a free lock.      *)
LockShape ==
  /\ holder = {} => waiters = <<>>
  /\ holder # {} => \E h \in Call : holder = {h}

CycleConnects == {"tuneConnect", "tuneDialling"}
CycleOps == CycleConnects \cup {"tuneRelease"}
Dialling == {"dialling", "tuneDialling"}

(* One call of the cycle at most is in the line, and it is of the cycle's  *)
(* present phase.  No change is behind the cycle's connect, and none is in *)
(* the line once the cycle has been served: that is what order of arrival  *)
(* is good for.  Who dials is first, and dials the radio in effect.        *)
OneCycleCall ==
  \A i, j \in DOMAIN Line :
    Line[i].op \in CycleOps /\ Line[j].op \in CycleOps => i = j
CycleCallFits ==
  \A i \in DOMAIN Line : /\ Line[i].op \in CycleConnects => tune = "connect"
                         /\ Line[i].op = "tuneRelease" => tune = "release"
ChangesGoFirst ==
  /\ \A i, j \in DOMAIN Line :
       Line[i].op \in CycleConnects /\ Line[j].op = "reconfigure" => j < i
  /\ \A i \in DOMAIN Line :
       Line[i].op = "reconfigure" => tune \in {"idle", "connect"}
DialsInEffect ==
  \A i \in DOMAIN Line :
    Line[i].op \in Dialling => i = 1 /\ Line[i].cfg = live

LineInv == /\ LockShape /\ OneCycleCall /\ CycleCallFits /\ ChangesGoFirst
           /\ DialsInEffect

-----------------------------------------------------------------------------
(* How the line moves. *)

(* A line of one holder and those who wait. *)
LEMMA HeldLine ==
  ASSUME NEW h \in Call, NEW w \in Seq(Call)
  PROVE  /\ LineOf({h}, w) \in Seq(Call) /\ LineOf({h}, w) # <<>>
         /\ LineOf({h}, w)[1] = h /\ Tail(LineOf({h}, w)) = w
         /\ (CHOOSE c \in {h} : TRUE) = h
<1>1. (CHOOSE c \in {h} : TRUE) = h
  OBVIOUS
<1>2. LineOf({h}, w) = <<h>> \o w
  BY <1>1 DEF LineOf
<1>3. /\ <<h>> \o w \in Seq(Call) /\ <<h>> \o w # <<>>
      /\ (<<h>> \o w)[1] = h /\ Tail(<<h>> \o w) = w
  BY PutInFront
<1> QED
  BY <1>1, <1>2, <1>3

(* A free lock has no line.                                                *)
LEMMA FreeLine == LineOf({}, <<>>) = <<>>
  BY DEF LineOf

(* The line as it stands. *)
LEMMA LineStands ==
  ASSUME TypeOK, LockShape
  PROVE  /\ Line \in Seq(Call)
         /\ holder = {} <=> Line = <<>>
         /\ holder # {} => /\ holder = {Line[1]} /\ Held = Line[1]
                           /\ waiters = Tail(Line)
<1>1. CASE holder = {}
  BY <1>1, FreeLine, EmptySeq DEF LockShape, Line
<1>2. CASE holder # {}
  <2>1. PICK h \in Call : holder = {h}
    BY <1>2 DEF LockShape
  <2> QED
    BY <2>1, HeldLine DEF TypeOK, Line, Held
<1> QED
  BY <1>1, <1>2

(* Who asks for the lock is the last in the line. *)
LEMMA AcquireLine ==
  ASSUME TypeOK, LockShape, NEW call \in Call, Acquire(call)
  PROVE  /\ LockShape' /\ holder' \subseteq Call /\ waiters' \in Seq(Call)
         /\ Line' = Append(Line, call)
<1>1. CASE holder = {}
  <2>1. holder' = {call} /\ waiters' = <<>> /\ waiters = <<>>
    BY <1>1 DEF Acquire, LockShape
  <2>2. <<>> \in Seq(Call) /\ Append(<<>>, call) = <<call>> \o <<>>
    OBVIOUS
  <2>3. (CHOOSE c \in {call} : TRUE) = call
    OBVIOUS
  <2>4. LineOf({call}, <<>>) = <<call>> \o <<>>
    BY <2>3 DEF LineOf
  <2> QED
    BY <1>1, <2>1, <2>2, <2>4, FreeLine DEF LockShape, Line
<1>2. CASE holder # {}
  <2>1. PICK h \in Call : holder = {h}
    BY <1>2 DEF LockShape
  <2>2. holder' = {h} /\ waiters' = Append(waiters, call) /\ waiters \in Seq(Call)
    BY <1>2, <2>1 DEF Acquire, TypeOK
  <2>3. Append(waiters, call) \in Seq(Call)
    BY <2>2, AppendElements
  <2>4. (CHOOSE c \in {h} : TRUE) = h
    OBVIOUS
  <2>5. /\ LineOf({h}, waiters) = <<h>> \o waiters
        /\ LineOf({h}, Append(waiters, call)) = <<h>> \o Append(waiters, call)
    BY <2>4 DEF LineOf
  <2>6. <<h>> \o Append(waiters, call) = Append(<<h>> \o waiters, call)
    <3>1. <<h>> \in Seq(Call) /\ Len(<<h>>) = 1
      OBVIOUS
    <3>2. <<h>> \o waiters \in Seq(Call)
      BY <2>2, <3>1
    <3> DEFINE a == <<h>> \o Append(waiters, call)
               b == Append(<<h>> \o waiters, call)
    <3>3. a \in Seq(Call) /\ b \in Seq(Call) /\ Len(a) = Len(b)
      BY <2>2, <2>3, <3>1, <3>2
    <3>4. \A i \in 1 .. Len(a) : a[i] = b[i]
      BY <2>2, <2>3, <3>1, <3>2
    <3> QED
      BY <3>3, <3>4, SeqEqual
  <2> QED
    BY <2>1, <2>2, <2>3, <2>5, <2>6 DEF LockShape, Line
<1> QED
  BY <1>1, <1>2

(* Who releases it leaves the line, and may queue again behind the others. *)
LEMMA ReleaseLine ==
  ASSUME TypeOK, LockShape, holder # {}, NEW calls \in Seq(Call), ReleaseThen(calls)
  PROVE  /\ LockShape' /\ holder' \subseteq Call /\ waiters' \in Seq(Call)
         /\ Line' = Tail(Line) \o calls
<1>1. waiters = Tail(Line) /\ waiters \in Seq(Call)
  BY LineStands DEF TypeOK
<1> DEFINE queue == waiters \o calls
<1>2. queue \in Seq(Call)
  BY <1>1
<1>3. CASE queue = <<>>
  <2>1. holder' = {} /\ waiters' = <<>>
    BY <1>3 DEF ReleaseThen
  <2>2. Line' = <<>> /\ Tail(Line) \o calls = <<>>
    BY <1>1, <1>3, <2>1, FreeLine DEF Line
  <2> QED
    BY <2>1, <2>2, EmptySeq DEF LockShape
<1>4. CASE queue # <<>>
  <2>1. holder' = {Head(queue)} /\ waiters' = Tail(queue)
    BY <1>4 DEF ReleaseThen
  <2>2. Head(queue) \in Call /\ Tail(queue) \in Seq(Call)
    BY <1>2, <1>4, TailElements
  <2>3. LineOf({Head(queue)}, Tail(queue)) = queue
    <3> HIDE DEF queue
    <3>1. (CHOOSE c \in {Head(queue)} : TRUE) = Head(queue)
      OBVIOUS
    <3>2. LineOf({Head(queue)}, Tail(queue)) = <<Head(queue)>> \o Tail(queue)
      BY <3>1 DEF LineOf
    <3>3. <<Head(queue)>> \o Tail(queue) = queue
      <4>1. <<Head(queue)>> \in Seq(Call) /\ Len(<<Head(queue)>>) = 1
        BY <2>2
      <4> DEFINE a == <<Head(queue)>> \o Tail(queue)
      <4>2. a \in Seq(Call) /\ Len(a) = Len(queue)
        BY <1>2, <1>4, <2>2, <4>1
      <4>3. \A i \in 1 .. Len(a) : a[i] = queue[i]
        BY <1>2, <1>4, <2>2, <4>1
      <4> QED
        BY <1>2, <4>2, <4>3, SeqEqual
    <3> QED
      BY <3>2, <3>3
  <2> QED
    BY <1>1, <2>1, <2>2, <2>3 DEF LockShape, Line
<1> QED
  BY <1>3, <1>4

(* Who dials stays where it is. *)
LEMMA DialLine ==
  ASSUME TypeOK, LockShape, holder # {}, NEW h \in Call, holder' = {h},
         waiters' = waiters
  PROVE  /\ LockShape' /\ Line' \in Seq(Call) /\ Line' # <<>>
         /\ Line'[1] = h /\ Tail(Line') = Tail(Line)
<1>1. waiters \in Seq(Call) /\ waiters = Tail(Line)
  BY LineStands DEF TypeOK
<1>2. Line' = LineOf({h}, waiters)
  BY DEF Line
<1> QED
  BY <1>1, <1>2, HeldLine DEF LockShape

(* Releasing without asking again. *)
LEMMA Releases ==
  ASSUME TypeOK, LockShape, holder # {}, Release
  PROVE  /\ LockShape' /\ holder' \subseteq Call /\ waiters' \in Seq(Call)
         /\ Line' = Tail(Line)
<1>1. <<>> \in Seq(Call) /\ ReleaseThen(<<>>)
  BY EmptySeq DEF Release
<1>2. /\ LockShape' /\ holder' \subseteq Call /\ waiters' \in Seq(Call)
      /\ Line' = Tail(Line) \o <<>>
  BY <1>1, ReleaseLine
<1>3. Tail(Line) \in Seq(Call)
  BY LineStands, TailElements
<1> QED
  BY <1>2, <1>3, ConcatEmptySeq

(* The call that holds the lock is the first in the line. *)
LEMMA HeldCall ==
  ASSUME TypeOK, LockShape, NEW op, Holds(op)
  PROVE  /\ holder # {} /\ holder = {Held} /\ Held \in Call /\ Held.op = op
         /\ Line \in Seq(Call) /\ Line # <<>> /\ Held = Line[1]
         /\ waiters = Tail(Line)
  BY LineStands DEF Holds, TypeOK

-----------------------------------------------------------------------------
(* Types. *)

(* What a call carries, by its operation. *)
LEMMA Calls ==
  ASSUME NEW c \in Call
  PROVE  /\ c.op = "change" => c.change \in Changes
         /\ c.op \in Dialling => c.cfg \in Config
         /\ c.op = "reconfigure" => c.new \in Config /\ c.change \in Changes
  BY DEF Call, Dialling

(* What the code builds a call from makes a call.                          *)
LEMMA NewCalls ==
  /\ \A op \in {"connect", "disconnect", "tune", "tuneConnect", "tuneRelease",
                "lastDisconnect"} : [op |-> op] \in Call
  /\ \A c \in Changes : [op |-> "change", change |-> c] \in Call
  /\ \A op \in Dialling, cfg \in Config : [op |-> op, cfg |-> cfg] \in Call
  /\ \A new \in Config, c \in Changes :
       [op |-> "reconfigure", new |-> new, change |-> c] \in Call
  BY DEF Call, Dialling

(* A field that is not sent keeps its value. *)
LEMMA SentType ==
  ASSUME NEW S, NEW sent \in {{}} \cup {{v} : v \in S}, NEW current \in S
  PROVE  Sent(sent, current) \in S
<1>1. CASE sent = {}
  BY <1>1 DEF Sent
<1>2. CASE sent # {}
  <2>1. PICK v \in S : sent = {v}
    BY <1>2
  <2>2. (CHOOSE w \in {v} : TRUE) \in {v}
    OBVIOUS
  <2> QED
    BY <1>2, <2>1, <2>2 DEF Sent
<1> QED
  BY <1>1, <1>2

(* A change makes a configuration of a configuration, and so does its      *)
(* being saved.                                                            *)
LEMMA ChangedType ==
  ASSUME NEW c \in Config, NEW change \in Changes, NEW new \in Config
  PROVE  Applied(c, change) \in Config /\ Saved(c, new, change) \in Config
<1>1. change \in Change
  BY ChangesAssumption
<1>2. /\ change.kind \in {{}} \cup {{k} : k \in RadioKinds}
      /\ change.flex \in {{}} \cup {{v} : v \in Settings}
      /\ change.tci \in {{}} \cup {{v} : v \in Settings}
  BY <1>1 DEF Change
<1>3. c.kind \in RadioKinds /\ c.flex \in Settings /\ c.tci \in Settings
      /\ new.kind \in RadioKinds
  BY DEF Config
<1>4. /\ Sent(change.kind, c.kind) \in RadioKinds
      /\ Sent(change.flex, c.flex) \in Settings
      /\ Sent(change.tci, c.tci) \in Settings
  BY <1>2, <1>3, SentType
<1> QED
  BY <1>3, <1>4 DEF Applied, Saved, Config

(* What takes effect is a configuration, and so is what is saved of it.    *)
LEMMA EffectType ==
  ASSUME TypeOK, NEW change \in Changes, NEW new \in Config, TakesEffect(new, change)
  PROVE  live' \in Config /\ file' \in Config /\ unsaved' \in BOOLEAN
  BY ChangedType DEF TakesEffect, TypeOK

(* The first state is well typed.                                          *)
LEMMA InitType == Init => TypeOK
  BY ShippedAssumption, EmptySeq DEF Init, TypeOK

(* Every step keeps the types.                                             *)
LEMMA NextType == TypeOK /\ LineInv /\ [Next]_vars => TypeOK'
<1> SUFFICES ASSUME TypeOK, LineInv, [Next]_vars PROVE TypeOK'
  OBVIOUS
<1>0. LockShape
  BY DEF LineInv
<1> USE <1>0
<1>1. ASSUME NEW call \in Call, Spawn(call) PROVE TypeOK'
  BY <1>1, AppendElements DEF Spawn, TypeOK
<1>2. CASE Messages
  BY <1>1, <1>2, NewCalls
  DEF Messages, OnRadioConnect, OnRadioDisconnect, OnSetRadioConfig, OnTune
<1>3. ASSUME NEW op, Runs(op)
      PROVE  Head(ready) \in Call /\ Head(ready).op = op /\ ready' \in Seq(Call)
  BY <1>3, TailElements DEF Runs, TypeOK
<1>4. CASE RunCall
  <2>1. /\ Head(ready) \in Call /\ ready' \in Seq(Call)
        /\ Acquire(Head(ready)) \/ UNCHANGED <<holder, waiters>>
    BY <1>3, <1>4 DEF RunCall
  <2>2. holder' \subseteq Call /\ waiters' \in Seq(Call)
    BY <2>1, AcquireLine DEF TypeOK
  <2> QED
    BY <1>4, <2>1, <2>2 DEF RunCall, TypeOK
<1>5. CASE RunChange
  <2> DEFINE change == Head(ready).change
             new == Applied(live, change)
             call == [op |-> "reconfigure", new |-> new, change |-> change]
  <2>1. /\ change \in Changes /\ ready' \in Seq(Call)
        /\ \/ TakesEffect(new, change) /\ UNCHANGED <<holder, waiters>>
           \/ Acquire(call) /\ UNCHANGED <<live, file, unsaved>>
    BY <1>3, <1>5, Calls DEF RunChange
  <2>2. new \in Config /\ call \in Call
    BY <2>1, ChangedType, NewCalls DEF TypeOK
  <2>3. holder' \subseteq Call /\ waiters' \in Seq(Call)
    BY <2>1, <2>2, AcquireLine DEF TypeOK
  <2> HIDE DEF change, new, call
  <2>4. live' \in Config /\ file' \in Config /\ unsaved' \in BOOLEAN
    BY <2>1, <2>2, EffectType DEF TypeOK
  <2> QED
    BY <1>5, <2>1, <2>3, <2>4 DEF RunChange, TypeOK
<1>6. CASE RunTune
  <2>1. ready' \in Seq(Call) /\ Acquire([op |-> "tuneConnect"])
    BY <1>3, <1>6 DEF RunTune
  <2>2. holder' \subseteq Call /\ waiters' \in Seq(Call)
    BY <2>1, NewCalls, AcquireLine
  <2> QED
    BY <1>6, <2>1, <2>2 DEF RunTune, TypeOK
<1>7. CASE RefuseChange \/ RefuseTune
  BY <1>3, <1>7 DEF RefuseChange, RefuseTune, TypeOK
<1>8. CASE Dials
  <2>1. PICK op \in Dialling : holder' = {[op |-> op, cfg |-> live]}
    BY <1>8 DEF Dials, Dial, Dialling
  <2>2. holder' \subseteq Call
    BY <2>1, NewCalls DEF TypeOK
  <2> QED
    BY <1>8, <2>2 DEF Dials, Dial, TypeOK
<1>9. ASSUME NEW op \in Dialling, Holds(op), Answered PROVE conn' \subseteq Connection
  BY <1>9, HeldCall, Calls DEF Answered, Connection
<1>10. ASSUME NEW op, Holds(op), Release
       PROVE  holder' \subseteq Call /\ waiters' \in Seq(Call)
  BY <1>10, HeldCall, Releases
<1>11. CASE Connect
  <2>1. conn' \subseteq Connection
    BY <1>9, <1>11 DEF Connect, TypeOK, Dialling
  <2>2. holder' \subseteq Call /\ waiters' \in Seq(Call)
    BY <1>10, <1>11 DEF Connect
  <2> QED
    BY <1>11, <2>1, <2>2 DEF Connect, TypeOK
<1>12. CASE TuneConnects
  <2>1. conn' \subseteq Connection
    BY <1>9, <1>12 DEF TuneConnects, TypeOK, Dialling
  <2>2. holder' \subseteq Call /\ waiters' \in Seq(Call)
    BY <1>10, <1>12 DEF TuneConnects
  <2> QED
    BY <1>12, <2>1, <2>2 DEF TuneConnects, TypeOK
<1>13. CASE TuneCannotConnect
  <2>1. holder # {} /\ <<[op |-> "tuneRelease"]>> \in Seq(Call)
    BY <1>13, HeldCall, NewCalls DEF TuneCannotConnect
  <2>2. holder' \subseteq Call /\ waiters' \in Seq(Call)
    BY <1>13, <2>1, ReleaseLine DEF TuneCannotConnect
  <2> QED
    BY <1>13, <2>2 DEF TuneCannotConnect, TypeOK
<1>14. CASE Disconnect
  BY <1>10, <1>14 DEF Disconnect, Close, TypeOK
<1>15. CASE LastDisconnect
  BY <1>10, <1>15 DEF LastDisconnect, TypeOK
<1>16. CASE TuneReleases
  BY <1>10, <1>16 DEF TuneReleases, Close, TypeOK
<1>17. CASE Reconfigure
  <2>1. Held.new \in Config /\ Held.change \in Changes
    BY <1>17, HeldCall, Calls DEF Reconfigure
  <2>2. live' \in Config /\ file' \in Config /\ unsaved' \in BOOLEAN
    BY <1>17, <2>1, EffectType DEF Reconfigure
  <2>3. holder' \subseteq Call /\ waiters' \in Seq(Call)
    BY <1>10, <1>17 DEF Reconfigure
  <2> QED
    BY <1>17, <2>2, <2>3 DEF Reconfigure, Close, TypeOK
<1>18. CASE TuneEnds
  <2>1. holder' \subseteq Call /\ waiters' \in Seq(Call)
    BY <1>18, NewCalls, AcquireLine DEF TuneEnds
  <2> QED
    BY <1>18, <2>1 DEF TuneEnds, TypeOK
<1>19. CASE RadioDrops
  <2>1. conn' \subseteq Connection
    BY <1>19 DEF RadioDrops, TypeOK, Connection
  <2> QED
    BY <1>19, <2>1 DEF RadioDrops, TypeOK
<1>20. CASE Shutdown
  BY <1>20, NewCalls, AppendElements DEF Shutdown, TypeOK
<1>21. CASE UNCHANGED vars
  BY <1>21 DEF vars, TypeOK
<1> QED
  BY <1>2, <1>4, <1>5, <1>6, <1>7, <1>8, <1>11, <1>12, <1>13, <1>14, <1>15, <1>16,
     <1>17, <1>18, <1>19, <1>20, <1>21 DEF Next, Callbacks, Locked, Gone

-----------------------------------------------------------------------------
(* The line, step by step. *)

(* At first nobody stands in line.                                         *)
LEMMA InitLine == Init => LineInv
<1> SUFFICES ASSUME Init PROVE LineInv
  OBVIOUS
<1>1. Line = <<>> /\ LockShape
  BY FreeLine DEF Init, Line, LockShape
<1> QED
  BY <1>1 DEF LineInv, OneCycleCall, CycleCallFits, ChangesGoFirst, DialsInEffect

(* A call joins the line at its end. *)
LEMMA Joined ==
  ASSUME TypeOK, LockShape, NEW call \in Call, Acquire(call)
  PROVE  /\ LockShape'
         /\ DOMAIN Line \subseteq Nat /\ DOMAIN Line' \subseteq Nat
         /\ \A i \in DOMAIN Line' :
              \/ i \in DOMAIN Line /\ Line'[i] = Line[i] /\ i < Len(Line) + 1
              \/ i = Len(Line) + 1 /\ Line'[i] = call
<1>1. LockShape' /\ Line \in Seq(Call) /\ Line' = Append(Line, call)
  BY AcquireLine, LineStands
<1> QED
  BY <1>1, AppendElements

(* The first call leaves the line. *)
LEMMA Left ==
  ASSUME TypeOK, LineInv, holder # {}, Release
  PROVE  /\ LockShape'
         /\ DOMAIN Line \subseteq Nat /\ DOMAIN Line' \subseteq Nat
         /\ 1 \in DOMAIN Line /\ Held = Line[1]
         /\ \A i \in DOMAIN Line' :
              /\ i + 1 \in DOMAIN Line /\ Line'[i] = Line[i + 1]
              /\ i + 1 # 1 /\ Line'[i].op \notin Dialling
<1>1. /\ LockShape' /\ Line \in Seq(Call) /\ Line # <<>> /\ Held = Line[1]
      /\ Line' = Tail(Line)
  BY LineStands, Releases DEF LineInv
<1>2. /\ DOMAIN Line \subseteq Nat /\ DOMAIN Line' \subseteq Nat /\ 1 \in DOMAIN Line
      /\ \A i \in DOMAIN Line' : i + 1 \in DOMAIN Line /\ Line'[i] = Line[i + 1]
  BY <1>1, TailElements
<1>3. \A i \in DOMAIN Line' : i + 1 # 1
  BY <1>1
<1> QED
  BY <1>1, <1>2, <1>3 DEF LineInv, DialsInEffect

(* Every step keeps the line in order.                                     *)
LEMMA NextLine == TypeOK /\ LineInv /\ [Next]_vars => LineInv'
<1> SUFFICES ASSUME TypeOK, LineInv, [Next]_vars PROVE LineInv'
  OBVIOUS
<1> USE DEF LineInv
<1>1. CASE UNCHANGED <<holder, waiters, live, tune>>
  BY <1>1 DEF Line, LockShape, OneCycleCall, CycleCallFits, ChangesGoFirst,
              DialsInEffect
<1>2. CASE RunCall
  <2>1. CASE UNCHANGED <<holder, waiters>>
    BY <1>1, <1>2, <2>1 DEF RunCall
  <2>2. CASE ~UNCHANGED <<holder, waiters>>
    <3>1. PICK call \in Call :
            Acquire(call) /\ call.op \in {"connect", "disconnect", "lastDisconnect"}
      BY <1>2, <2>2, TailElements DEF RunCall, Runs, TypeOK
    <3>2. UNCHANGED <<live, tune>>
      BY <1>2 DEF RunCall
    <3> QED
      BY <3>1, <3>2, Joined
      DEF OneCycleCall, CycleCallFits, ChangesGoFirst, DialsInEffect, CycleOps,
          CycleConnects, Dialling
  <2> QED
    BY <2>1, <2>2
<1>3. CASE RunChange
  <2>1. CASE holder = {} /\ UNCHANGED <<holder, waiters>>
    <3>1. Line = <<>> /\ Line' = <<>> /\ LockShape'
      BY <2>1, FreeLine DEF LockShape, Line
    <3> QED
      BY <3>1 DEF OneCycleCall, CycleCallFits, ChangesGoFirst, DialsInEffect
  <2>2. CASE ~(holder = {} /\ UNCHANGED <<holder, waiters>>)
    <3>1. PICK call \in Call : Acquire(call) /\ call.op = "reconfigure"
      <4>1. Head(ready).change \in Changes
        BY <1>3, TailElements, Calls DEF RunChange, Runs, TypeOK
      <4> QED
        BY <1>3, <2>2, <4>1, ChangedType, NewCalls DEF RunChange, TypeOK
    <3>2. UNCHANGED <<live, tune>> /\ tune = "idle"
      BY <1>3, <2>2 DEF RunChange, Running
    <3> QED
      BY <3>1, <3>2, Joined
      DEF OneCycleCall, CycleCallFits, ChangesGoFirst, DialsInEffect, CycleOps,
          CycleConnects, Dialling
  <2> QED
    BY <2>1, <2>2
<1>4. CASE RunTune
  <2>1. PICK call \in Call : Acquire(call) /\ call.op = "tuneConnect"
    BY <1>4, NewCalls DEF RunTune
  <2>2. live' = live /\ tune = "idle" /\ tune' = "connect"
    BY <1>4 DEF RunTune, Running
  <2> QED
    BY <2>1, <2>2, Joined
    DEF OneCycleCall, CycleCallFits, ChangesGoFirst, DialsInEffect, CycleOps,
        CycleConnects, Dialling
<1>5. CASE TuneEnds
  <2>1. PICK call \in Call : Acquire(call) /\ call.op = "tuneRelease"
    BY <1>5, NewCalls DEF TuneEnds
  <2>2. live' = live /\ tune = "using" /\ tune' = "release"
    BY <1>5 DEF TuneEnds
  <2> QED
    BY <2>1, <2>2, Joined
    DEF OneCycleCall, CycleCallFits, ChangesGoFirst, DialsInEffect, CycleOps,
        CycleConnects, Dialling
<1>6. CASE Dials
  <2>1. PICK op \in Dialling :
          /\ holder' = {[op |-> op, cfg |-> live]}
          /\ \/ op = "dialling" /\ Holds("connect")
             \/ op = "tuneDialling" /\ Holds("tuneConnect")
    BY <1>6 DEF Dials, Dial, Dialling
  <2>2. UNCHANGED <<live, tune, waiters>>
    BY <1>6 DEF Dials, Dial
  <2> DEFINE call == [op |-> op, cfg |-> live]
  <2>3. call \in Call
    BY NewCalls DEF TypeOK
  <2>4. /\ holder # {} /\ Line \in Seq(Call) /\ Line # <<>> /\ Held = Line[1]
        /\ Line[1].op \in {"connect", "tuneConnect"}
        /\ Line[1].op \in CycleOps <=> call.op \in CycleOps
    BY <2>1, HeldCall DEF CycleOps, CycleConnects
  <2>5. /\ LockShape' /\ Line' \in Seq(Call) /\ Line' # <<>>
        /\ Line'[1] = call /\ Tail(Line') = Tail(Line)
    BY <2>1, <2>2, <2>3, <2>4, DialLine
  <2>6. /\ \A i \in DOMAIN Line' : i = 1 \/ (i \in DOMAIN Line /\ Line'[i] = Line[i])
        /\ 1 \in DOMAIN Line
    <3>1. Len(Line') = Len(Line)
      BY <2>4, <2>5, HeadTailProperties, LenProperties
    <3> QED
      BY <2>4, <2>5, <3>1, TailElements
  <2>7. call.op \in Dialling /\ call.op # "tuneRelease" /\ call.cfg = live
        /\ (call.op \in CycleConnects => Line[1].op \in CycleConnects)
    BY <2>1, HeldCall DEF Dialling, CycleConnects
  <2> HIDE DEF call
  <2> QED
    BY <2>2, <2>4, <2>5, <2>6, <2>7
    DEF OneCycleCall, CycleCallFits, ChangesGoFirst, DialsInEffect, CycleOps,
        CycleConnects, Dialling
<1>7. ASSUME holder # {}, Release, UNCHANGED tune PROVE LineInv'
  BY <1>7, Left DEF OneCycleCall, CycleCallFits, ChangesGoFirst, DialsInEffect
<1>8. CASE Connect \/ Disconnect \/ LastDisconnect \/ Reconfigure
  BY <1>7, <1>8, HeldCall DEF Connect, Disconnect, LastDisconnect, Reconfigure
<1>9. CASE TuneConnects
  <2>1. holder # {} /\ Release /\ Held.op \in CycleConnects /\ tune' = "using"
    BY <1>9, HeldCall DEF TuneConnects, CycleConnects
  <2>2. \A i \in DOMAIN Line' :
          Line'[i].op \notin CycleOps /\ Line'[i].op # "reconfigure"
    BY <2>1, Left DEF OneCycleCall, ChangesGoFirst, CycleOps
  <2> QED
    BY <2>1, <2>2, Left
    DEF OneCycleCall, CycleCallFits, ChangesGoFirst, DialsInEffect, CycleOps
<1>10. CASE TuneReleases
  <2>1. holder # {} /\ Release /\ Held.op \in CycleOps /\ tune' = "idle"
    BY <1>10, HeldCall DEF TuneReleases, CycleOps
  <2>2. \A i \in DOMAIN Line' : Line'[i].op \notin CycleOps
    BY <2>1, Left DEF OneCycleCall, CycleOps
  <2> QED
    BY <2>1, <2>2, Left
    DEF OneCycleCall, CycleCallFits, ChangesGoFirst, DialsInEffect, CycleOps
<1>11. CASE TuneCannotConnect
  <2> DEFINE call == [op |-> "tuneRelease"]
  <2>1. /\ holder # {} /\ Held = Line[1] /\ Held.op \in CycleConnects
        /\ Line \in Seq(Call) /\ Line # <<>>
        /\ ReleaseThen(<<call>>) /\ tune' = "release" /\ live' = live
    BY <1>11, HeldCall DEF TuneCannotConnect, CycleConnects
  <2>2. call \in Call /\ <<call>> \in Seq(Call) /\ call.op = "tuneRelease"
    BY NewCalls
  <2>3. LockShape' /\ Line' = Tail(Line) \o <<call>>
    BY <2>1, <2>2, ReleaseLine
  <2> HIDE DEF call
  <2>4. Tail(Line) \in Seq(Call) /\ Line' = Append(Tail(Line), call)
    BY <2>1, <2>2, <2>3, TailElements, ConcatOne
  <2>5. \A i \in DOMAIN Tail(Line) :
          /\ i + 1 \in DOMAIN Line /\ Tail(Line)[i] = Line[i + 1] /\ i + 1 # 1
    BY <2>1, TailElements
  <2>6. 1 \in DOMAIN Line
    BY <2>1, TailElements
  <2>7. \A i \in DOMAIN Tail(Line) :
          /\ Tail(Line)[i].op \notin CycleOps /\ Tail(Line)[i].op # "reconfigure"
          /\ Tail(Line)[i].op \notin Dialling
    BY <2>1, <2>5, <2>6
    DEF OneCycleCall, ChangesGoFirst, DialsInEffect, CycleOps
  <2>8. \A i \in DOMAIN Line' :
          \/ i \in DOMAIN Tail(Line) /\ Line'[i] = Tail(Line)[i]
          \/ i = Len(Tail(Line)) + 1 /\ Line'[i] = call
    BY <2>2, <2>4, AppendElements
  <2> QED
    BY <2>1, <2>2, <2>3, <2>7, <2>8
    DEF OneCycleCall, CycleCallFits, ChangesGoFirst, DialsInEffect, CycleOps,
        CycleConnects, Dialling
<1> QED
  BY <1>1, <1>2, <1>3, <1>4, <1>5, <1>6, <1>8, <1>9, <1>10, <1>11
  DEF Next, Messages, Callbacks, Locked, OnRadioConnect, OnRadioDisconnect,
      OnSetRadioConfig, OnTune, Spawn, RefuseChange, RefuseTune, RadioDrops,
      Shutdown, Gone, vars

-----------------------------------------------------------------------------

(* Every variable keeps its type. *)
THEOREM TypeCorrect == Spec => []TypeOK
  BY InitType, NextType, InitLine, NextLine, PTL DEF Spec

(* The lock is one line of calls, and what is in it fits the cycle and the *)
(* configuration.                                                          *)
LEMMA LineKept == Spec => [](TypeOK /\ LineInv)
  BY InitType, NextType, InitLine, NextLine, PTL DEF Spec

(* Every step leaves an open connection the one the configuration asks     *)
(* for: whoever dials stands first in line and dials what is in effect.    *)
LEMMA NextConnection ==
  TypeOK /\ LineInv /\ ConnMatchesConfig /\ [Next]_vars => ConnMatchesConfig'
<1> SUFFICES ASSUME TypeOK, LineInv, ConnMatchesConfig, [Next]_vars
             PROVE  ConnMatchesConfig'
  OBVIOUS
<1> USE DEF ConnMatchesConfig
<1>1. ASSUME NEW op \in Dialling, Holds(op), Answered, UNCHANGED live
      PROVE  ConnMatchesConfig'
  <2>1. Held.cfg = live
    BY <1>1, HeldCall, TailElements DEF LineInv, DialsInEffect
  <2> QED
    BY <1>1, <2>1 DEF Answered
<1>2. CASE Connect \/ TuneConnects
  BY <1>1, <1>2 DEF Connect, TuneConnects, Dialling
<1>3. CASE RadioDrops
  <2>1. \A c \in conn : c.cfg = live /\ c \in Connection
    BY DEF TypeOK
  <2>2. \A c \in conn' : c.cfg = live
    BY <1>3, <2>1 DEF RadioDrops, Connection
  <2> QED
    BY <1>3, <2>2 DEF RadioDrops
<1>4. CASE conn' = {} \/ UNCHANGED <<conn, live>>
  BY <1>4
<1>5. CASE RunChange
  <2>1. (conn = {} /\ UNCHANGED conn) \/ UNCHANGED <<conn, live>>
    BY <1>5 DEF RunChange, NothingToClose
  <2> QED
    BY <1>4, <2>1
<1> QED
  BY <1>2, <1>3, <1>4, <1>5
  DEF Next, Messages, Callbacks, Locked, OnRadioConnect, OnRadioDisconnect,
      OnSetRadioConfig, OnTune, Spawn, RunCall, RunTune, RefuseChange,
      RefuseTune, Dials, Dial, TuneCannotConnect, Disconnect, LastDisconnect,
      TuneReleases, Reconfigure, Close, TuneEnds, Shutdown, Gone, vars

(* However connects, disconnects, changes and cycles interleave, the open  *)
(* connection is to the radio of the configuration in effect.              *)
THEOREM ConnectionCorrect == Spec => []ConnMatchesConfig
<1>1. Init => ConnMatchesConfig
  BY DEF Init, ConnMatchesConfig
<1> QED
  BY <1>1, InitType, NextType, InitLine, NextLine, NextConnection, PTL DEF Spec

(* The kind in effect is the kind of the next start, or the clients know:  *)
(* it is written whether or not the change names it.                       *)
THEOREM KindSurvives == Spec => []KindIsSaved
<1>1. Init => KindIsSaved
  BY DEF Init, KindIsSaved
<1>2. KindIsSaved /\ [Next]_vars => KindIsSaved'
  <2> SUFFICES ASSUME KindIsSaved, [Next]_vars PROVE KindIsSaved'
    OBVIOUS
  <2>1. ASSUME NEW new, NEW change, TakesEffect(new, change) PROVE KindIsSaved'
    BY <2>1 DEF TakesEffect, Saved, KindIsSaved
  <2>2. CASE UNCHANGED <<live, file, unsaved>>
    BY <2>2 DEF KindIsSaved
  <2>3. CASE RunChange \/ Reconfigure
    BY <2>1, <2>2, <2>3 DEF RunChange, Reconfigure
  <2> QED
    BY <2>2, <2>3
    DEF Next, Messages, Callbacks, Locked, OnRadioConnect, OnRadioDisconnect,
        OnSetRadioConfig, OnTune, Spawn, RunCall, RunTune, RefuseChange,
        RefuseTune, Dials, Dial, Connect, TuneConnects, TuneCannotConnect,
        Disconnect, LastDisconnect, TuneReleases, TuneEnds, RadioDrops, Shutdown,
        Gone, vars
<1> QED
  BY <1>1, <1>2, PTL DEF Spec

(* A change that came before the cycle was served before it, and one that  *)
(* comes during the cycle is refused: none takes effect under it.          *)
THEOREM ConfigKept == Spec => ConfigKeptDuringTune
<1>1. TypeOK /\ LineInv /\ [Next]_vars => [tune = "using" => live' = live]_vars
  <2> SUFFICES ASSUME TypeOK, LineInv, [Next]_vars, tune = "using", live' # live
               PROVE  FALSE
    OBVIOUS
  <2>1. Reconfigure
    BY DEF Running, Next, Messages, Callbacks, Locked, OnRadioConnect,
        OnRadioDisconnect,
        OnSetRadioConfig, OnTune, Spawn, RunCall, RunChange, RunTune, RefuseChange,
        RefuseTune, Dials, Dial, Connect, TuneConnects, TuneCannotConnect,
        Disconnect, LastDisconnect, TuneReleases, TuneEnds, RadioDrops, Shutdown,
        Gone, vars
  <2>2. Line[1].op = "reconfigure" /\ 1 \in DOMAIN Line
    BY <2>1, HeldCall, TailElements DEF Reconfigure, LineInv
  <2> QED
    BY <2>2 DEF LineInv, ChangesGoFirst
<1> QED
  BY <1>1, LineKept, PTL DEF ConfigKeptDuringTune, Spec

=============================================================================
