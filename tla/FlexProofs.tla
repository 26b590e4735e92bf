----------------------------- MODULE FlexProofs -----------------------------
(***************************************************************************)
(* FlexConnection for every number of commands, every set of frequencies   *)
(* and any number of lines under way: a reply answers its own command,     *)
(* nobody who waits is forgotten, the cache is recent, and commands are    *)
(* executed in order and at most once (FlexCalls).                         *)
(***************************************************************************)
EXTENDS FlexConnection, DataLemmas

-----------------------------------------------------------------------------
(* The inductive invariants. *)

(* A sequence number is used once: a command that is on its way has no     *)
(* verdict yet, and neither has one that has not been sent; the commands   *)
(* are on their way in the order of their numbers.                         *)
SentOnce ==
  /\ \A s \in Seqs : s > seq => verdict[s] = "none"
  /\ \A i \in DOMAIN sent : /\ sent[i].seq <= seq
                            /\ verdict[sent[i].seq] = "none"
  /\ \A i, j \in DOMAIN sent : i < j => sent[i].seq < sent[j].seq

(* From the radio to the sender, by way of the line and the future, what   *)
(* is said of a command is the verdict on it.                              *)
TrueReplies ==
  /\ \A i \in DOMAIN inbound :
       inbound[i].kind = "reply" => inbound[i].status = verdict[inbound[i].seq]
  /\ \A s \in Seqs : fut[s] \in {"ok", "bad"} => fut[s] = verdict[s]

(* The calls that have been made are those numbered so far.                *)
Counted == \A s \in Seqs : call[s] = "idle" <=> s > seq

(* The last event on its way tells where the slice is; without one, the    *)
(* cache knows it.  A radio that has not been subscribed to says nothing.  *)
EventsAt(f) == {e \in Event : e.freq = f}
CacheInv ==
  link = "up" =>
    /\ LastIn(inbound, Event, EventsAt(rig))
    /\ NoneIn(inbound, Event) => cache \subseteq {rig}
    /\ ~Subscribed => cache = {} /\ NoneIn(inbound, Event)

-----------------------------------------------------------------------------
(* Types. *)

Lines == Reply \cup Event

(* There is a first command, and a message is a reply or an event by its   *)
(* kind.                                                                   *)
LEMMA Kinds ==
  /\ 1 \in Seqs /\ Seqs \subseteq Nat /\ MaxSends \in Nat
  /\ \A m \in Lines : /\ m.kind = "reply" <=> m \in Reply
                      /\ m.kind = "event" <=> m \in Event
                      /\ m \in Reply <=> m \notin Event
  BY MaxSendsAssumption DEF Seqs, Lines, Reply, Event

(* The first state is well typed.                                          *)
LEMMA InitType == Init => TypeOK
  BY Kinds DEF Init, TypeOK

(* What a command does in the radio, and what comes back.                  *)
LEMMA Execution ==
  ASSUME TypeOK, RadioExecutes
  PROVE  \E c \in Command, status \in {"ok", "bad"} :
           LET reply == [kind |-> "reply", seq |-> c.seq, status |-> status]
               event == [kind |-> "event", freq |-> rig']
           IN  /\ sent # <<>> /\ c = Head(sent) /\ sent' = Tail(sent)
               /\ verdict' = [verdict EXCEPT ![c.seq] = status]
               /\ rig' \in Freqs
               /\ reply \in Reply /\ event \in Event
               /\ \/ link # "up" /\ inbound' = inbound
                  \/ /\ link = "up" /\ ~Subscribed' /\ rig' \in Freqs
                     /\ inbound' \in {inbound, Append(inbound, reply)}
                  \/ /\ link = "up" /\ Subscribed'
                     /\ inbound' \in {Append(inbound, event),
                                      Append(Append(inbound, reply), event)}
               /\ UNCHANGED <<program, link>>
<1>1. sent # <<>> /\ sent \in Seq(Command) /\ Head(sent) \in Command
  BY TailElements DEF RadioExecutes, TypeOK
<1>2. PICK status \in {"ok", "bad"} :
        LET c == Head(sent)
            reply == [kind |-> "reply", seq |-> c.seq, status |-> status]
        IN  /\ verdict' = [verdict EXCEPT ![c.seq] = status]
            /\ rig' = IF status = "ok" /\ c.freq # {}
                      THEN CHOOSE f \in c.freq : TRUE ELSE rig
            /\ \E replies \in {<<>>, <<reply>>} :
                 inbound' = IF link = "up" THEN inbound \o replies \o Told(rig')
                                           ELSE inbound
  BY DEF RadioExecutes
<1> DEFINE c == Head(sent)
           reply == [kind |-> "reply", seq |-> c.seq, status |-> status]
           event == [kind |-> "event", freq |-> rig']
<1>3. c.seq \in Seqs /\ c.freq \in {{}} \cup {{f} : f \in Freqs}
  BY <1>1 DEF Command
<1>4. rig' \in Freqs
  <2>1. ASSUME c.freq # {} PROVE (CHOOSE f \in c.freq : TRUE) \in Freqs
    <3>1. PICK f \in Freqs : c.freq = {f}
      BY <1>3, <2>1
    <3>2. (CHOOSE g \in {f} : TRUE) \in {f}
      OBVIOUS
    <3> QED
      BY <3>1, <3>2
  <2> QED
    BY <1>2, <2>1 DEF TypeOK
<1>5. reply \in Lines /\ event \in Lines /\ reply \in Reply /\ event \in Event
  BY <1>3, <1>4 DEF Reply, Event, Lines
<1>6. inbound \in Seq(Lines)
  BY DEF TypeOK, Lines
<1>7. ASSUME link = "up", ~Subscribed'
      PROVE  inbound' \in {inbound, Append(inbound, reply)}
  <2>1. Told(rig') = <<>>
    BY <1>7 DEF Told
  <2>2. PICK replies \in {<<>>, <<reply>>} : inbound' = inbound \o replies \o <<>>
    BY <1>2, <1>7, <2>1
  <2>3. CASE replies = <<>>
    BY <1>5, <1>6, <2>2, <2>3, ConcatOne
  <2>4. CASE replies = <<reply>>
    <3>1. Append(inbound, reply) \in Seq(Lines)
      BY <1>5, <1>6, AppendElements
    <3>2. inbound \o <<reply>> = Append(inbound, reply)
      BY <1>5, <1>6, ConcatOne
    <3>3. Append(inbound, reply) \o <<>> = Append(inbound, reply)
      BY <3>1, <1>5, ConcatOne
    <3> QED
      BY <2>2, <2>4, <3>2, <3>3
  <2> QED
    BY <2>2, <2>3, <2>4
<1>8. ASSUME link = "up", Subscribed'
      PROVE  inbound' \in {Append(inbound, event),
                           Append(Append(inbound, reply), event)}
  <2>1. Told(rig') = <<event>>
    BY <1>8 DEF Told
  <2>2. PICK replies \in {<<>>, <<reply>>} :
          inbound' = inbound \o replies \o <<event>>
    BY <1>2, <1>8, <2>1
  <2>3. CASE replies = <<>>
    <3>1. inbound \o <<>> = inbound /\ inbound \o <<event>> = Append(inbound, event)
      BY <1>5, <1>6, ConcatOne
    <3> QED
      BY <2>2, <2>3, <3>1
  <2>4. CASE replies = <<reply>>
    <3>1. Append(inbound, reply) \in Seq(Lines)
      BY <1>5, <1>6, AppendElements
    <3>2. inbound \o <<reply>> = Append(inbound, reply)
      BY <1>5, <1>6, ConcatOne
    <3>3. Append(inbound, reply) \o <<event>> = Append(Append(inbound, reply), event)
      BY <3>1, <1>5, ConcatOne
    <3> QED
      BY <2>2, <2>4, <3>2, <3>3
  <2> QED
    BY <2>2, <2>3, <2>4
<1>9. link # "up" => inbound' = inbound
  BY <1>2
<1>10. sent' = Tail(sent) /\ UNCHANGED <<program, link>>
  BY DEF RadioExecutes
<1> QED
  BY <1>1, <1>2, <1>4, <1>5, <1>7, <1>8, <1>9, <1>10

(* Every step keeps the types.                                             *)
LEMMA NextType == TypeOK /\ [Next]_vars => TypeOK'
<1> SUFFICES ASSUME TypeOK, [Next]_vars PROVE TypeOK'
  OBVIOUS
<1> USE DEF TypeOK, program, radio
<1>0. inbound \in Seq(Lines) /\ <<>> \in Seq(Lines) /\ <<>> \in Seq(Command)
  BY DEF Lines
<1>1. CASE Send
  <2>1. seq + 1 \in Seqs /\ seq' = seq + 1 /\ pending' \subseteq 1 .. seq'
    BY <1>1, Kinds DEF Send, Seqs
  <2>2. PICK freq \in {{}} \cup {{f} : f \in Freqs} :
          sent' = IF link = "up" THEN Append(sent, [seq |-> seq', freq |-> freq])
                                 ELSE sent
    BY <1>1 DEF Send
  <2>3. sent' \in Seq(Command)
    BY <2>1, <2>2, AppendElements DEF Command
  <2> QED
    BY <1>1, <2>1, <2>3, Kinds DEF Send, Seqs
<1>2. CASE SendOnLost
  <2>1. seq + 1 \in Seqs /\ seq' = seq + 1 /\ seq' \in 0 .. MaxSends
    BY <1>2, Kinds DEF SendOnLost, Seqs
  <2>2. pending \subseteq 1 .. seq' /\ pending \cup {seq'} \subseteq 1 .. seq'
    BY <2>1, Kinds
  <2>3. fut' = [fut EXCEPT ![seq + 1] = "open"]
    BY <1>2, <2>1 DEF SendOnLost
  <2>4. /\ call' \in [Seqs -> {"idle", "waiting", "returned", "rejected", "timeout",
                                "connError"}]
        /\ pending' \subseteq 1 .. seq'
    BY <1>2, <2>1, <2>2 DEF SendOnLost
  <2> QED
    BY <1>2, <2>1, <2>3, <2>4 DEF SendOnLost
<1>3. ASSUME NEW s \in Seqs, Returns(s) PROVE TypeOK'
  BY <1>3 DEF Returns, Outcome
<1>4. ASSUME NEW s \in Seqs, Times(s) PROVE TypeOK'
  BY <1>4 DEF Times
<1>5. CASE DispatchReply
  <2>1. Head(inbound) \in Reply /\ inbound' \in Seq(Lines)
    BY <1>0, <1>5, TailElements, Kinds DEF DispatchReply, Hears
  <2> QED
    BY <1>5, <2>1 DEF DispatchReply, Hears, Reply, Lines
<1>6. CASE DispatchEvent
  <2>1. Head(inbound) \in Event /\ inbound' \in Seq(Lines)
    BY <1>0, <1>6, TailElements, Kinds DEF DispatchEvent, Hears
  <2> QED
    BY <1>6, <2>1 DEF DispatchEvent, Hears, Event, Lines
<1>7. CASE ReadLoopEnds
  BY <1>7 DEF ReadLoopEnds, FailPending
<1>8. CASE CloseBegins \/ CloseSocket \/ CloseEnds
  BY <1>0, <1>8 DEF CloseBegins, CloseSocket, CloseEnds, FailPending, Lines
<1>9. CASE RadioExecutes
  <2>1. PICK c \in Command, status \in {"ok", "bad"} :
          LET reply == [kind |-> "reply", seq |-> c.seq, status |-> status]
              event == [kind |-> "event", freq |-> rig']
          IN  /\ sent # <<>> /\ sent' = Tail(sent)
              /\ verdict' = [verdict EXCEPT ![c.seq] = status]
              /\ rig' \in Freqs /\ reply \in Reply /\ event \in Event
              /\ inbound' \in {inbound, Append(inbound, reply), Append(inbound, event),
                               Append(Append(inbound, reply), event)}
              /\ UNCHANGED <<program, link>>
    BY <1>9, Execution
  <2> DEFINE reply == [kind |-> "reply", seq |-> c.seq, status |-> status]
             event == [kind |-> "event", freq |-> rig']
  <2>2. reply \in Lines /\ event \in Lines
    BY <2>1 DEF Lines
  <2>3. Append(inbound, reply) \in Seq(Lines) /\ Append(inbound, event) \in Seq(Lines)
    BY <1>0, <2>2, AppendElements
  <2>4. Append(Append(inbound, reply), event) \in Seq(Lines)
    BY <2>2, <2>3, AppendElements
  <2>5. inbound' \in Seq(Lines)
    BY <1>0, <2>1, <2>3, <2>4
  <2>6. sent' \in Seq(Command)
    BY <2>1, TailElements
  <2> QED
    BY <2>1, <2>5, <2>6 DEF Lines
<1>10. CASE RadioTuned
  <2>1. rig' \in Freqs /\ [kind |-> "event", freq |-> rig'] \in Lines
    BY <1>10 DEF RadioTuned, Lines, Event
  <2>2. inbound' \in Seq(Lines)
    BY <1>0, <1>10, <2>1, ConcatOne, AppendElements DEF RadioTuned, Told
  <2> QED
    BY <1>10, <2>1, <2>2 DEF RadioTuned, Lines
<1>11. CASE RadioCloses
  BY <1>0, <1>11 DEF RadioCloses
<1>12. CASE LinkBreaks
  BY <1>0, <1>12, PrefixElements DEF LinkBreaks, Lines
<1>13. CASE UNCHANGED vars
  BY <1>13 DEF vars
<1> QED
  BY <1>1, <1>2, <1>3, <1>4, <1>5, <1>6, <1>7, <1>8, <1>9, <1>10, <1>11, <1>12,
     <1>13 DEF Next, Callers, Reader, Closer, Radio

(* Every variable keeps its type; pending holds numbers that were given.   *)
THEOREM TypeCorrect == Spec => []TypeOK
  BY InitType, NextType, PTL DEF Spec

-----------------------------------------------------------------------------
(* Who waits. *)

(* At first nobody waits.                                                  *)
LEMMA InitWaiting == Init => PendingAreWaiting
  BY DEF Init, PendingAreWaiting, Waiting

(* A future that is open is in pending as long as its sender waits; the    *)
(* reader, its end and close() take out what they resolve, and a sender    *)
(* that gives up takes its own out.                                        *)
LEMMA NextWaiting == TypeOK /\ PendingAreWaiting /\ [Next]_vars => PendingAreWaiting'
<1> SUFFICES ASSUME TypeOK, PendingAreWaiting, [Next]_vars
             PROVE  PendingAreWaiting'
  OBVIOUS
<1> USE DEF TypeOK, PendingAreWaiting, Waiting, program, radio
<1>1. CASE Send
  <2>1. seq + 1 \in Seqs /\ seq' = seq + 1
    BY <1>1, Kinds DEF Send, Seqs
  <2>2. /\ pending' = pending \cup {seq + 1}
        /\ fut' = [fut EXCEPT ![seq + 1] = "open"]
        /\ call' = [call EXCEPT ![seq + 1] = "waiting"]
    BY <1>1, <2>1 DEF Send
  <2> QED
    BY <2>1, <2>2
<1>2. CASE SendOnLost
  <2>1. seq + 1 \in Seqs /\ seq' = seq + 1 /\ seq + 1 \notin pending
    BY <1>2, Kinds DEF SendOnLost, Seqs
  <2>2. /\ fut' = [fut EXCEPT ![seq + 1] = "open"]
        /\ \/ /\ pending' = pending
              /\ call' = [call EXCEPT ![seq + 1] = "connError"]
           \/ /\ pending' = pending \cup {seq + 1}
              /\ call' = [call EXCEPT ![seq + 1] = "waiting"]
    BY <1>2, <2>1 DEF SendOnLost
  <2> QED
    BY <2>1, <2>2
<1>3. ASSUME NEW s \in Seqs, Returns(s) PROVE PendingAreWaiting'
  BY <1>3 DEF Returns, Outcome
<1>4. ASSUME NEW s \in Seqs, Times(s) PROVE PendingAreWaiting'
  BY <1>4 DEF Times
<1>5. CASE DispatchReply
  <2>1. Head(inbound) \in Reply
    BY <1>5, TailElements, Kinds DEF DispatchReply, Hears, Lines
  <2>2. Head(inbound).seq \in Seqs /\ Head(inbound).status # "open"
    BY <2>1 DEF Reply
  <2> QED
    BY <1>5, <2>2 DEF DispatchReply
<1>6. CASE ReadLoopEnds \/ CloseEnds
  BY <1>6 DEF ReadLoopEnds, CloseEnds, FailPending
<1>7. CASE DispatchEvent \/ CloseBegins \/ CloseSocket
  BY <1>7 DEF DispatchEvent, CloseBegins, CloseSocket
<1>8. CASE Radio
  BY <1>8 DEF Radio, RadioExecutes, RadioTuned, RadioCloses, LinkBreaks
<1>9. CASE UNCHANGED vars
  BY <1>9 DEF vars
<1> QED
  BY <1>1, <1>2, <1>3, <1>4, <1>5, <1>6, <1>7, <1>8, <1>9
  DEF Next, Callers, Reader, Closer

(* Exactly those who wait can be reached by a reply, by the end of the     *)
(* reader and by close(): nobody is forgotten, nothing is left behind.     *)
THEOREM NobodyForgotten == Spec => []PendingAreWaiting
  BY InitType, NextType, InitWaiting, NextWaiting, PTL DEF Spec

-----------------------------------------------------------------------------
(* Whose reply. *)

(* At first nothing has been sent, and nothing answered.                   *)
LEMMA InitReplies == Init => SentOnce /\ TrueReplies /\ OwnReply
  BY DEF Init, SentOnce, TrueReplies, OwnReply

(* Every step leaves a sequence number to one command: it is drawn and     *)
(* sent in one piece.                                                      *)
LEMMA NextSentOnce == TypeOK /\ SentOnce /\ [Next]_vars => SentOnce'
<1> SUFFICES ASSUME TypeOK, SentOnce, [Next]_vars PROVE SentOnce'
  OBVIOUS
<1> USE DEF SentOnce, program, radio
<1>0. /\ sent \in Seq(Command) /\ seq \in Nat /\ \A c \in Command : c.seq \in Nat
      /\ \A i \in DOMAIN sent : /\ sent[i] \in Command /\ sent[i].seq \in Seqs
                                /\ sent[i].seq \in Nat /\ sent[i].seq <= seq
  <2>1. sent \in Seq(Command) /\ seq \in Nat
    BY Kinds DEF TypeOK
  <2>2. \A c \in Command : c.seq \in Seqs /\ c.seq \in Nat
    BY Kinds DEF Command
  <2>3. \A i \in DOMAIN sent : sent[i] \in Command
    BY <2>1
  <2> QED
    BY <2>1, <2>2, <2>3
<1>1. CASE Send
  <2>1. seq + 1 \in Seqs /\ seq' = seq + 1 /\ verdict' = verdict
    BY <1>1, Kinds DEF Send, TypeOK, Seqs
  <2>2. PICK freq \in {{}} \cup {{f} : f \in Freqs} :
          sent' = IF link = "up" THEN Append(sent, [seq |-> seq', freq |-> freq])
                                 ELSE sent
    BY <1>1 DEF Send
  <2>3. CASE link = "up"
    <3> DEFINE c == [seq |-> seq + 1, freq |-> freq]
    <3>1. c \in Command /\ c.seq = seq + 1 /\ sent' = Append(sent, c)
      BY <2>1, <2>2, <2>3 DEF Command
    <3>2. \A i \in DOMAIN sent' :
            \/ i \in DOMAIN sent /\ sent'[i] = sent[i]
            \/ i = Len(sent) + 1 /\ i \notin DOMAIN sent /\ sent'[i] = c
      BY <1>0, <3>1, AppendElements
    <3>3. verdict[seq + 1] = "none" /\ \A i \in DOMAIN sent : sent[i].seq < seq + 1
      <4>1. \A i \in DOMAIN sent : sent[i].seq < seq + 1
        BY <1>0
      <4>2. verdict[seq + 1] = "none"
        BY <1>0, <2>1
      <4> QED
        BY <4>1, <4>2
    <3>4. \A i \in DOMAIN sent' : sent'[i].seq <= seq' /\ verdict'[sent'[i].seq] = "none"
      BY <1>0, <2>1, <3>1, <3>2, <3>3, Kinds
    <3>5. ASSUME NEW i \in DOMAIN sent', NEW j \in DOMAIN sent', i < j
          PROVE  sent'[i].seq < sent'[j].seq
      <4>1. i \in DOMAIN sent
        BY <1>0, <3>1, <3>5, AppendElements
      <4> QED
        BY <1>0, <3>1, <3>2, <3>3, <3>5, <4>1, Kinds
    <3> QED
      BY <1>0, <2>1, <3>4, <3>5, Kinds
  <2>4. CASE link # "up"
    BY <1>0, <2>1, <2>2, <2>4, Kinds
  <2> QED
    BY <2>3, <2>4
<1>2. CASE SendOnLost
  <2>1. seq' = seq + 1 /\ sent' = sent /\ verdict' = verdict
    BY <1>2 DEF SendOnLost
  <2> QED
    BY <1>0, <2>1, Kinds
<1>3. CASE UNCHANGED <<seq, sent, verdict>>
  BY <1>3
<1>4. CASE RadioExecutes
  <2>1. PICK c \in Command, status \in {"ok", "bad"} :
          /\ sent # <<>> /\ c = Head(sent) /\ sent' = Tail(sent)
          /\ verdict' = [verdict EXCEPT ![c.seq] = status]
          /\ seq' = seq
    BY <1>4, Execution
  <2>2. /\ c = sent[1] /\ 1 \in DOMAIN sent /\ c.seq \in Seqs
        /\ \A i \in DOMAIN sent' : /\ i + 1 \in DOMAIN sent /\ i + 1 # 1
                                   /\ sent'[i] = sent[i + 1]
    BY <1>0, <2>1, TailElements
  <2>3. \A i \in DOMAIN sent' : sent'[i].seq # c.seq /\ sent'[i].seq \in Seqs
    <3>1. \A i \in DOMAIN sent' : i \in Nat /\ 1 < i + 1
      BY <1>0, <2>1, TailElements
    <3> QED
      BY <1>0, <2>2, <3>1
  <2>4. \A s \in Seqs : s # c.seq => verdict'[s] = verdict[s]
    BY <2>1 DEF TypeOK
  <2>5. c.seq <= seq
    BY <2>2
  <2>6. \A i \in DOMAIN sent' : sent'[i].seq <= seq' /\ verdict'[sent'[i].seq] = "none"
    BY <2>1, <2>2, <2>3, <2>4
  <2>7. ASSUME NEW i \in DOMAIN sent', NEW j \in DOMAIN sent', i < j
        PROVE  sent'[i].seq < sent'[j].seq
    <3>1. i + 1 < j + 1
      BY <1>0, <2>1, <2>7, TailElements
    <3> QED
      BY <2>2, <3>1
  <2>8. \A s \in Seqs : s > seq' => verdict'[s] = "none"
    BY <1>0, <2>1, <2>2, <2>4, <2>5, Kinds
  <2> QED
    BY <2>6, <2>7, <2>8
<1>5. CASE RadioCloses
  BY <1>5 DEF RadioCloses
<1>6. CASE LinkBreaks
  <2>1. /\ seq' = seq /\ verdict' = verdict
        /\ \A i \in DOMAIN sent' : i \in DOMAIN sent /\ sent'[i] = sent[i]
    BY <1>0, <1>6, PrefixElements DEF LinkBreaks
  <2> QED
    BY <2>1
<1> QED
  BY <1>1, <1>2, <1>3, <1>4, <1>5, <1>6
  DEF Next, Callers, Reader, Closer, Radio, Returns, Times, DispatchReply,
      DispatchEvent, ReadLoopEnds, CloseBegins, CloseSocket, CloseEnds, RadioTuned,
      vars

(* The radio makes up its mind once. *)
LEMMA VerdictStands ==
  ASSUME TypeOK, SentOnce, [Next]_vars
  PROVE  \A s \in Seqs : verdict[s] # "none" => verdict'[s] = verdict[s]
<1> USE DEF program, radio
<1>1. CASE RadioExecutes
  <2>1. PICK c \in Command, status \in {"ok", "bad"} :
          /\ sent # <<>> /\ c = Head(sent)
          /\ verdict' = [verdict EXCEPT ![c.seq] = status]
    BY <1>1, Execution
  <2>2. c = sent[1] /\ 1 \in DOMAIN sent
    BY <2>1, TailElements DEF TypeOK
  <2>3. verdict[c.seq] = "none"
    BY <2>2 DEF SentOnce
  <2> QED
    BY <2>1, <2>3 DEF TypeOK
<1>2. CASE UNCHANGED verdict
  BY <1>2
<1> QED
  BY <1>1, <1>2
  DEF Next, Callers, Reader, Closer, Radio, Send, SendOnLost, Returns, Times,
      DispatchReply, DispatchEvent, ReadLoopEnds, CloseBegins, CloseSocket,
      CloseEnds, RadioTuned, RadioCloses, LinkBreaks, vars

(* A line that comes in is one that was there, or the reply to the command *)
(* that was just executed, or an event.                                    *)
LEMMA NewLines ==
  ASSUME TypeOK, [Next]_vars, NEW i \in DOMAIN inbound'
  PROVE  \/ \E j \in DOMAIN inbound : inbound'[i] = inbound[j]
         \/ inbound'[i] \in Event
         \/ /\ inbound'[i] \in Reply
            /\ verdict'[inbound'[i].seq] = inbound'[i].status
<1> USE DEF program, radio
<1>0. inbound \in Seq(Lines)
  BY DEF TypeOK, Lines
<1>1. CASE RadioExecutes
  <2>1. PICK c \in Command, status \in {"ok", "bad"} :
          LET reply == [kind |-> "reply", seq |-> c.seq, status |-> status]
              event == [kind |-> "event", freq |-> rig']
          IN  /\ verdict' = [verdict EXCEPT ![c.seq] = status]
              /\ reply \in Reply /\ event \in Event
              /\ inbound' \in {inbound, Append(inbound, reply), Append(inbound, event),
                               Append(Append(inbound, reply), event)}
    BY <1>1, Execution
  <2> DEFINE reply == [kind |-> "reply", seq |-> c.seq, status |-> status]
             event == [kind |-> "event", freq |-> rig']
  <2>2. reply \in Lines /\ event \in Lines
    BY <2>1 DEF Lines
  <2>3. verdict'[reply.seq] = reply.status
    BY <2>1 DEF TypeOK, Command
  <2>4. \A k \in DOMAIN Append(inbound, reply) :
          \/ k \in DOMAIN inbound /\ Append(inbound, reply)[k] = inbound[k]
          \/ Append(inbound, reply)[k] = reply
    BY <1>0, <2>2, AppendElements
  <2>5. \A k \in DOMAIN Append(inbound, event) :
          \/ k \in DOMAIN inbound /\ Append(inbound, event)[k] = inbound[k]
          \/ Append(inbound, event)[k] = event
    BY <1>0, <2>2, AppendElements
  <2>6. \A k \in DOMAIN Append(Append(inbound, reply), event) :
          LET both == Append(Append(inbound, reply), event)
          IN  \/ k \in DOMAIN inbound /\ both[k] = inbound[k]
              \/ both[k] = reply
              \/ both[k] = event
    <3>1. Append(inbound, reply) \in Seq(Lines)
      BY <1>0, <2>2, AppendElements
    <3> HIDE DEF event, reply
    <3> QED
      BY <3>1, <2>2, <2>4, AppendElements
  <2> HIDE DEF event, reply
  <2>7. \/ \E j \in DOMAIN inbound : inbound'[i] = inbound[j]
        \/ inbound'[i] = reply \/ inbound'[i] = event
    BY <2>1, <2>4, <2>5, <2>6 DEF event, reply
  <2>8. reply \in Reply /\ event \in Event
    BY <2>1 DEF event, reply
  <2> QED
    BY <2>3, <2>7, <2>8
<1>2. CASE RadioTuned
  <2>1. [kind |-> "event", freq |-> rig'] \in Event
    BY <1>2 DEF RadioTuned, Event
  <2>2. inbound' = inbound \/ inbound' = Append(inbound, [kind |-> "event", freq |-> rig'])
    BY <1>0, <1>2, <2>1, ConcatOne DEF RadioTuned, Told, Lines
  <2> QED
    BY <1>0, <2>1, <2>2, AppendElements DEF Lines
<1>3. CASE DispatchReply \/ DispatchEvent
  <2>1. inbound # <<>> /\ inbound' = Tail(inbound)
    BY <1>3 DEF DispatchReply, DispatchEvent, Hears
  <2> QED
    BY <1>0, <2>1, TailElements
<1>4. CASE inbound' = <<>> \/ inbound' = inbound
  BY <1>4
<1> QED
  BY <1>1, <1>2, <1>3, <1>4
  DEF Next, Callers, Reader, Closer, Radio, Send, SendOnLost, Returns, Times,
      ReadLoopEnds, CloseBegins, CloseSocket, CloseEnds, RadioCloses, LinkBreaks, vars

(* What a future is resolved with is a reply to its own command.           *)
LEMMA NewResults ==
  ASSUME TypeOK, TrueReplies, [Next]_vars, NEW s \in Seqs,
         fut'[s] \in {"ok", "bad"}
  PROVE  fut'[s] = verdict[s]
<1> USE DEF program, radio
<1>1. CASE Send \/ SendOnLost
  <2>1. fut' = [fut EXCEPT ![seq'] = "open"]
    BY <1>1 DEF Send, SendOnLost
  <2>2. fut'[s] = fut[s]
    BY <2>1 DEF TypeOK
  <2> QED
    BY <2>2 DEF TrueReplies
<1>2. CASE DispatchReply
  <2>1. /\ Head(inbound) \in Reply /\ Head(inbound) = inbound[1] /\ 1 \in DOMAIN inbound
        /\ Head(inbound).kind = "reply"
    BY <1>2, TailElements, Kinds DEF DispatchReply, Hears, TypeOK, Lines
  <2>2. Head(inbound).status = verdict[Head(inbound).seq]
    BY <2>1 DEF TrueReplies
  <2> QED
    BY <1>2, <2>1, <2>2 DEF DispatchReply, TypeOK, TrueReplies, Reply
<1>3. CASE ReadLoopEnds \/ CloseEnds
  BY <1>3 DEF ReadLoopEnds, CloseEnds, FailPending, TypeOK, TrueReplies
<1>4. CASE UNCHANGED fut
  BY <1>4 DEF TrueReplies
<1> QED
  BY <1>1, <1>2, <1>3, <1>4
  DEF Next, Callers, Reader, Closer, Radio, Returns, Times, DispatchEvent,
      CloseBegins, CloseSocket, RadioExecutes, RadioTuned, RadioCloses, LinkBreaks,
      vars

(* Every step leaves each reply on its way, and each one handed to its     *)
(* caller, the verdict on the command of its number.                       *)
LEMMA NextReplies ==
  TypeOK /\ SentOnce /\ TrueReplies /\ OwnReply /\ [Next]_vars
    => TrueReplies' /\ OwnReply'
<1> SUFFICES ASSUME TypeOK, SentOnce, TrueReplies, OwnReply, [Next]_vars
             PROVE  TrueReplies' /\ OwnReply'
  OBVIOUS
<1>1. ASSUME NEW i \in DOMAIN inbound', inbound'[i].kind = "reply"
      PROVE  inbound'[i].status = verdict'[inbound'[i].seq]
  <2>1. CASE \E j \in DOMAIN inbound : inbound'[i] = inbound[j]
    <3>1. PICK j \in DOMAIN inbound : inbound'[i] = inbound[j]
      BY <2>1
    <3>2. inbound[j] \in Reply
      BY <1>1, <3>1, Kinds DEF TypeOK, Lines
    <3>3. inbound[j].status = verdict[inbound[j].seq]
      BY <1>1, <3>1 DEF TrueReplies
    <3> QED
      BY <3>1, <3>2, <3>3, VerdictStands DEF Reply
  <2>2. CASE inbound'[i] \in Event
    BY <1>1, <2>2 DEF Event
  <2> QED
    BY <2>1, <2>2, NewLines
<1>2. ASSUME NEW s \in Seqs, fut'[s] \in {"ok", "bad"} PROVE fut'[s] = verdict'[s]
  BY <1>2, NewResults, VerdictStands
<1>3. ASSUME NEW s \in Seqs, call'[s] \in {"returned", "rejected"}
      PROVE  \/ call'[s] = call[s]
             \/ /\ fut[s] \in {"ok", "bad"}
                /\ call'[s] = "returned" <=> fut[s] = "ok"
  <2> USE DEF program, radio
  <2>1. CASE Send \/ SendOnLost
    <3>1. call' = [call EXCEPT ![seq'] = "waiting"] \/ call' = [call EXCEPT ![seq'] = "connError"]
      BY <2>1 DEF Send, SendOnLost
    <3> QED
      BY <1>3, <3>1 DEF TypeOK
  <2>2. ASSUME NEW t \in Seqs, Returns(t) \/ Times(t)
        PROVE  \/ call'[s] = call[s]
               \/ /\ fut[s] \in {"ok", "bad"}
                  /\ call'[s] = "returned" <=> fut[s] = "ok"
    BY <1>3, <2>2 DEF Returns, Times, Outcome, TypeOK
  <2>3. CASE UNCHANGED call
    BY <2>3
  <2> QED
    BY <2>1, <2>2, <2>3
    DEF Next, Callers, Reader, Closer, Radio, DispatchReply, DispatchEvent,
        ReadLoopEnds, CloseBegins, CloseSocket, CloseEnds, RadioExecutes, RadioTuned,
        RadioCloses, LinkBreaks, vars
<1>4. OwnReply'
  <2> SUFFICES ASSUME NEW s \in Seqs
               PROVE  /\ call'[s] = "returned" => verdict'[s] = "ok"
                      /\ call'[s] = "rejected" => verdict'[s] = "bad"
    BY DEF OwnReply
  <2> QED
    BY <1>3, VerdictStands DEF OwnReply, TrueReplies
<1> QED
  BY <1>1, <1>2, <1>4 DEF TrueReplies

(* However late a reply comes, and whatever was sent meanwhile, a send     *)
(* reports what the radio made of that very command.                       *)
THEOREM RepliesAreOwn == Spec => []OwnReply
  BY InitType, NextType, InitReplies, NextSentOnce, NextReplies, PTL DEF Spec

-----------------------------------------------------------------------------
(* The cache. *)

(* An empty cache is not behind.                                           *)
LEMMA InitCache == Init => CacheInv
  BY EmptyQueue DEF Init, CacheInv

(* Every step leaves the last event on its way, or the cache, with where   *)
(* the slice is.                                                           *)
LEMMA NextCache == TypeOK /\ SentOnce /\ CacheInv /\ [Next]_vars => CacheInv'
<1> SUFFICES ASSUME TypeOK, SentOnce, CacheInv, [Next]_vars, link' = "up"
             PROVE  /\ LastIn(inbound, Event, EventsAt(rig))'
                    /\ NoneIn(inbound', Event) => cache' \subseteq {rig'}
                    /\ ~Subscribed' => cache' = {} /\ NoneIn(inbound', Event)
  BY DEF CacheInv
<1> USE DEF program, radio
<1>0. inbound \in Seq(Lines) /\ cache \subseteq Freqs
  BY DEF TypeOK, Lines
<1>1. link = "up"
  BY DEF Next, Callers, Reader, Closer, Radio, Send, SendOnLost, Returns, Times,
         DispatchReply, DispatchEvent, ReadLoopEnds, CloseBegins, CloseSocket,
         CloseEnds, RadioExecutes, RadioTuned, RadioCloses, LinkBreaks, vars
<1>2. /\ LastIn(inbound, Event, EventsAt(rig))
      /\ NoneIn(inbound, Event) => cache \subseteq {rig}
      /\ ~Subscribed => cache = {} /\ NoneIn(inbound, Event)
  BY <1>1 DEF CacheInv
<1>3. Subscribed => Subscribed'
  BY Kinds, VerdictStands DEF Subscribed
<1>4. CASE UNCHANGED <<inbound, cache, rig>>
  BY <1>2, <1>3, <1>4 DEF EventsAt
<1>5. CASE DispatchReply
  <2>1. inbound # <<>> /\ inbound' = Tail(inbound) /\ Head(inbound) \notin Event
    BY <1>0, <1>5, TailElements, Kinds DEF DispatchReply, Hears
  <2>2. cache' = cache /\ rig' = rig
    BY <1>5 DEF DispatchReply
  <2> QED
    BY <1>0, <1>2, <1>3, <2>1, <2>2, TailOfKind DEF EventsAt
<1>6. CASE DispatchEvent
  <2>1. inbound # <<>> /\ inbound' = Tail(inbound) /\ Head(inbound) \in Event
    BY <1>0, <1>6, TailElements, Kinds DEF DispatchEvent, Hears
  <2>2. cache' = {Head(inbound).freq} /\ rig' = rig
    BY <1>6 DEF DispatchEvent
  <2>3. ~NoneIn(inbound, Event)
    BY <1>0, <2>1, TailElements DEF NoneIn
  <2>4. NoneIn(inbound', Event) => Head(inbound).freq = rig
    BY <1>0, <1>2, <2>1, TailOfKind DEF EventsAt
  <2> QED
    BY <1>0, <1>2, <1>3, <2>1, <2>2, <2>3, <2>4, TailOfKind DEF EventsAt
<1>7. CASE RadioExecutes
  <2>1. PICK c \in Command, status \in {"ok", "bad"} :
          LET reply == [kind |-> "reply", seq |-> c.seq, status |-> status]
              event == [kind |-> "event", freq |-> rig']
          IN  /\ reply \in Reply /\ event \in Event
              /\ \/ ~Subscribed' /\ inbound' \in {inbound, Append(inbound, reply)}
                 \/ /\ Subscribed'
                    /\ inbound' \in {Append(inbound, event),
                                     Append(Append(inbound, reply), event)}
              /\ cache' = cache
    BY <1>1, <1>7, Execution
  <2> DEFINE reply == [kind |-> "reply", seq |-> c.seq, status |-> status]
             event == [kind |-> "event", freq |-> rig']
  <2>2. /\ reply \in Lines /\ event \in Lines /\ reply \notin Event
        /\ event \in Event /\ event \in EventsAt(rig')
    BY <2>1, Kinds DEF Lines, EventsAt
  <2> HIDE DEF event, reply
  <2>3. CASE ~Subscribed'
    <3>1. cache = {} /\ NoneIn(inbound, Event)
      BY <1>2, <1>3, <2>3
    <3>2. NoneIn(Append(inbound, reply), Event)
      BY <1>0, <2>2, <3>1, AppendElements DEF NoneIn
    <3>3. inbound' \in {inbound, Append(inbound, reply)} /\ cache' = cache
      BY <2>1, <2>3 DEF reply
    <3>4. NoneIn(inbound', Event) /\ cache' = {}
      BY <3>1, <3>2, <3>3
    <3> QED
      BY <3>4, NoneHasNoLast DEF EventsAt
  <2>4. CASE Subscribed'
    <3>1. Append(inbound, reply) \in Seq(Lines)
      BY <1>0, <2>2, AppendElements
    <3>2. PICK q \in Seq(Lines) : inbound' = Append(q, event)
      BY <1>0, <2>1, <2>4, <3>1 DEF event, reply
    <3>3. LastIn(inbound', Event, EventsAt(rig'))
      BY <2>2, <3>2, AppendOfKind
    <3>4. ~NoneIn(inbound', Event)
      BY <2>2, <3>2, AppendElements DEF NoneIn
    <3> QED
      BY <2>4, <3>3, <3>4 DEF EventsAt
  <2> QED
    BY <2>3, <2>4
<1>8. CASE RadioTuned
  <2> DEFINE event == [kind |-> "event", freq |-> rig']
  <2>1. event \in Event /\ event \in Lines /\ event \in EventsAt(rig')
    BY <1>8 DEF RadioTuned, Event, Lines, EventsAt
  <2>2. /\ cache' = cache
        /\ \/ ~Subscribed' /\ inbound' = inbound
           \/ Subscribed' /\ inbound' = Append(inbound, event)
    BY <1>0, <1>8, <2>1, ConcatOne DEF RadioTuned, Told
  <2> HIDE DEF event
  <2>3. CASE ~Subscribed'
    BY <1>2, <1>3, <2>2, <2>3, NoneHasNoLast DEF EventsAt
  <2>4. CASE Subscribed'
    <3>1. LastIn(inbound', Event, EventsAt(rig'))
      BY <1>0, <2>1, <2>2, <2>4, AppendOfKind
    <3>2. ~NoneIn(inbound', Event)
      BY <1>0, <2>1, <2>2, <2>4, AppendElements DEF NoneIn
    <3> QED
      BY <2>4, <3>1, <3>2 DEF EventsAt
  <2> QED
    BY <2>3, <2>4
<1> QED
  BY <1>1, <1>4, <1>5, <1>6, <1>7, <1>8
  DEF Next, Callers, Reader, Closer, Radio, Send, SendOnLost, Returns, Times,
      ReadLoopEnds, CloseBegins, CloseSocket, CloseEnds, RadioCloses, LinkBreaks, vars

(* Once everything the radio said has been read, the cache knows where the *)
(* slice is, or nothing.                                                   *)
THEOREM CacheCorrect == Spec => []CacheIsRecent
<1>1. TypeOK /\ CacheInv => CacheIsRecent
  BY Kinds DEF TypeOK, CacheInv, CacheIsRecent, NoneIn, Lines
<1> QED
  BY <1>1, InitType, NextType, InitReplies, NextSentOnce, InitCache, NextCache, PTL
  DEF Spec

-----------------------------------------------------------------------------
(* The connection as a set of calls. *)

Numbers(q) == {q[i].seq : i \in DOMAIN q}

(* A command that is sent is on its way.                                   *)
LEMMA NumbersSent ==
  ASSUME NEW q \in Seq(Command), NEW c \in Command
  PROVE  Numbers(Append(q, c)) = Numbers(q) \cup {c.seq}
  BY AppendElements DEF Numbers

(* The first of several commands in order is the one with the least        *)
(* number.                                                                 *)
LEMMA NumbersTaken ==
  ASSUME NEW q \in Seq(Command), q # <<>>,
         \A i, j \in DOMAIN q : i < j => q[i].seq < q[j].seq
  PROVE  /\ Head(q).seq \in Numbers(q)
         /\ \A n \in Numbers(q) : Head(q).seq <= n
         /\ Numbers(Tail(q)) = Numbers(q) \ {Head(q).seq}
<1>1. /\ \A i \in DOMAIN q : q[i].seq \in Nat /\ i \in Nat
      /\ 1 \in DOMAIN q /\ Head(q) = q[1]
  <2>1. \A c \in Command : c.seq \in Nat
    BY Kinds DEF Command
  <2>2. \A i \in DOMAIN q : q[i] \in Command
    OBVIOUS
  <2> QED
    BY <2>1, <2>2, TailElements
<1>2. \A i \in DOMAIN q : i = 1 \/ (1 < i /\ q[1].seq < q[i].seq)
  <2>1. \A i \in DOMAIN q : i = 1 \/ 1 < i
    BY <1>1
  <2> QED
    BY <1>1, <2>1
<1>3. Head(q).seq \in Numbers(q) /\ \A n \in Numbers(q) : Head(q).seq <= n
  BY <1>1, <1>2 DEF Numbers
<1>4. Numbers(Tail(q)) \subseteq Numbers(q) \ {Head(q).seq}
  <2> SUFFICES ASSUME NEW i \in DOMAIN Tail(q)
               PROVE  Tail(q)[i].seq \in Numbers(q) \ {Head(q).seq}
    BY DEF Numbers
  <2>1. i + 1 \in DOMAIN q /\ Tail(q)[i] = q[i + 1] /\ i + 1 # 1
    BY TailElements
  <2>2. q[i + 1].seq # q[1].seq
    BY <1>1, <1>2, <2>1
  <2> QED
    BY <1>1, <2>1, <2>2 DEF Numbers
<1>5. Numbers(q) \ {Head(q).seq} \subseteq Numbers(Tail(q))
  <2> SUFFICES ASSUME NEW i \in DOMAIN q, q[i].seq # q[1].seq
               PROVE  q[i].seq \in Numbers(Tail(q))
    BY <1>1 DEF Numbers
  <2>1. i - 1 \in DOMAIN Tail(q) /\ Tail(q)[i - 1] = q[i]
    BY <1>1, TailElements
  <2> QED
    BY <2>1 DEF Numbers
<1> QED
  BY <1>3, <1>4, <1>5

(* When the link breaks, none is added.                                    *)
LEMMA NumbersLost ==
  ASSUME NEW q \in Seq(Command), NEW n \in 0 .. Len(q)
  PROVE  Numbers(SubSeq(q, 1, n)) \subseteq Numbers(q)
  BY PrefixElements DEF Numbers

(* At first no call has been made.                                         *)
LEMMA InitCounted == Init => Counted
  BY Kinds DEF Init, Counted, Seqs

(* Every step counts the calls it makes, and makes none that it does not   *)
(* count.                                                                  *)
LEMMA NextCounted == TypeOK /\ Counted /\ [Next]_vars => Counted'
<1> SUFFICES ASSUME TypeOK, Counted, [Next]_vars PROVE Counted'
  OBVIOUS
<1> USE DEF program
<1>1. CASE Send \/ SendOnLost
  <2>1. seq' = seq + 1 /\ seq + 1 \in Seqs /\ seq \in Nat
    BY <1>1, Kinds DEF Send, SendOnLost, TypeOK, Seqs
  <2>2. \E was \in {"waiting", "connError"} : call' = [call EXCEPT ![seq + 1] = was]
    BY <1>1 DEF Send, SendOnLost
  <2>3. \A s \in Seqs : s = seq + 1 \/ (s > seq <=> s > seq + 1)
    BY <2>1, Kinds
  <2> QED
    BY <2>1, <2>2, <2>3, Kinds DEF Counted, TypeOK
<1>2. ASSUME NEW s \in Seqs, Returns(s) \/ Times(s) PROVE Counted'
  <2>1. call[s] = "waiting" /\ seq' = seq
    BY <1>2 DEF Returns, Times, Waiting
  <2>2. \E was \in {"returned", "rejected", "connError", "timeout"} :
          call' = [call EXCEPT ![s] = was]
    BY <1>2 DEF Returns, Times, Outcome, TypeOK
  <2> QED
    BY <2>1, <2>2 DEF Counted, TypeOK
<1>3. CASE UNCHANGED <<call, seq>>
  BY <1>3 DEF Counted
<1> QED
  BY <1>1, <1>2, <1>3
  DEF Next, Callers, Reader, Closer, Radio, DispatchReply, DispatchEvent,
      ReadLoopEnds, CloseBegins, CloseSocket, CloseEnds, RadioExecutes, RadioTuned,
      RadioCloses, LinkBreaks, vars

(* Every step is one of the calls', or leaves them as they are.            *)
LEMMA StepCalls ==
  TypeOK /\ SentOnce /\ TrueReplies /\ Counted /\ [Next]_vars
    => [Calls!Next]_Calls!vars
<1> SUFFICES ASSUME TypeOK, SentOnce, TrueReplies, Counted, [Next]_vars
             PROVE  Calls!Next \/ UNCHANGED Calls!vars
  OBVIOUS
<1> USE DEF program, radio
<1>0. sent \in Seq(Command)
  BY DEF TypeOK
<1>1. ASSUME seq + 1 \in Seqs, verdict' = verdict,
             \/ /\ call' = [call EXCEPT ![seq + 1] = "waiting"]
                /\ Numbers(sent') \in {Numbers(sent), Numbers(sent) \cup {seq + 1}}
             \/ /\ call' = [call EXCEPT ![seq + 1] = "connError"]
                /\ Numbers(sent') = Numbers(sent)
      PROVE  Calls!Next
  <2>1. PICK s \in Seqs : s = seq + 1
    BY <1>1
  <2>2. \A t \in Seqs : call[t] = "idle" <=> t >= s
    BY <2>1, Kinds DEF Counted, TypeOK
  <2>3. Calls!Issue(s)
    BY <1>1, <2>1, <2>2 DEF Calls!Issue, Numbers
  <2> QED
    BY <2>3 DEF Calls!Next
<1>2. CASE Send
  <2>1. seq + 1 \in Seqs /\ seq' = seq + 1 /\ verdict' = verdict
    BY <1>2, Kinds DEF Send, TypeOK, Seqs
  <2>2. PICK freq \in {{}} \cup {{f} : f \in Freqs} :
          sent' = IF link = "up" THEN Append(sent, [seq |-> seq', freq |-> freq])
                                 ELSE sent
    BY <1>2 DEF Send
  <2>3. /\ [seq |-> seq', freq |-> freq] \in Command
        /\ [seq |-> seq', freq |-> freq].seq = seq + 1
    BY <2>1 DEF Command
  <2>4. Numbers(sent') = Numbers(sent) \/ Numbers(sent') = Numbers(sent) \cup {seq + 1}
    BY <1>0, <2>2, <2>3, NumbersSent
  <2>5. call' = [call EXCEPT ![seq + 1] = "waiting"]
    BY <1>2 DEF Send
  <2> QED
    BY <1>1, <2>1, <2>4, <2>5
<1>3. CASE SendOnLost
  <2>1. /\ seq + 1 \in Seqs /\ sent' = sent /\ verdict' = verdict
        /\ \/ call' = [call EXCEPT ![seq + 1] = "connError"]
           \/ call' = [call EXCEPT ![seq + 1] = "waiting"]
    BY <1>3, Kinds DEF SendOnLost, TypeOK, Seqs
  <2> QED
    BY <1>1, <2>1
<1>4. ASSUME NEW s \in Seqs, Returns(s) \/ Times(s)
      PROVE  Calls!Next
  <2>1. /\ call[s] = "waiting" /\ sent' = sent /\ verdict' = verdict
        /\ \/ call' = [call EXCEPT ![s] = "timeout"]
           \/ fut[s] # "open" /\ call' = [call EXCEPT ![s] = Outcome[fut[s]]]
    BY <1>4 DEF Returns, Times, Waiting
  <2>2. fut[s] \in {"open", "ok", "bad", "failed"} /\ verdict[s] \in {"none", "ok", "bad"}
    BY DEF TypeOK
  <2>3. fut[s] # "open" => Outcome[fut[s]] \in Calls!Known(s) \cup {"timeout", "connError"}
    BY <2>2 DEF Outcome, Calls!Known, TrueReplies
  <2>4. \E outcome \in Calls!Known(s) \cup {"timeout", "connError"} :
          call' = [call EXCEPT ![s] = outcome]
    BY <2>1, <2>3
  <2>5. Calls!Finish(s)
    BY <2>1, <2>4 DEF Calls!Finish
  <2> QED
    BY <1>4, <2>5 DEF Calls!Next
<1>5. CASE RadioExecutes
  <2>1. PICK c \in Command, status \in {"ok", "bad"} :
          /\ sent # <<>> /\ c = Head(sent) /\ sent' = Tail(sent)
          /\ verdict' = [verdict EXCEPT ![c.seq] = status]
          /\ call' = call
    BY <1>5, Execution DEF RadioExecutes
  <2>2. /\ c.seq \in Numbers(sent) /\ \A n \in Numbers(sent) : c.seq <= n
        /\ Numbers(sent') = Numbers(sent) \ {c.seq}
    BY <1>0, <2>1, NumbersTaken DEF SentOnce
  <2>3. verdict[c.seq] = "none"
    BY <2>2 DEF SentOnce, Numbers
  <2>4. Calls!Execute(c.seq)
    BY <2>1, <2>2, <2>3 DEF Calls!Execute, Numbers
  <2> QED
    BY <2>2, <2>4 DEF Calls!Next, Numbers
<1>6. CASE RadioCloses \/ LinkBreaks
  <2>1. Numbers(sent') \subseteq Numbers(sent)
    <3>1. Numbers(<<>>) = {}
      BY DEF Numbers
    <3> QED
      BY <1>0, <1>6, <3>1, NumbersLost DEF RadioCloses, LinkBreaks
  <2>2. Calls!Lose
    BY <1>6, <2>1 DEF Calls!Lose, Numbers, RadioCloses, LinkBreaks
  <2> QED
    BY <2>2 DEF Calls!Next
<1>7. CASE UNCHANGED <<call, sent, verdict>>
  BY <1>7 DEF Calls!vars
<1> QED
  BY <1>2, <1>3, <1>4, <1>5, <1>6, <1>7
  DEF Next, Callers, Reader, Closer, Radio, DispatchReply, DispatchEvent,
      ReadLoopEnds, CloseBegins, CloseSocket, CloseEnds, RadioTuned, vars

(* FlexConnection implements FlexCalls: commands are executed in the order *)
(* in which they were sent, each at most once, and a send ends once, with  *)
(* what the radio made of it or without an answer.                         *)
THEOREM ConnectionIsCalls == Spec => ImplementsCalls
<1>1. Init => Calls!Init
  BY DEF Init, Calls!Init
<1> QED
  BY <1>1, InitType, NextType, InitReplies, NextSentOnce, NextReplies, InitCounted,
     NextCounted, StepCalls, PTL
  DEF Spec, ImplementsCalls, Calls!Spec
=============================================================================
