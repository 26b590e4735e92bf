--------------------------- MODULE FlexConnection ---------------------------
(***************************************************************************)
(* One connection to a FlexRadio (spe/flex.py), from the moment its banner *)
(* has been read.  Commands carry a sequence number; a reader task matches *)
(* the replies to the futures the senders wait on, for five seconds at     *)
(* most.  The socket may be closed by the radio, may break, or be closed   *)
(* here, while commands are out.                                           *)
(*                                                                         *)
(* The radio is external: it executes what reaches it in order, refuses    *)
(* what it does not like, may not reply, and tells a subscriber where its  *)
(* slice is tuned.  The slice's fields are one, the frequency.             *)
(***************************************************************************)
EXTENDS Naturals, Sequences, SequencesExt

CONSTANTS
  Freqs,       \* where the slice may be tuned
  MaxSends,    \* bound: commands sent on this connection
  MaxInbound   \* bound: lines on their way from the radio when it sends more

ASSUME FreqsAssumption == Freqs # {}
ASSUME MaxSendsAssumption == MaxSends \in Nat \ {0}
ASSUME MaxInboundAssumption == MaxInbound \in Nat

Seqs == 1 .. MaxSends

VARIABLES
  writer,   \* _writer is set
  loop,     \* the reader task
  closing,  \* where close() is
  seq,      \* _seq
  pending,  \* the keys of _pending
  fut,      \* the future of each command
  call,     \* what became of each send(): idle before it
  cache,    \* slice_state: the frequency last heard of, at most one
  (* external *)
  link,     \* the socket: up, closed by the radio (eof), lost
  sent,     \* commands on their way to the radio
  inbound,  \* lines on their way back
  rig,      \* the frequency the slice is tuned to
  verdict   \* what the radio made of each command

program == <<writer, loop, closing, seq, pending, fut, call, cache>>
radio == <<rig, verdict>>
vars == <<program, link, sent, inbound, radio>>

Command == [seq : Seqs, freq : {{}} \cup {{f} : f \in Freqs}]
Reply == [kind : {"reply"}, seq : Seqs, status : {"ok", "bad"}]
Event == [kind : {"event"}, freq : Freqs]

Waiting(s) == call[s] = "waiting"

-----------------------------------------------------------------------------
(* send() *)

Send ==
  /\ writer /\ seq < MaxSends
  /\ link # "lost"
  /\ seq' = seq + 1
  /\ pending' = pending \cup {seq'}
  /\ fut' = [fut EXCEPT ![seq'] = "open"]
  /\ call' = [call EXCEPT ![seq'] = "waiting"]
  /\ \E freq \in {{}} \cup {{f} : f \in Freqs} :
       sent' = IF link = "up" THEN Append(sent, [seq |-> seq', freq |-> freq])
                              ELSE sent
  /\ UNCHANGED <<writer, loop, closing, cache, link, inbound, radio>>

(* The write fails: the future is forgotten, ConnectionError is raised.  A *)
(* socket that is closing may also take the command and drop it.           *)
SendOnLost ==
  /\ writer /\ seq < MaxSends
  /\ link = "lost"
  /\ seq' = seq + 1
  /\ \/ /\ fut' = [fut EXCEPT ![seq'] = "open"]
        /\ call' = [call EXCEPT ![seq'] = "connError"]
        /\ UNCHANGED pending
     \/ /\ closing = "waiting"
        /\ pending' = pending \cup {seq'}
        /\ fut' = [fut EXCEPT ![seq'] = "open"]
        /\ call' = [call EXCEPT ![seq'] = "waiting"]
  /\ UNCHANGED <<writer, loop, closing, cache, link, sent, inbound, radio>>

Outcome == [ok |-> "returned", bad |-> "rejected", failed |-> "connError"]

(* The sender wakes up with its future.                                    *)
Returns(s) ==
  /\ Waiting(s) /\ fut[s] # "open"
  /\ call' = [call EXCEPT ![s] = Outcome[fut[s]]]
  /\ UNCHANGED <<writer, loop, closing, seq, pending, fut, cache, link, sent,
                 inbound, radio>>

(* Mutant of Times: a command without an answer is sent once more.         *)
TimesAndRepeats(s) ==
  /\ Waiting(s) /\ link = "up"
  /\ sent' = Append(sent, [seq |-> s, freq |-> {}])
  /\ UNCHANGED <<writer, loop, closing, seq, pending, fut, call, cache, link,
                 inbound, radio>>

(* Five seconds are over.  wait_for may time out even when the reply came  *)
(* in the same turn of the event loop.                                     *)
Times(s) ==
  /\ Waiting(s)
  /\ pending' = pending \ {s}
  /\ call' = [call EXCEPT ![s] = "timeout"]
  /\ UNCHANGED <<writer, loop, closing, seq, fut, cache, link, sent, inbound,
                 radio>>

-----------------------------------------------------------------------------
(* The reader task. *)

FailPending ==
  /\ fut' = [s \in Seqs |-> IF s \in pending /\ fut[s] = "open" THEN "failed"
                                                                ELSE fut[s]]
  /\ pending' = {}

(* A line is taken up, unless the task has been cancelled.                 *)
Hears(kind) ==
  /\ loop = "running" /\ closing = "no"
  /\ inbound # <<>> /\ Head(inbound).kind = kind
  /\ inbound' = Tail(inbound)

(* Mutant of DispatchReply: a reply is for whoever has waited longest.     *)
DispatchToOldest ==
  /\ Hears("reply")
  /\ IF pending = {} THEN UNCHANGED <<pending, fut>>
     ELSE LET s == CHOOSE s \in pending : \A t \in pending : s <= t
          IN  /\ pending' = pending \ {s}
              /\ fut' = [fut EXCEPT ![s] = Head(inbound).status]
  /\ UNCHANGED <<writer, loop, closing, seq, call, cache, link, sent, radio>>

(* A reply nobody waits for any more is dropped.                           *)
DispatchReply ==
  /\ Hears("reply")
  /\ LET s == Head(inbound).seq
     IN  /\ pending' = pending \ {s}
         /\ fut' = IF s \in pending /\ fut[s] = "open"
                   THEN [fut EXCEPT ![s] = Head(inbound).status] ELSE fut
  /\ UNCHANGED <<writer, loop, closing, seq, call, cache, link, sent, radio>>

(* Mutant of DispatchEvent: a field once known is kept.                    *)
DispatchFirstEvent ==
  /\ Hears("event")
  /\ cache' = IF cache = {} THEN {Head(inbound).freq} ELSE cache
  /\ UNCHANGED <<writer, loop, closing, seq, pending, fut, call, link, sent,
                 radio>>

DispatchEvent ==
  /\ Hears("event")
  /\ cache' = {Head(inbound).freq}
  /\ UNCHANGED <<writer, loop, closing, seq, pending, fut, call, link, sent,
                 radio>>

(* Mutant of ReadLoopEnds: those who wait are forgotten, not failed.       *)
ReadLoopForgets ==
  /\ loop = "running"
  /\ (link # "up" /\ inbound = <<>>) \/ closing = "cancelling"
  /\ loop' = "ended"
  /\ pending' = {}
  /\ UNCHANGED <<writer, closing, seq, fut, call, cache, link, sent, inbound,
                 radio>>

(* At the end of the stream, on an error, or cancelled.                    *)
ReadLoopEnds ==
  /\ loop = "running"
  /\ (link # "up" /\ inbound = <<>>) \/ closing = "cancelling"
  /\ loop' = "ended"
  /\ FailPending
  /\ UNCHANGED <<writer, closing, seq, call, cache, link, sent, inbound, radio>>

-----------------------------------------------------------------------------
(* close(): it waits for the reader task, then for the socket.             *)

CloseBegins ==
  /\ closing = "no"
  /\ closing' = "cancelling"
  /\ UNCHANGED <<writer, loop, seq, pending, fut, call, cache, link, sent,
                 inbound, radio>>

CloseSocket ==
  /\ closing = "cancelling" /\ loop = "ended"
  /\ closing' = "waiting"
  /\ loop' = "none"
  /\ link' = "lost" /\ inbound' = <<>>
  /\ UNCHANGED <<writer, seq, pending, fut, call, cache, sent, radio>>

(* Mutant of CloseEnds: the senders were all woken by the reader task.     *)
CloseEndsQuietly ==
  /\ closing = "waiting"
  /\ closing' = "closed"
  /\ writer' = FALSE
  /\ UNCHANGED <<loop, seq, pending, fut, call, cache, link, sent, inbound,
                 radio>>

CloseEnds ==
  /\ closing = "waiting"
  /\ closing' = "closed"
  /\ writer' = FALSE
  /\ FailPending
  /\ UNCHANGED <<loop, seq, call, cache, link, sent, inbound, radio>>

-----------------------------------------------------------------------------
(* The radio. *)

Subscribed == verdict[1] = "ok"   \* connect() sends `sub slice all' first

(* The events that follow when the slice is at f. *)
Told(f) == IF Subscribed' THEN <<[kind |-> "event", freq |-> f]>> ELSE <<>>

(* A command is executed or refused.  The reply may get lost in the radio. *)
RadioExecutes ==
  /\ sent # <<>> /\ Len(inbound) <= MaxInbound
  /\ sent' = Tail(sent)
  /\ \E status \in {"ok", "bad"} :
       LET c == Head(sent)
           reply == [kind |-> "reply", seq |-> c.seq, status |-> status]
       IN  /\ verdict' = [verdict EXCEPT ![c.seq] = status]
           /\ rig' = IF status = "ok" /\ c.freq # {}
                     THEN CHOOSE f \in c.freq : TRUE ELSE rig
           /\ \E replies \in {<<>>, <<reply>>} :
                inbound' = IF link = "up" THEN inbound \o replies \o Told(rig')
                                          ELSE inbound
  /\ UNCHANGED <<program, link>>

(* The operator turns the knob. *)
RadioTuned ==
  /\ link = "up" /\ Len(inbound) <= MaxInbound
  /\ \E f \in Freqs \ {rig} : rig' = f
  /\ UNCHANGED <<verdict, program, link, sent>>
  /\ inbound' = inbound \o Told(rig')

(* What was read before the end of the stream is still there.              *)
RadioCloses ==
  /\ link = "up"
  /\ link' = "eof" /\ sent' = <<>>
  /\ UNCHANGED <<program, inbound, radio>>

LinkBreaks ==
  /\ link \in {"up", "eof"}
  /\ link' = "lost" /\ inbound' = <<>>
  /\ \E n \in 0 .. Len(sent) : sent' = SubSeq(sent, 1, n)
  /\ UNCHANGED <<program, radio>>

Init ==
  /\ writer = TRUE /\ loop = "running" /\ closing = "no"
  /\ seq = 0 /\ pending = {}
  /\ fut = [s \in Seqs |-> "open"] /\ call = [s \in Seqs |-> "idle"]
  /\ cache = {}
  /\ link = "up" /\ sent = <<>> /\ inbound = <<>>
  /\ rig \in Freqs /\ verdict = [s \in Seqs |-> "none"]

Callers == Send \/ SendOnLost \/ \E s \in Seqs : Returns(s) \/ Times(s)
Reader == DispatchReply \/ DispatchEvent \/ ReadLoopEnds
Closer == CloseBegins \/ CloseSocket \/ CloseEnds
Radio == RadioExecutes \/ RadioTuned \/ RadioCloses \/ LinkBreaks

Next == Callers \/ Reader \/ Closer \/ Radio

Spec == Init /\ [][Next]_vars

(* The event loop runs what is ready.  Only the wait for a reply has a     *)
(* timeout, and nothing below leans on it.                                 *)
FairSpec ==
  /\ Spec
  /\ WF_vars(Reader)
  /\ WF_vars(CloseSocket \/ CloseEnds)
  /\ \A s \in Seqs : WF_vars(Returns(s))

-----------------------------------------------------------------------------

TypeOK ==
  /\ writer \in BOOLEAN
  /\ loop \in {"none", "running", "ended"}
  /\ closing \in {"no", "cancelling", "waiting", "closed"}
  /\ seq \in 0 .. MaxSends /\ pending \subseteq 1 .. seq
  /\ fut \in [Seqs -> {"open", "ok", "bad", "failed"}]
  /\ call \in [Seqs -> {"idle", "waiting", "returned", "rejected", "timeout",
                        "connError"}]
  /\ cache \subseteq Freqs
  /\ link \in {"up", "eof", "lost"}
  /\ sent \in Seq(Command) /\ inbound \in Seq(Reply \cup Event)
  /\ rig \in Freqs /\ verdict \in [Seqs -> {"none", "ok", "bad"}]

(* A send reports what the radio made of that very command, also when an   *)
(* earlier one timed out and its reply comes late.                         *)
OwnReply ==
  \A s \in Seqs : /\ call[s] = "returned" => verdict[s] = "ok"
                  /\ call[s] = "rejected" => verdict[s] = "bad"

(* Exactly those who wait for an answer can be reached by one: nobody is   *)
(* forgotten, whatever ends first, and no entry is left behind.            *)
PendingAreWaiting == pending = {s \in Seqs : Waiting(s) /\ fut[s] = "open"}

Calls == INSTANCE FlexCalls
  WITH Calls <- Seqs,
       out <- {sent[i].seq : i \in DOMAIN sent}

(* Commands reach the radio in the order in which they were sent, each     *)
(* once or never, however sends overlap; and a send ends once, for good,   *)
(* with what the radio made of it or without an answer.                    *)
ImplementsCalls == Calls!Spec

(* Once everything the radio said has been read, the cached frequency is   *)
(* where the slice is: a snapshot is of the present.                       *)
CacheIsRecent ==
  (link = "up" /\ ~\E i \in DOMAIN inbound : inbound[i].kind = "event")
    => cache \subseteq {rig}

(* Closing the connection wakes every sender, without its timeout.         *)
CloseWakesAll ==
  \A s \in Seqs : Waiting(s) /\ closing # "no" ~> ~Waiting(s)
=============================================================================
