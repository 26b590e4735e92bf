------------------------------ MODULE FlexCalls ------------------------------
(***************************************************************************)
(* What a Flex connection is to those who call it: numbered calls to a     *)
(* radio.  Calls are made in the order of their numbers and executed in    *)
(* that order, each at most once.  A call ends once: with the verdict of   *)
(* the radio on it, or without knowing it, and then the command may have   *)
(* been executed, or may be executed later, or never.                      *)
(*                                                                         *)
(* FlexConnection implements this with futures, lines and a reader task.   *)
(***************************************************************************)
EXTENDS Naturals

CONSTANT Calls   \* the numbers of the calls

VARIABLES
  call,      \* what became of each call
  out,       \* the calls whose commands are on their way
  verdict    \* what the radio made of each

vars == <<call, out, verdict>>

(* The next call, by its number.  One that cannot be sent fails at once,   *)
(* and is never executed.                                                  *)
Issue(s) ==
  /\ \A t \in Calls : call[t] = "idle" <=> t >= s
  /\ \/ /\ call' = [call EXCEPT ![s] = "waiting"]
        /\ out' \in {out, out \cup {s}}
     \/ /\ call' = [call EXCEPT ![s] = "connError"]
        /\ UNCHANGED out
  /\ UNCHANGED verdict

Execute(s) ==
  /\ verdict[s] = "none" /\ \A t \in out : s <= t
  /\ \E v \in {"ok", "bad"} : verdict' = [verdict EXCEPT ![s] = v]
  /\ out' = out \ {s}
  /\ UNCHANGED call

Lose == /\ out' \subseteq out
        /\ UNCHANGED <<call, verdict>>

Known(s) == CASE verdict[s] = "ok"   -> {"returned"}
              [] verdict[s] = "bad"  -> {"rejected"}
              [] verdict[s] = "none" -> {}

Finish(s) ==
  /\ call[s] = "waiting"
  /\ \E outcome \in Known(s) \cup {"timeout", "connError"} :
       call' = [call EXCEPT ![s] = outcome]
  /\ UNCHANGED <<out, verdict>>

Init ==
  /\ call = [s \in Calls |-> "idle"]
  /\ out = {}
  /\ verdict = [s \in Calls |-> "none"]

Next == \/ \E s \in Calls : Issue(s) \/ Finish(s)
        \/ \E s \in out : Execute(s)
        \/ Lose

Spec == Init /\ [][Next]_vars
=============================================================================
