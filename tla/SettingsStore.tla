---------------------------- MODULE SettingsStore ----------------------------
(***************************************************************************)
(* What config.yaml is to everybody who reads and writes it: a store of    *)
(* settings.  A writer copies the store, works on its copy, and puts it    *)
(* back whole: what another has written in between is lost.  A writer that *)
(* dies or fails on the way leaves the store as it was, or empty: every    *)
(* setting then has its default.                                           *)
(*                                                                         *)
(* ConfigFile implements this with lines of text and their comments.       *)
(***************************************************************************)
CONSTANTS
  Writers,   \* the programs that write
  Settings,  \* what can be set
  Values,    \* what a setting can be
  Default    \* the value of a setting the file does not have

Stores == [Settings -> Values]

VARIABLES
  store,     \* the value of every setting
  pending    \* the copies that are being worked on: [by, base, asked]

vars == <<store, pending>>

Writing(by) == \E w \in pending : w.by = by

(* The settings in asked change, and no other. *)
Put(asked, base) ==
  [s \in Settings |-> IF s \in DOMAIN asked THEN asked[s] ELSE base[s]]

Request(w) == /\ w.by \in Writers
              /\ DOMAIN w.asked \subseteq Settings
              /\ \A s \in DOMAIN w.asked : w.asked[s] \in Values

(* A writer copies the store. *)
Ask(w) ==
  /\ ~Writing(w.by) /\ Request(w)
  /\ pending' = pending \cup {w}
  /\ w.base = store
  /\ UNCHANGED store

Save(w) ==
  /\ store' = Put(w.asked, w.base)
  /\ pending' = pending \ {w}

GiveUp(some) ==
  /\ pending' = pending \ some
  /\ UNCHANGED store \/ store' = Default

Init == store \in Stores /\ pending = {}

Next == \/ \E w \in pending' : Ask(w)
        \/ \E w \in pending : Save(w)
        \/ \E some \in SUBSET pending : some # {} /\ GiveUp(some)

Spec == Init /\ [][Next]_vars
=============================================================================
