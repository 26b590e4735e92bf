------------------------- MODULE MCRadioController -------------------------
(* RadioController with a Flex or no radio configured, a client that       *)
(* switches to a TCI radio and one that edits the Flex section only.       *)
EXTENDS RadioController

MCChanges ==
  {[kind |-> {"tci"}, flex |-> {}, tci |-> {1}],
   [kind |-> {}, flex |-> {1}, tci |-> {}]}

MCShipped == {[kind |-> k, flex |-> 0, tci |-> 0] : k \in {"none", "flex"}}
=============================================================================
