--------------------------- MODULE MCFrameParser ---------------------------
(* FrameParser on noise of single bytes and pairs, the head of a display   *)
(* frame, a long run of text, and two different status frames, read one by *)
(* one or together.  The text of one of them is a byte that is a marker.   *)
EXTENDS FrameParser

StatusFrame(text) == <<Sync, Sync, Sync, Csv, text, "d">>

MCChunks ==
  {<<b>> : b \in {Sync, Csv, Rcu, "d"}}
  \cup {<<Sync, Sync>>, <<Sync, Sync, Sync, Rcu>>, [i \in 1 .. 13 |-> "d"]}
  \cup {StatusFrame("d"), StatusFrame(Rcu), StatusFrame("d") \o StatusFrame(Rcu)}
=============================================================================
