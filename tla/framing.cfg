\* Payload 1, trailer 1: a status frame of six bytes.  The buffer holds the
\* head of a display frame and two status frames, and not one byte more.
\* Five reads hold a torn header and two intact frames after it.
CONSTANTS
  Data = {"d"}
  Payload = 1
  Trailer = 1
  MaxBuffer = 16
  Chunks <- MCChunks
  MaxReads = 5
SPECIFICATION FramesSpec
INVARIANTS FramesTypeOK ChunksDoNotMatter Resynchronises
