\* Two programs, each with at most one write under way: an edit by hand or by
\* a script is one of the texts the file starts out with.
CONSTANTS
  Words <- MCWords
  Shipped <- MCShipped
  MayBeMissing = TRUE
  UnitRequests = {"C"}
  RadioRequests <- MCRadioRequests
  ToolRequests <- MCToolRequests
  SamePath = TRUE
SPECIFICATION Spec
INVARIANT RestartChangesNothing
PROPERTIES ImplementsStore CommentsStayPut
