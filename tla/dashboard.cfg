\* Two pages, which are interchangeable, with dead connections of both.  Two
\* messages on their way to a page are enough for a phase to arrive after the
\* session has moved on.
CONSTANTS
  Pages = {p, q}
  Readings = {0, 1}
  MaxInbox = 2
SYMMETRY Symmetry
SPECIFICATION Spec
INVARIANTS PageIsCurrent PanelSettles StopOffered
