CONSTANT NoBusy = NoBusy
SPECIFICATION Spec
INVARIANT FilterMatchesTable
INVARIANT ObjectDescribesBody
INVARIANT LengthTrue
INVARIANT FramingSound
CHECK_DEADLOCK FALSE
