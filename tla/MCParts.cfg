SPECIFICATION Spec
INVARIANTS BufferIsSound OutputsAreSent PlayoutAgrees ScreensAreKept ServiceIsKept  LibraryIsKept ClientsAreTold
PROPERTIES SkipsNothing
\* A part comes to rest where no more of its inputs are counted.
CHECK_DEADLOCK FALSE
