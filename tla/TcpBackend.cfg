SPECIFICATION Spec
CONSTANTS
    Sessions = {s1, s2}
    FrameMod = 3
INVARIANTS TcpStoppedIsEmpty DestroyedByOne
PROPERTIES NoFrameSkipped KeepsSessionLife CallsReturn EndedIsReleased
