CONSTANTS
  Proc = {core, p1}
  Core = core
  None = None
  Points = {0, 1}
  Exceptions = {0, 13}
  Lines = {0, 1, 7}
SPECIFICATION Spec
INVARIANTS TypeOK StacksIntact ThreadsUndisturbed FrameReadable FrameWaits StackBounded ProgramsAreInterruptible
