\* Every plan of two systems over three ticks, every slicing of it into frames
\* by deltas below, at and above a tick and the capacity of the accumulator.
CONSTANTS
    Delta = 2
    MaxSteps = 2
    FrameDeltas = {0, 1, 3, 6, 7}
    Loads <- MCLoads
    MaxTicks = 3
    MaxFrames = 4
SPECIFICATION FrameSpec
INVARIANTS
    ClockKeepsTime
    SlicesAgree
    FrameOpsLandOnce
