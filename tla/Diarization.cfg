CONSTANTS
    Window = 8
    Shift = 3
    FrameShift = 2
    ChunkFrames = 3
    Locals = {1, 2}
    MinAlone = 1
    MinOn = 1
    MinOff = 1
    Collar = 1
    Short = 1
    Stores <- TheStores
    Configs <- TheConfigs
    References <- TheReferences
    Rescored <- TheRescored
SPECIFICATION Spec
INVARIANTS LabelsAreSound TurnsAreTheMostVoted BestSoFar ScoresAreRight
