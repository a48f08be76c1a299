CONSTANTS
    Agendas <- TheAgendas
    People = {p1, p2}
    Attendees <- TheAttendees
    Features = {f1, f2}
    Days <- TheDays
    Weekdays = {monday}
    Ranges <- TheRanges
    MaxMisses = 2
    MaxBlocks = 3
    ChunkLines = 7
    Misheard = {2, 12}
    MaxUnfaithful = 1
    Pairs <- ThePairs
SPECIFICATION Spec
SYMMETRY Alike
INVARIANTS KeyIsSound LossIsAtCuts MisreadIsCaught
