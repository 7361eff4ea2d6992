SPECIFICATION Spec
CONSTANTS
    Packets <- MCPackets
    Length <- MCLength
    Meaning <- MCMeaning
    Symbols <- MCSymbols
    Programs <- MCPrograms
    Workers = {w1, w2}
    Main = main
    Known = {"always"}
    Options <- NamedByOthers
    MIN_PACKETSIZE = 1
    MTU = 9
INVARIANT MarksSound
