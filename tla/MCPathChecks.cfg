SPECIFICATION Spec
CONSTANTS
    Packets <- MCPackets
    Length <- MCLength
    Meaning <- MCMeaning
    Symbols <- MCSymbols
    Programs <- MCPrograms
    Workers = {w1, w2}
    Main = main
    Known = {"always"}
    Options <- MCOptions
    MIN_PACKETSIZE = 1
    MTU = 9
INVARIANTS MarksSound InStep BoundFits MarksComplete VerdictsRight
SYMMETRY Threads
