SPECIFICATION Spec
CONSTANTS
    Clients = {c1, c2}
    None = None
    NumStreams = 1
    Protocols = {"tcp", "udp"}
    Modes = {"SENDER", "RECEIVER", "BIDIRECTIONAL"}
    Tos = FALSE
    MaxFaults = 1
INVARIANTS SuccessIsMutual StreamsArePaired StrangersDoNoHarm NobodyWaitsInVain
PROPERTIES ImplementsIperfTest ClientsEnd ServerComesBack
CHECK_DEADLOCK FALSE
