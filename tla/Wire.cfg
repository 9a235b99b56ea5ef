CONSTANTS
    Lengths = {0, 11, 13, 14, 21, 22, 33, 34, 41, 42, 47, 48, 60, 91, 92, 256, 297, 298, 337, 338, 1514, 1515}
    HeaderLens = {0, 5, 6, 15}
    MY_PACKET_LEN = 1514
    DNSCounts = {1, 2, 63, 64, 299, 300}
    Words = {0, 1, 255, 256, 32767, 32768, 65280, 65534, 65535}
    MaxWords = 6
    Octets = {0, 10, 175, 255}
    Separators = {"colon", "dash"}
SPECIFICATION WireSpec
INVARIANTS
    WithinCapacity
    DecidedOnFrame
    ClientUnderstands
    ReplyWritten
    ReceiverAccepts
    ReadsBack
CHECK_DEADLOCK FALSE
