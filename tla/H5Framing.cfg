SPECIFICATION Stream
CONSTANTS
    Crc <- calculate_crc16_checksum
    Packets <- MCPackets
    Noise <- MCNoise
    Lengths = {1, 12}
INVARIANTS
    Intact
    OnlyNextLost
PROPERTY
    CutsDoNotMatter
CHECK_DEADLOCK FALSE
