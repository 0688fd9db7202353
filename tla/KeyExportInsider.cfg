CONSTANTS
    p1 = p1
    p2 = p2
    k1 = k1
    None = None
    Passphrases <- MCPassphrases
    RoomKeys <- MCRoomKeys
    MaxKeys = 1
    RoundsValues = {1}
    RandomBytes = {0, 3}
    ByteBits = 2
    SaltSize = 1
    IvSize = 2
    RoundsSize = 1
    MacSize = 2
    BlockSize = 2
    MaxExports = 0
    MaxEdits = 2
    ChanceBytes = 1
    Crafters <- MCCrafters
SPECIFICATION Spec
INVARIANTS PanicNeedsPassphrase
