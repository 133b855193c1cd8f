SPECIFICATION Spec
CONSTANTS
    Threads = {t1, t2}
    Adapters = {a1, a2}
    Buffers = {b1, b2, b3}
    AdvData <- OneBuffer
    ScanBuffers = {b3}
    PoolSize = 5
    AtMost = 1
    NoThread = NoThread
    NoAdapter = NoAdapter
    NoBuffer = NoBuffer
    SecondThread = t2
    SecondAdapter = a2
    SecondBuffer = b1
CONSTRAINT OneThreadEach
INVARIANTS OwnOutParams Fits BufferBack HangsExplained
CHECK_DEADLOCK FALSE
