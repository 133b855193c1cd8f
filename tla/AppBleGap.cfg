SPECIFICATION Spec
CONSTANTS
    Apps = {app}
    Adapters = {adapter1, adapter2}
    Handles = {0, 1}
    SER_MAX_CONNECTIONS = 2
    Pairing = {adapter1}
    MaxReplies = 2
    none = none
INVARIANTS NeverAnotherAdapter KeysOfPairings OwnKeyset
