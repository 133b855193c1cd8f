SPECIFICATION Spec
CONSTANTS
    Versions = {2, 3, 5, 6}
    MaxNull = 3
    CallsOf <- MCCalls
    NumbersOf <- MCNumbers
    EventsOf <- MCEvents
    Decoders <- MCDecoders
    TypesOf <- MCEventTypes
INVARIANTS
    ArgumentsArrive
    ResultsArrive
    OnlyOwnAnswer
    EventsArrive
