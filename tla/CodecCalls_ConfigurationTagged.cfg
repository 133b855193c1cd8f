SPECIFICATION Spec
CONSTANTS
    Versions = {3, 5, 6}
    MaxNull = 0
    CallsOf <- MCCalls
    NumbersOf <- MCNumbers
    EventsOf <- MCEvents
    Decoders <- MCDecoders
    TypesOf <- MCEventTypes
INVARIANT
    ConfigurationTagged
