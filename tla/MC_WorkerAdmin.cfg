SPECIFICATION Spec
CONSTANTS
    Person = {ann, ben}
    LastId = 3
SYMMETRY People
INVARIANTS
    ReferencesHold
    OneEntryPerId
