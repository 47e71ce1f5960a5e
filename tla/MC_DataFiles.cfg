SPECIFICATION FilesSpec
CONSTANTS
    Kind = {"config", "workers", "tasks", "absences", "cursors", "snapshot"}
    First <- MCFirst
    Edits <- MCEdits
    Fresh <- MCFresh
    Content <- MCContent
    NoFile = NoFile
    Torn = Torn
    MaxCommands = 2
    MaxEdits = 1
INVARIANTS
    TypeOK
    BackupIsPrevious
    LoadsAsMeant
PROPERTIES
    ImplementsAtomicFile
\* A bounded number of commands and edits: the model stops after them.
CHECK_DEADLOCK FALSE
