SPECIFICATION UpdateSpec
CONSTANTS
    v190 = v190
    v200rc = v200rc
    v200 = v200
    Version = {v190, v200rc, v200}
    Number <- MCNumber
    File = {exe, dll, zip, part, folder}
    Folder = folder
    Program = {exe, dll}
    Exe = exe
    Archive = zip
    Part = part
    Had = {exe}
    Window = {w}
    Hasty = FALSE
INVARIANTS
    NoProgramFileLost
    CanBeCompleted
    RelaunchedWhole
PROPERTIES
    NoWayBack
