SPECIFICATION NoteSpec
CONSTANTS
    Users = {u1, u2}
    Clients = {k1}
    Notifiers = {s1}
    Digesters = {d1}
    MaxNotes = 2
    BatchLimit = 1
PROPERTIES
    BacklogDrains
CHECK_DEADLOCK FALSE
