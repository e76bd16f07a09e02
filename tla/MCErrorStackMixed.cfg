CONSTANTS
    Messages = {"timeout", "overflow"}
    Modules = {"camera", "mount"}
    MaxTime = 3
    MaxErrors = 3
    Ops = {"InsertError", "InsertErrorCompressed"}
SPECIFICATION Spec
INVARIANT CompressedIsLatest
