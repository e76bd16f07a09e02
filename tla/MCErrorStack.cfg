CONSTANTS
    Messages = {"timeout", "overflow"}
    Modules = {"camera", "mount"}
    MaxTime = 3
    MaxErrors = 3
    Ops = {"InsertError", "InsertErrorCompressed", "SetFilteredModules", "ClearFilteredModules"}
SPECIFICATION Spec
INVARIANT CompressedOrdered
