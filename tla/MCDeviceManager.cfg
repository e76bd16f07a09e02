CONSTANTS
    Types = {"Camera"}
    Names = {"cam1", "cam2", "cam3", "cam4"}
    Libs = {""}
    Props = {"exposure"}
    NoDevice = NoDevice
    NoRead = NoRead
    MaxDevs = 5
SPECIFICATION Spec
PROPERTY RegistryRefined
