\* One client against one driver: every client stanza, every device form.
CONSTANTS
    Clients = {1}
    d1 = d1
    Drivers <- MCDrivers
    DriverDevs <- MCDriverDevs
    Devs = {"CCD1", "CCD2"}
    Names = {"IMG"}
    DefaultBlob = "Never"
    MaxQSiz = 2
    MaxStreamSiz = 1
    BlobSize = 2
    Stanzas = {"getProperties", "enableBLOB", "pingRequest", "newNumberVector", "newBLOBVector", "setBLOBVector", "malformed"}
    ClientDevs = {"CCD1", "", "*"}
SPECIFICATION Spec
CONSTRAINT PropsBound
INVARIANT TypeOK
INVARIANT NoDuplicateProps
PROPERTY SetBLOBRefusalHonoured
