\* Two upstream clients, one driver snooping: q2Servers routing.
CONSTANTS
    Clients = {1, 2}
    d1 = d1
    Drivers <- MCDrivers
    DriverDevs <- MCDriverDevs
    Devs = {"CCD1", "CCD2"}
    Names = {"IMG"}
    DefaultBlob = "Never"
    MaxQSiz = 2
    MaxStreamSiz = 1
    BlobSize = 2
    Stanzas = {"getProperties"}
    ClientDevs = {"CCD1", "CCD2", "", "*"}
SPECIFICATION Spec
CONSTRAINT PropsBound
INVARIANT UpstreamOnlyToInterested
