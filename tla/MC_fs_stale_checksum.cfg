CONSTANTS
    c1 = c1
    c2 = c2
    n1 = n1
    n2 = n2
    v1 = v1
    v2 = v2
    Clients <- MCClients
    Names <- MCOneName
    Contents <- MCContents
    Absent = Absent
    MaxObjects = 3
SPECIFICATION Spec
INVARIANT MetadataMatchesObject
