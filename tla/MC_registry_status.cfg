CONSTANTS
    r1 = r1
    r2 = r2
    col1 = col1
    col2 = col2
    a1 = a1
    a2 = a2
    RuntimeIDs <- MCRuntimeIDs
    Colonies <- MCColonies
    Admins <- MCAdmins
    None = None
SPECIFICATION Spec
PROPERTY ReportedStatusCommitted
