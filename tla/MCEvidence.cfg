\* Two services admit what three leases cover at two instants; two processes persist one
\* object of two files through two power losses; two processes publish one run with a lost
\* answer and one act on the bucket from outside.
CONSTANTS
    Nil = Nil
    Services = {p1, p2}
    PolicyDocuments <- TheDocuments
    Templates <- TheTemplates
    SignatureLists <- TheSignatures
    Instants = {1, 2}
    MaxRegisteredLeases = 2
    MaxAdmissions = 2
    Objects = {o}
    Payloads = {a, b}
    Files = {f1, f2}
    Persisters = {p1, p2}
    MaxStages = 2
    MaxLosses = 2
    Clients = {p1, p2}
    RetainUntil = retain
    MaxLost = 1
    MaxOutside = 1
    Runtimes <- MCRuntimes
    Plan <- MCPlan
    Blobs = 1
    MaxCaptures = 2
    MaxAttempts = 3
SPECIFICATION EvidenceSpec
INVARIANTS LedgerAlwaysValidates AdmittedUnderTrust PublicationIsHeld OneLogicalResult
PROPERTIES OutcomesAreFinal FilesystemKeepsPromise S3KeepsPromise
SYMMETRY EvidenceSymmetry
\* The bounds on leases, admissions, stages, captures and time end the behaviours.
CHECK_DEADLOCK FALSE
