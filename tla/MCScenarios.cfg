CONSTANTS
 Nil = Nil
 Approved = a17
 Others = {a21, a22}
 Thresholds = {1, 2, 3}
 MaxFlips = 2
 MaxRewrites = 2
 MaxForgeries = 4
 RPWatched <- MCRPWatched
 MaxEdits = 1
 MaxSwaps = 2
 SPWatched <- MCSPWatched
 SPMaxEdits = 1
 SPMaxSwaps = 2
SPECIFICATION ScenarioSpec
INVARIANTS RecoveryIsClassified RecoveryRunsOnItsCutover DetectionIsClassified AdmittedResponseIsExecuted AdmittedSupportIsExecuted
PROPERTIES AdmittedBundleIsOne
