\* Up to two runs, with and without --clear, of which something fails; or one
\* with several uploads, whose custody rows are committed in batches.
SPECIFICATION Spec
CONSTANTS
    NUsers = 2
    MaxRuns = 2
    MaxUploads = 2
    MaxFaults = 1
    Profiles <- AllProfiles
\* The script ends.
CHECK_DEADLOCK FALSE
INVARIANTS
    FilesFollowTables
    DocsMatchRows
    LostRowEndsRun
    EventsStandForOneRow
    InjectedAreFound
    FewAreOutliers
