\* A start of the service and runs from the command line with a backup;
\* three files of two statements, and two accidents.
CONSTANTS
    Startup = Startup
    saving = saving
    Runs = {Startup, saving}
    Copying = {saving}
    AutoMigrate = TRUE
    LastFile = 3
    Statements = 2
    Fragile = {3}
    Dependent = {2}
    Nobody = Nobody
    MaxAccidents = 2
SPECIFICATION FairSpec
INVARIANTS
    RecordedApplied
    StuckByAccident
    CopyWhole
PROPERTIES
    EventuallyReady
    EventuallyMigrated
