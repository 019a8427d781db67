CONSTANTS
    Files <- const_Files
    Index = "/index.html"
    Root = "/"
    NoExtension = {"/LICENSE"}
    Generated = {"/gen.css"}
    Providers <- const_Providers
    Threads = {"t1", "t2"}
    Lengths = {2}
    MaxVersion = 2
    MaxGets = 2
    MaxReloads = 2
SPECIFICATION FairSpec
INVARIANTS
    OneCopySent
    GeneratedSurvive
PROPERTIES
    NothingMissing
    AllReturn
CHECK_DEADLOCK FALSE
