CONSTANTS
    guide = guide
    install = install
    config_file = config_file
    prose = prose
    key = key
    host = host
    Files = {guide, install, config_file}
    Pages = {guide, install}
    Lines = {prose, key, host}
    Secrets = {key}
    NewHosts = {host}
    Phrases = {}
    AccessFields = {}
    Unreadable = {}
    Forbidden = {}
    MaxFiles = 2
    MaxLines = 2
    MaxDeleted = 0
    Site <- MCSite
    Texts <- MCTexts
    Tools = {"search_docs", "web_fetch"}
    MinTrust <- MCMinTrust
    Named = {install}
    Starts <- MCStarts
    MaxCalls = 2
    MaxTokens = 1
    MaxTurn = 1
    MaxRecorded = 3
    MaxFollowUps = 1
SPECIFICATION Spec
INVARIANTS TypeOK ReviewedUnlessTrusted WorkingCopyInScope ProposalsAreGated ServedWithinBudget AcceptedAsSeen FilesStayInReview
CHECK_DEADLOCK FALSE
