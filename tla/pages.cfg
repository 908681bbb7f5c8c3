CONSTANTS
    m1 = m1
    m2 = m2
    m3 = m3
    a1 = a1
    a2 = a2
    Mailbox <- Mailboxes
    Account = {a1, a2}
    AccountOf <- OwningAccount
    Opened <- FirstTwo
    View = {"one", "two"}
    Value = {"one", "two"}
    Email = {"one", "two"}
    Message <- Mailboxes
    OwnerOf <- Recipient
    MaxConcurrent = 2
    MaxAccepted = 3
    MaxChanges = 2
    MaxSilent = 1
    MaxJobs = 2
    MaxFeed = 1
    MaxStatus = 1
    MaxCommands = 2
    MaxPuts = 2
    MaxLog = 3
    MaxRowRequests = 2
    MaxId = 5
SPECIFICATION Spec
INVARIANTS TypeOK AccountsSerialised CountsAddUp DrawerMatches CodeMatches FormSaved FiguresRight FormCurrent CredentialsMatch ShownMatches ConsoleIsLive
PROPERTIES ImplementsKeyedWork FreshOrOvertaken JobReported StatusRecovers ProgressStays
CHECK_DEADLOCK FALSE
