SPECIFICATION FairSpec
CONSTANTS
    e1 = e1
    Keys = {e1}
    Networks = {"none", "bridge"}
    MaxScans = 2
    SettlePolls = 1
    Nobody = Nobody
INVARIANTS TypeOK AbsenceStays ResultAttested NameHeld CredentialsContained
PROPERTIES ScanEnds
CHECK_DEADLOCK FALSE
