SPECIFICATION AccountsSpec
CONSTANTS
    Uids = {u1, u2}
    Names = {n1, n2, n3}
    Passwords = {p1, p2}
    Perms = {manage, view}
    Manage = manage
    Threads = {t1, t2}
    MaxRequests = 2
    Members = {u1, u2}
    PasskeyIds = {k1, k2}
    Countless = {k2}
    Issuers = {i1}
    Subjects = {p1, p2}
    Emails = {e1}
    Handlers = {t1, t2}
    MaxServed = 3
    MaxSigned = 2
    usersMax = 2
    passkeysMax = 1
INVARIANTS AccountsTypeOK UserNamesDiffer DeletedStaysDeleted CredentialsAreOnesOwn
PROPERTIES PasswordsChangeOnRequest RightsComeFromAbove CounterOnlyOvertaken
CHECK_DEADLOCK FALSE
SYMMETRY Symmetry
