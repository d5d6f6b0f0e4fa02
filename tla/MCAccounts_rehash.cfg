SPECIFICATION AccountsSpec
CONSTANTS
    Uids = {u1}
    Names = {n1, n2}
    Passwords = {p1, p2}
    Perms = {manage, view}
    Manage = manage
    Threads = {t1, t2}
    MaxRequests = 2
    Members = {u1}
    PasskeyIds = {k1}
    Countless = {}
    Issuers = {i1}
    Subjects = {s1}
    Emails = {e1}
    Handlers = {t1}
    MaxServed = 0
    MaxSigned = 0
    usersMax = 1
    passkeysMax = 1
PROPERTY RehashKeepsThePassword
CHECK_DEADLOCK FALSE
SYMMETRY Symmetry
