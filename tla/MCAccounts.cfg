CONSTANTS
    u1 = u1
    u2 = u2
    n1 = n1
    n2 = n2
    e1 = e1
    e2 = e2
    w1 = w1
    w2 = w2
    s1 = s1
    s2 = s2
    b1 = b1
    r1 = r1
    r2 = r2
    Users <- MCUsers
    Names <- MCNames
    Emails <- MCEmails
    Passwords <- MCPasswords
    Subjects <- MCSubjects
    EmailOf <- MCEmailOf
    Browsers <- MCBrowsers
    Requests <- MCRequests
    Nobody = Nobody
    NoName = NoName
    NoEmail = NoEmail
    NoPassword = NoPassword
    NoSubject = NoSubject
    NoRow = NoRow
    NoToken = NoToken
    NoFlow = NoFlow
    Idle = Idle
    USERNAME_ATTEMPTS = 2
    MaxRequests = 4
    MaxFlows = 2
    MaxVersion = 1
SPECIFICATION MCSpec
INVARIANTS AccountsSound LimitsHold
PROPERTIES AccountsKept
SYMMETRY Symmetry
CHECK_DEADLOCK FALSE
