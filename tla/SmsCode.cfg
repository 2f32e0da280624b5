\* Three sends to two phones from two addresses. With quotas of one each quota is
\* the one that refuses somewhere; a minute of two ticks spans two days of three.
CONSTANTS
    Sends = {s1, s2, s3}
    Phones = {p1, p2}
    Addresses = {i1, i2}
    None = None
    PhoneMinute = 1
    PhoneDay = 1
    IPMinute = 1
    IPDay = 1
    Minute = 2
    Day = 3
    Life = 2
    Horizon = 3
SYMMETRY Symmetry
VIEW View
SPECIFICATION Spec
INVARIANTS
    TypeOK
    QuotaHolds
    CodeWorksOnce
    ThreeTries
    CaptchaWorksOnce
