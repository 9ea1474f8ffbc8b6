SPECIFICATION AccountsSpec
CONSTANTS
    Unset = Unset
    Emails = {e1, e2}
    Passwords = {p1, p2}
    Requests = {r1, r2}
    MaxRows = 2
SYMMETRY Symmetry
INVARIANTS AnswersJustified EmailHeldOnce LastPasswordWorks
