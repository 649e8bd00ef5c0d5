\* Two identities, with one e-mail or two accounts; three refresh tokens.
SPECIFICATION Spec
CONSTANTS
    google = google
    apple = apple
    e1 = e1
    Account = {a1, a2}
    Login = {google, apple}
    Email = {e1}
    Emails <- SameOrHidden
    Token = {t1, t2, t3}
    Req = {r1, r2}
    None = None
SYMMETRY Slots
INVARIANTS AccountsSound RotationBounded LostNamesBounded
CHECK_DEADLOCK FALSE
