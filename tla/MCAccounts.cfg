SPECIFICATION Spec
CONSTANTS
    ann = ann  bob = bob
    weak = weak  strong = strong  wrong = wrong
    acme = acme  bolt = bolt
    c1 = c1  c2 = c2
    r1 = r1  r2 = r2  r3 = r3  r4 = r4
    None = None
    Emails = {ann, bob}
    Passwords = {weak, strong, wrong}
    Organizations = {acme, bolt}
    Cookies = {c1, c2}
    Requests = {r1, r2, r3, r4}
    Starts <- Scenes
    LoginAttempts = 2  LoginWindow = 2
    MailAttempts = 2  MailWindow = 2
    IdleTime = 2  AbsoluteTime = 3
    VerificationTime = 2  ResetTime = 1
    RequireVerification = TRUE
    RegistrationEnabled = TRUE
INVARIANTS
    OpenSessionsKnowThePassword
    OneOpenSessionPerSignIn
    AttemptsAreLimited
    NoCircularWait
PROPERTIES
    LinksWorkOnce
CHECK_DEADLOCK FALSE
