SPECIFICATION Spec
CONSTANTS
    mail = mail
    sent = sent
    Event = {mail, sent}
    Mail = {mail}
    Tick = {1, 2}
    MaxVer = 2
    NoEvent = NoEvent
PROPERTY ReplayIsNoOp
