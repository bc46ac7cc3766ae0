CONSTANTS
    None = None
    Name = Name
    Tabs = {t1, t2}
    Flows = {f1, f2}
    Codes = {c1, c2}
    Sids = {s1, s2}
    Subjects = {alice, stranger}
    Allowed = {alice}
SPECIFICATION Spec
PROPERTIES
    FlowCookieDropped
CHECK_DEADLOCK FALSE
