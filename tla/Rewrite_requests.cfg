CONSTANTS
    None = None
    CallerKey = CallerKey
    Operator = Operator
    Peer = Peer
    Names <- MCNames
    Lines <- MCLines
    Replies <- MCReplies
    Auths <- MCAuths
    Queries <- MCQueries
    MaxLines = 3
CHECK_DEADLOCK FALSE
SPECIFICATION Spec
INVARIANTS
    TypeOK
    SecretsStay
    CredentialArrives
    HopsStay
    RestIsUntouched
