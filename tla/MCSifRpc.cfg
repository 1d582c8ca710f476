SPECIFICATION Spec
CONSTANTS
    s1 = s1
    s2 = s2
    q1 = q1
    Client = {c1}
    Server <- TwoServers
    RpcQueue = {q1}
    Owner <- Owners
    Sender = {m1}
    SendGroups = 3
    MaxIds = 2
    MaxWakeups = 1
    Concurrent = FALSE
    Nobody = nobody
INVARIANTS
    AnswerIsOwn
PROPERTIES
    ImplementsRpc SenderIsCalledBack
