SPECIFICATION SessionsSpec
CONSTANTS Accounts = {alice, bob}
 Nobody = nobody
 AppCalls = {c1, c2}
 MaxLogins = 2
 MaxRenewals = 1
 Calm = TRUE
INVARIANTS OneChainPerSignIn 
PROPERTIES ExpiredSessionsEnd
CHECK_DEADLOCK FALSE
