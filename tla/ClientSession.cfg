SPECIFICATION Spec
CONSTANTS
    guest = guest
    admin = admin
    None = None
    Tabs = {t1}
    Users <- MCUsers
    RoleOf <- MCRoleOf
    Locations = {"home", "login", "register", "callback", "account", "dashboard", "admin"}
    MaxTokens = 2
    MaxCalls = 1
INVARIANT TypeOK
PROPERTIES StrayProfileExplained StoredTokenKept CacheOutlivesToken SpinnerEnds
CHECK_DEADLOCK FALSE
