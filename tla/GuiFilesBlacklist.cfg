CONSTANTS
    Proxies = {p1, p2}
    MaxSize = 3
    Backups = 2
    MaxBytes = 11
    Clients = {c1, c2}
    Workers = {1, 33}
    Protocols = {"http"}
    SourceLists = {"mine", "empty line"}
    Configs = {"key", "bad endpoint"}
SPECIFICATION Spec
INVARIANT NeverApplied
