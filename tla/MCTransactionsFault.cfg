\* One connection whose callback goes on after SQLite rolled its transaction back.
CONSTANTS
    Clients = {c1}
    Contents = {v1, v2}
    None = None
    MaxDepth = 1
SPECIFICATION Spec
PROPERTIES
    CallbackWritesWait
