\* A caller that reuses a buffer after binding it with BindType Copy.
CONSTANTS
    Params = {p1}
    Buffers = {b1}
    Values = {v1, v2}
    Null = Null
    BindTypes = {"Copy"}
    KeepsBuffers = FALSE
SPECIFICATION Spec
PROPERTIES
    CopyIsPrivate
