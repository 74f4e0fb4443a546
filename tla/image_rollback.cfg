SPECIFICATION Spec
CONSTANTS
    a1 = a1
    a2 = a2
    b1 = b1
    c1 = c1
    f1 = f1
    f2 = f2
    None = None
    Entry = {a1, b1}
    NameOf <- MCNameOf
    File = {f1, f2}
    Image <- MCImage
    ReplacedBy <- NoneReplaced
    Forces = {TRUE}
    Scenes <- Forced
    MaxStamp = 3
INVARIANT RollbackRestores
