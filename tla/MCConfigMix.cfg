SPECIFICATION Spec
CONSTANTS
    Names = {v1}
    Settings = {s1, s2, bad}
    Valid = {s1, s2}
    ApiValid = {s1, s2, bad}
    Threads = {t1}
    Loop = loop
    MaxViews = 2
PROPERTIES
    MixFreely
