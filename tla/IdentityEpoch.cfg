SPECIFICATION Spec
CONSTANTS
    Edits = {e1, e2, e3}
    Keys = {k1}
    Publishes = {p1}
    Bundles = {b1}
    Fetches = {f1}
    BundleSize = 1
    First = First
    None = None
PROPERTIES
    EpochOnlyGrows
CHECK_DEADLOCK FALSE
