CONSTANTS
    dp = dp
    sp = sp
    p1 = p1
    p2 = p2
    internetmarke = internetmarke
    webstamp = webstamp
    Procs = {p1, p2}
    Providers = {dp, sp}
    DefaultProvider = dp
    Wires = {internetmarke}
    DefaultWire <- OneWire
    Payloads = {x}
    Bare = Bare
    None = None
    Missing = Missing
    Blank = Blank
    Garbled = Garbled
    Overlap = TRUE
    Crashes = TRUE
SPECIFICATION Spec
SYMMETRY Symmetry
INVARIANTS
    TypeOK
    NothingInvented
