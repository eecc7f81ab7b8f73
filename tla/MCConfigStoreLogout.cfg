CONSTANTS
    dp = dp
    sp = sp
    p1 = p1
    p2 = p2
    internetmarke = internetmarke
    webstamp = webstamp
    Procs = {p1}
    Providers = {dp, sp}
    DefaultProvider = dp
    Wires = {internetmarke, webstamp}
    DefaultWire <- RegistryWire
    Payloads = {x}
    Bare = Bare
    None = None
    Missing = Missing
    Blank = Blank
    Garbled = Garbled
    Overlap = FALSE
    Crashes = FALSE
SPECIFICATION Spec
PROPERTIES
    LogoutRemoves
