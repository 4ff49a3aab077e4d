CONSTANTS
    Cidr = {"10.0.0.0/16", "11.0.0.0/16"}
    DefaultRange = "10.0.0.0/16"
    Invalid = Invalid
    LabelMap <- TeamOrRole
    Null = Null
    Token = {"token-1", "token-2"}
    NoToken = ""
    Key = {"~/.ssh/id_rsa", "~/.ssh/hetzner"}
    DefaultKey = "~/.ssh/id_rsa"
    Script <- ModestOrTelling
    Action = {"create", "adhoc", "save-full-config", "misspelt"}
    CommandLine <- Typical
    Absent = Absent
    MaxEdits = 2
SPECIFICATION Spec
INVARIANTS
    TypeOK
    RoundTrip
    MastersSelected
PROPERTY ArgsStick
