SPECIFICATION Spec
CONSTANTS
    a = a
    Package = {a}
    Packages <- MCPackages
    InLists = {"install", "upgradeonly", "supersede", "deinstall", "hold", "error"}
    InCommand = {"install", "supersede", "hold"}
    MaxVersion = 3
    BigCount = 10
    BigShare = 5
PROPERTIES
    Selects
    NeverDowngrades
    AddedWereInvited
    HeldStay
