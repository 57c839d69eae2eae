CONSTANTS
    node = node  ama = ama  c1 = c1  c2 = c2
    mum = mum  mumLocal = mumLocal  fire = fire  typo = typo
    numMum = numMum  numFire = numFire
    Devices = {node}
    Drivers = {ama}
    DeviceOf <- MCDeviceOf
    Subjects = {key}
    Contacts = {c1}
    Phones = {mum, mumLocal, fire, typo}
    Numbers = {numMum, numFire}
    Normal <- MCNormal
    Malformed = Malformed
    AllowList = {fire}
    Limit = 2
    Window = 2
    Horizon = 6
    None = None
SPECIFICATION Spec
INVARIANTS WithinLimit WindowIsExact RelayInv
