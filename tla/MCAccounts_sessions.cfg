CONSTANTS
    ann = ann  ben = ben  r1 = r1  r2 = r2
    Accounts = {ann, ben}
    Provisioned = {ann}
    Tokens = {1, 2, 3}
    Aging = {1}
    Bodies <- MCBodies
    Requests = {r1, r2}
    Key = Key
    None = None
SPECIFICATION Spec
SYMMETRY RequestSymmetry
INVARIANTS AccountsInv OneLivePerSession
PROPERTIES EndedStaysEnded LogoutEndsTheSession ExistingTokensAreRevoked TeamIsLostOnlyInARace SessionsSpec
