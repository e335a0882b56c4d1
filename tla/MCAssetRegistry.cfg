CONSTANTS
    Request = {r1, r2, r3}
    Field = {f1, f2}
    Key = {k1, k2}
    Site = {{k1, k2}}
    Nobody = Nobody
SYMMETRY RegistrySymmetry
SPECIFICATION Spec
INVARIANTS
    TypeOK
    SettledAssetIsWhole
    ResponsesAreFresh
    KnownAssetsAreFound
PROPERTY DirectorySpec
CHECK_DEADLOCK FALSE
