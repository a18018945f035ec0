SPECIFICATION Spec
CONSTANTS
    Sessions = {p}
    Verifiers = {v1, v2}
    Keys = {k1, k2}
    TrustedKey = k1
    Sources <- Texts
    Bundles <- Versions
    Limits <- DeclaredLimits
    Policy <- VisitorPolicy
    HardShare = 2
    Nonces = {n1}
    Ttl = 1
    Skew = 1
    Drifts <- ClockDrifts
    MaxTime = 1
    NoCode = NoCode
    NoManifest = NoManifest
SYMMETRY Symmetry
INVARIANTS
    TypeOK
    OneAdmissionPerNonce
    AdmittedAsIssued
    OwnManifestStands
