SPECIFICATION Spec
CONSTANTS
    Writers = {"a", "b"}
    Settling = {"a"}
    Readers = {"r"}
    Parts = 2
INVARIANTS
    EncodingsFaithful
    MigrationFaithful
    FlowFaithful
    ExtensionsFaithful
    CloudFaithful
    StorageSafe
CHECK_DEADLOCK FALSE
