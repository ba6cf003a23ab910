\* Two clients whose writes never meet on a document.
CONSTANTS
    n1 = n1
    n2 = n2
    k1 = k1
    k2 = k2
    k3 = k3
    t1 = t1
    t2 = t2
    v1 = v1
    v2 = v2
    p1 = p1
    p2 = p2
    w1 = w1
    w2 = w2
    NoIndex = NoIndex
    NoDoc = NoDoc
    NoAlias = NoAlias
    Absent = Absent
    Null = Null
    NoSchema = NoSchema
    NoName = NoName
    NoJob = NoJob
    NoReply = NoReply
    Names = {n1, n2}
    Keys = {k1, k2, k3}
    Fields = {}
    Subfields = {p1, p2}
    Dims = {0, 1, 2}
    Texts = {t1, t2}
    Vecs = {v1, v2}
    VecLen <- MCVecLen
    Embedding <- MCEmbedding
    Clients = {w1, w2}
    Workload <- OrderlyWorkload
    Boot <- BootNone

SPECIFICATION OrderlySpec

INVARIANTS
    TypeOK
    StoresAgreeAtRest
    AcknowledgedWritesHold
    NamespaceDisjoint
    NoRollback

PROPERTIES
    ImplementsCatalog
