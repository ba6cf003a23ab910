\* Batches of at most three actions on two keys.
CONSTANTS
    n1 = n1
    k1 = k1
    k2 = k2
    t1 = t1
    t2 = t2
    v1 = v1
    v2 = v2
    NoIndex = NoIndex
    NoDoc = NoDoc
    NoAlias = NoAlias
    Absent = Absent
    Null = Null
    Names = {n1}
    Keys = {k1, k2}
    Fields = {}
    Subfields = {}
    Dims = {0, 1}
    Texts = {t1, t2}
    Vecs = {v1, v2}
    VecLen <- MCVecLen
    Embedding <- MCEmbedding
    Definition <- MCDefinition
    Offered <- MCOffered
    MaxActions = 3

SPECIFICATION BatchSpec

INVARIANTS
    OutcomeSetsDisjoint
    ActionsApplyInOrderUnlessRevived
    WritePhaseConverges

CHECK_DEADLOCK FALSE
