----------------------------- MODULE MCResources -----------------------------
EXTENDS ResourceHistory

CONSTANTS w1, rd,   \* clients
          a, b,     \* names
          x, y, z   \* words

OneWay  == [rules |-> {[inputs |-> {x}, outputs |-> {y, z}]}]
Circle  == [rules |-> {[inputs |-> {x, y}, outputs |-> {x, y}], [inputs |-> {y}, outputs |-> {z}]}]
NoRules == [rules |-> {}]

To(n)       == [indexes |-> <<n>>]
Index(n)    == [kind |-> "searchIndex", index |-> n]
Blob        == [kind |-> "other", index |-> NoName]
Named(n)    == [name |-> n, inline |-> NoSource]
Inline(n, s) == [name |-> n, inline |-> s]

Stored(body, etag) == [body |-> body, etag |-> etag]

BootResources == [kind \in Kinds |-> [n \in Names |->
    CASE kind = "synonymMap" /\ n = a -> Stored(OneWay, 1)
      [] kind = "knowledgeSource" /\ n = a -> Stored(Index(a), 1)
      [] kind = "knowledgeSource" /\ n = b -> Stored(Index(b), 2)
      [] kind = "knowledgeBase" /\ n = a ->
            Stored([entries |-> <<Named(a), Named(b)>>], 1)
      [] OTHER -> NoItem]]

BootTwo == [n \in Names |->
    IF n = a THEN [docs |-> {1, 2}, maps |-> <<a>>] ELSE [docs |-> {1}, maps |-> <<>>]]

Save(op, kind, n, body) == [op |-> op, kind |-> kind, name |-> n, body |-> body]
On(op, kind, n)         == [op |-> op, kind |-> kind, name |-> n]
Whole(op)               == [op |-> op]
Define(n, maps)         == [op |-> "createIndex", name |-> n, maps |-> maps]
DropIndex(n)            == [op |-> "deleteIndex", name |-> n]
Upload(n, d)            == [op |-> "upload", name |-> n, doc |-> d]
Search(n, words)        == [op |-> "search", name |-> n, words |-> words]
Retrieve(n, top)        == [op |-> "retrieve", name |-> n, top |-> top]

ThreeAndOne == [c \in Clients |-> IF c = w1 THEN 3 ELSE 1]

ResourceWorkload == [c \in Clients |->
    IF c = w1
    THEN {Save("put", "synonymMap", a, Circle), Save("create", "synonymMap", b, OneWay),
          Save("put", "synonymMap", b, NoRules), On("delete", "synonymMap", a),
          Save("create", "alias", b, To(a)), On("delete", "alias", b),
          On("delete", "knowledgeSource", a), Save("put", "knowledgeSource", a, Blob),
          Save("put", "knowledgeBase", a, [entries |-> <<Inline(b, Index(b))>>]),
          DropIndex(a), DropIndex(b), Upload(a, 3), Define(b, <<>>), Whole("reset")}
    ELSE {On("get", "alias", b), [op |-> "list", kind |-> "synonymMap"], Whole("listIndexes"), Whole("stats"),
          Define(b, <<a, b>>), Search(a, <<x, y>>), Search(b, <<x>>), Retrieve(a, 2)}]

=============================================================================
