------------------------------ MODULE MCQueries ------------------------------
(***************************************************************************)
(* Small inputs for QueryCases: one hotel index and what a mistaken client *)
(* makes of it, hotels with one field changed, and the filters on them.    *)
(***************************************************************************)
EXTENDS AnswerCases, RankedPages

\* Characters: 1 and 2 are lower case, 11 and 12 their capitals, 9 is blank.
LowerOf(c) == IF c \in {11, 12} THEN c - 10 ELSE c
UpperOf(c) == IF c \in {1, 2} THEN c + 10 ELSE c
Lowered(text) == [i \in DOMAIN text |-> LowerOf(text[i])]
MatchesPart(pattern, text) == TextMatches("contains", Lowered(text), Lowered(pattern))
AnyPattern(pattern) == pattern # <<>>
NameOnly(text) == IF text = <<>> THEN <<>> ELSE <<<<"Name">>, <<"Where", "City">>>>
OneCharacter(elem, text) == Len(text) = 1
NewYear == [year |-> 2024, month |-> 1, day |-> 1, second |-> 0, tick |-> 0]

Field(name, elem, collection) ==
    [name |-> name, type |-> FromSpelling(elem, collection), key |-> FALSE,
     searchable |-> FALSE, filterable |-> TRUE, sortable |-> FALSE, facetable |-> FALSE,
     retrievable |-> TRUE, stored |-> TRUE,
     dimensions |-> NoDimensions, profile |-> NoRef, vectorizer |-> NoRef, subfields |-> <<>>]

Vec == [Field("Vec", "Single", TRUE) EXCEPT !.dimensions = 2, !.profile = "p",
            !.searchable = TRUE, !.filterable = FALSE]

Rooms == [Field("Rooms", "ComplexType", TRUE) EXCEPT
            !.subfields = <<[Field("Kind", "String", FALSE) EXCEPT !.searchable = TRUE],
                            Field("Beds", "Int32", FALSE), Field("Tags", "String", TRUE)>>]

Where == [Field("Where", "ComplexType", FALSE) EXCEPT
            !.subfields = <<[Field("City", "String", FALSE) EXCEPT !.searchable = TRUE]>>]

Algorithm == [name |-> "alg", kind |-> "hnsw", metric |-> "cosine", m |-> 4,
              efConstruction |-> 400, efSearch |-> 500]
Profile    == [name |-> "p", algorithm |-> "alg", vectorizer |-> "vz"]
Vectorizer == [name |-> "vz", kind |-> "azureOpenAI", hasUri |-> FALSE, source |-> <<>>]
Suggester  == [name |-> "sg", fields |-> <<<<"Name">>, <<"Rooms", "Kind">>>>]

Hotels ==
    [fields |-> <<[Field("Id", "String", FALSE) EXCEPT !.key = TRUE],
                  [Field("Name", "String", FALSE) EXCEPT !.searchable = TRUE],
                  Field("Stars", "SByte", FALSE), Field("Open", "Boolean", FALSE),
                  Field("Built", "DateTimeOffset", FALSE), Field("Life", "Duration", FALSE),
                  Field("Tags", "String", TRUE), Where, Rooms, Vec>>,
     suggesters |-> <<Suggester>>, algorithms |-> <<Algorithm>>,
     profiles |-> <<Profile>>, vectorizers |-> <<Vectorizer>>]

Hidden == [Hotels EXCEPT !.fields[7].retrievable = FALSE, !.fields[9].retrievable = FALSE,
                         !.fields[10].retrievable = FALSE, !.fields[10].stored = FALSE]

ChangedTypes ==
    {FromSpelling(elem, collection) :
        elem \in {"String", "Int32", "Single", "Half", "Duration", "ComplexType", "Byte"},
        collection \in BOOLEAN}

FieldChanges(f) ==
    {[f EXCEPT !.type = t] : t \in ChangedTypes}
    \cup {[f EXCEPT !.searchable = ~@], [f EXCEPT !.sortable = TRUE], [f EXCEPT !.key = ~@],
          [f EXCEPT !.filterable = ~@], [f EXCEPT !.subfields = <<>>],
          [f EXCEPT !.subfields = <<Vec>>], [f EXCEPT !.name = "Stars"]}
    \cup {[f EXCEPT !.dimensions = n] : n \in {NoDimensions, 0, 2, 5}}
    \cup {[f EXCEPT !.profile = name] : name \in {NoRef, "p", "q"}}
    \cup {[f EXCEPT !.vectorizer = name] : name \in {"vz", "none"}}

SectionChanges(d) ==
    {[d EXCEPT !.algorithms = list] :
        list \in {<<>>, <<Algorithm, Algorithm>>, <<[Algorithm EXCEPT !.m = 300]>>,
                  <<[Algorithm EXCEPT !.efSearch = 0, !.kind = "exhaustiveKnn"]>>,
                  <<[Algorithm EXCEPT !.metric = "hamming"]>>}}
    \cup {[d EXCEPT !.profiles = list] :
        list \in {<<>>, <<Profile, Profile>>, <<[Profile EXCEPT !.algorithm = "none"]>>,
                  <<[Profile EXCEPT !.vectorizer = NoRef]>>, <<[Profile EXCEPT !.vectorizer = "none"]>>,
                  <<Profile, [Profile EXCEPT !.name = "q", !.algorithm = "none"]>>,
                  <<Profile, [Profile EXCEPT !.name = "q"]>>}}
    \cup {[d EXCEPT !.vectorizers = list] :
        list \in {<<>>, <<[Vectorizer EXCEPT !.source = <<<<"Name">>>>]>>,
                  <<[Vectorizer EXCEPT !.source = <<<<"Stars">>>>]>>,
                  <<[Vectorizer EXCEPT !.kind = "uri"]>>, <<Vectorizer, Vectorizer>>}}
    \cup {[d EXCEPT !.suggesters = list] :
        list \in {<<Suggester, Suggester>>, <<[Suggester EXCEPT !.fields = <<>>]>>,
                  <<[Suggester EXCEPT !.fields = <<<<"Stars">>>>]>>,
                  <<[Suggester EXCEPT !.fields = <<<<"Where">>>>]>>}}
    \cup {d, [d EXCEPT !.fields = Append(@, [Vec EXCEPT !.name = "Vec2"])]}

HotelDefinitions ==
    UNION {UNION {SectionChanges([Hotels EXCEPT !.fields[i] = f]) : f \in FieldChanges(Hotels.fields[i])} :
             i \in {1, 2, 8, 9, 10}}
    \cup SectionChanges(Hotels) \cup {Hidden}

-----------------------------------------------------------------------------

Room1 == Obj([Kind |-> Str(<<1>>), Beds |-> Num(2), Tags |-> Arr(<<Str(<<1>>)>>)])
Room2 == Obj([Kind |-> Str(<<2>>), Beds |-> Num(1), Tags |-> Arr(<<Str(<<1>>), Str(<<2>>)>>)])
Bare  == Obj([Kind |-> Str(<<1, 2>>)])
Wrong == Obj([Kind |-> Str(<<1>>), Beds |-> Str(<<2>>)])

Hotel ==
    [Id |-> Str(<<7>>), Name |-> Str(<<1, 2>>), Stars |-> Num(2), Open |-> Bool(TRUE),
     Built |-> Str(<<2024, 2, 29, 0>>), Life |-> Str(<<1>>), Tags |-> Arr(<<Str(<<1>>), Str(<<2>>)>>),
     Where |-> Obj([City |-> Str(<<1>>)]), Rooms |-> Arr(<<Room1, Room2>>),
     Vec |-> Arr(<<Num(1), Num(0)>>)]

Values ==
    {Null, Bool(FALSE), Num(1), Num(200), Frac(1), Str(<<>>), Str(<<2>>), Str(<<9, 11>>),
     Str(<<2024, 2, 29>>), Str(<<2024, 3, 1, 0, 0, 4>>), Str(<<2023, 2, 29>>),
     Arr(<<>>), Arr(<<Null>>), Arr(<<Str(<<2>>)>>), Arr(<<Str(<<1>>), Num(1)>>),
     Arr(<<Num(1), Frac(0)>>), Arr(<<Num(1), Num(1000)>>), Arr(<<Num(1)>>),
     Obj([City |-> Str(<<2>>)]), Obj([City |-> Num(1)]), Obj([Town |-> Str(<<1>>)]),
     Arr(<<Room1>>), Arr(<<Room2>>), Arr(<<Bare>>), Arr(<<Room1, Bare>>), Arr(<<Room1, Wrong>>),
     Arr(<<Bare, Obj([Town |-> Null])>>)}

Without(names) == [name \in DOMAIN Hotel \ names |-> Hotel[name]]

Furnished == {Hotels, Hidden, [Hotels EXCEPT !.vectorizers[1].source = <<<<"Name">>>>]}

HotelDocuments(d) ==
    IF d \in Furnished
    THEN {[Hotel EXCEPT ![name] = v] : name \in DOMAIN Hotel, v \in Values}
         \cup {Without({name}) : name \in DOMAIN Hotel}
         \cup {[Hotel EXCEPT !.Built = Str(text)] :
                  text \in {<<2024, 3, 1, 3600, 500>>, <<PlusSign, 10000, 1, 1>>, <<MinusSign, 5, 1, 1, 60>>}}
         \cup {Without({"Vec", "Name"}), [Town |-> Null] @@ Hotel,
               [Hotel EXCEPT !.Vec = Null, !.Name = Str(<<>>)],
               [Hotel EXCEPT !.Vec = Null, !.Name = Str(<<1, 2, 2>>)],
               [Hotel EXCEPT !.Vec = Null, !.Name = Str(<<1, 3>>)]}
    ELSE {}

Paths == {<<"Name">>, <<"Stars">>, <<"Open">>, <<"Life">>, <<"Tags">>, <<"Where", "City">>,
          <<"Rooms", "Kind">>, <<"Rooms", "Beds">>, <<"Rooms", "Tags">>, <<"Vec">>, <<"Town">>}

Literals == {Str(<<1>>), Str(<<2>>), Num(1), Frac(1), Bool(TRUE), Null}
UtcTexts == {<<2024, 2, 29, 0, 0>>, <<2024, 3, 1, 0, 0>>}

Lambdas ==
    {[kind |-> k, field |-> <<"Tags">>, inner |-> Comparison(<<"t">>, op, v)] :
        k \in {"Any", "All"}, op \in Ops, v \in {Str(<<1>>), Str(<<2>>), Num(1), Null}}
    \cup {[kind |-> k, field |-> <<"Rooms">>, inner |-> Comparison(<<"r", name>>, op, v)] :
        k \in {"Any", "All"}, name \in {"Kind", "Beds", "Tags", "Town"}, op \in Ops,
        v \in {Str(<<1>>), Num(1)}}

DateLefts ==
    {[fn |-> "field", field |-> <<"Built">>], [fn |-> "now"],
     [fn |-> "date", field |-> <<"Built">>], [fn |-> "time", field |-> <<"Built">>],
     [fn |-> "dateadd", unit |-> "month", interval |-> -1, field |-> <<"Built">>],
     [fn |-> "datepart", part |-> "week", field |-> <<"Built">>],
     [fn |-> "datepart", part |-> "dayofweek", field |-> <<"Name">>],
     [fn |-> "datediff", unit |-> "hour", start |-> [literal |-> <<2024, 1, 1, 0, 0>>],
      end |-> [field |-> <<"Built">>]]}

StringValues ==
    {[name |-> name, field |-> <<"Name">>] : name \in {"length", "tolower", "toupper", "trim"}}
    \cup {[name |-> "indexof", field |-> <<"Name">>, substr |-> <<2>>]}
    \cup {[name |-> "substring", field |-> <<"Tags">>, start |-> n, length |-> l] :
             n \in {-1, 0, 1}, l \in {<<>>, <<0>>, <<1>>}}

HotelFilters(d) ==
    IF d # Hotels THEN {} ELSE
    {Comparison(path, op, v) : path \in Paths, op \in Ops, v \in Literals}
    \cup {[kind |-> "In", field |-> path, values |-> list] : path \in Paths,
             list \in {<<Null>>, <<Str(<<1>>), Num(1)>>, <<Str(<<2>>), Null, Bool(TRUE)>>}}
    \cup {[kind |-> "StringFunc", func |-> func, field |-> path, arg |-> arg] :
             func \in StringFuncs, path \in Paths, arg \in {<<1>>, <<2>>}}
    \cup {[kind |-> "StringValue", fn |-> fn, op |-> op, value |-> v] :
             fn \in StringValues, op \in {"eq", "lt"}, v \in {Num(1), Str(<<1, 2>>)}}
    \cup Lambdas
    \cup {[kind |-> "DateCompare", left |-> left, op |-> op, value |-> v] :
             left \in DateLefts, op \in Ops, v \in {Str(text) : text \in UtcTexts}}
    \cup {[kind |-> "DateCompare", left |-> left, op |-> "ge", value |-> Num(3)] :
             left \in {l \in DateLefts : l.fn # "field"}}
    \cup {[kind |-> "IsMatch", field |-> path, pattern |-> <<12>>] : path \in Paths}
    \cup {[kind |-> k, field |-> path] : k \in {"IsEmpty", "IsNull"}, path \in Paths}

\* check_field_type calls itself below a complex field.
RECURSIVE FieldCheck(_, _)
FieldCheck(field, value) ==
    LET ok == FieldTypeOk(field, value) IN ok

\* The fields at any depth.
RECURSIVE WithSubfields(_)
WithSubfields(fields) == ToSet(fields) \cup UNION {WithSubfields(f.subfields) : f \in ToSet(fields)}

FieldsFound == UNION {WithSubfields(d.fields) : d \in HotelDefinitions}

\* Under another name than the one it is computed by, the set is computed once.
HotelFields == FieldsFound

HotelNames == {f.name : f \in ToSet(Hotels.fields)} \cup {"City", "Kind", "Beds", "Town"}

\* Every value in a document that is accepted.
RECURSIVE Parts(_)
Parts(value) ==
    {value} \cup CASE IsArr(value) -> UNION {Parts(item) : item \in ToSet(value.arr)}
                   [] IsObj(value) -> UNION {Parts(value.obj[name]) : name \in DOMAIN value.obj}
                   [] ~IsArr(value) /\ ~IsObj(value) -> {}

PartsOf(fields) == UNION {Parts(fields[name]) : name \in DOMAIN fields}

HotelJson ==
    UNION {UNION {PartsOf(sent) \cup PartsOf(StoredDocument(d, sent).fields) :
                    sent \in {doc \in HotelDocuments(d) : DocumentAccepted(d, doc)}} :
             d \in Furnished}

Symbols == {"a", "b", "and", "or", "not", "(", ")"}
ShortPhrases == UNION {[1..n -> Symbols] : n \in 1..5}

DatesMoved ==
    {[year |-> 2024, month |-> 1, day |-> 31, second |-> 0, tick |-> 0],
     [year |-> 2024, month |-> 2, day |-> 29, second |-> 3723, tick |-> 9999],
     [year |-> 2023, month |-> 12, day |-> 31, second |-> 86399, tick |-> 1],
     [year |-> 1900, month |-> 3, day |-> 1, second |-> 43200, tick |-> 5000]}

Moves == -14..14

-----------------------------------------------------------------------------
(* Selections and texts typed over a shelf of hotels. *)

HotelSelections(d) ==
    IF d # Hidden THEN {}
    ELSE {{}} \cup {{p, q} : p, q \in Paths \cup {<<"Where">>, <<"Rooms">>, <<"Id">>}}

Sights == [Hotels EXCEPT !.fields[2].sortable = TRUE]

Sight(name, kinds) ==
    [Name |-> name, Stars |-> Num(Len(kinds)),
     Rooms |-> Arr([i \in DOMAIN kinds |-> Obj([Kind |-> Str(kinds[i])])])]

Sightseeing ==
    {Sight(Str(<<1, 2, 9, 12>>), <<>>), Sight(Str(<<9, 2, 1, 9>>), <<<<1>>, <<2, 9, 1>>>>),
     Sight(Null, <<<<11, 1, 9, 2>>>>)}

HotelShelves == UNION {[K -> Sightseeing] : K \in SUBSET {1, 2}}

TypedTexts == {<<1>>, <<9>>, <<12, 9>>, <<3>>, <<1, 2, 3>>, <<1, 9, 2>>, <<3, 9, 1>>, <<2, 9, 9, 1>>,
               <<1, 2, 9, 2>>, <<1, 9, 3, 9, 2>>, <<2, 9, 1, 9, 1, 3>>}

TypedRequests ==
    [suggester : {"sg"}, text : TypedTexts, top : {1, 5}, filter : {<<>>, <<Comparison(<<"Stars">>, "gt", Num(0))>>},
     orderby : {<<>>, <<[field |-> <<"Name">>, descending |-> TRUE]>>},
     searchFields : {<<>>, <<<<<<"Rooms", "Kind">>>>>>}, select : {{}}, fuzzy : BOOLEAN, mode : Modes]
    \cup {[suggester |-> name, text |-> <<1>>, top |-> 1, filter |-> <<>>,
           orderby |-> <<[field |-> <<field>>, descending |-> FALSE]>>,
           searchFields |-> <<paths>>, select |-> {}, fuzzy |-> FALSE, mode |-> "oneTerm"] :
              name \in {"sg", "none"}, field \in {"Name", "Stars", "@search.score"},
              paths \in {<<>>, <<<<"Where", "City">>>>, <<<<"Name">>>>}}

-----------------------------------------------------------------------------
(* Texts searched for.  A letter is a word; 3 is a stop word; 21 to 25 are
   plus, minus, the quote, the tilde and the star, 30 to 33 digits. *)

Letters   == {1, 2, 3, 4, 11, 12}
StopWords == {3}
DigitsOf  == [c \in 30..33 |-> c - 30]
Blank(c)  == c = 9

WordsAndPlaces(text) ==
    LET letters == SelectSeq(text, LAMBDA c : c \in Letters)
    IN  SelectSeq([i \in DOMAIN letters |-> [token |-> LowerOf(letters[i]), at |-> i]],
                  LAMBDA t : t.token \notin StopWords)

FewEdits(token, term, edits) == EditDistance(<<token>>, Lowered(term)) <= edits

OneForAnother(word) == IF Lowered(word) = <<1>> THEN {<<4>>} ELSE {}

Switched(b) == IF b THEN <<1>> ELSE <<2>>

Occurrences(clause, fields) ==
    Cardinality(UNION {{<<text, hit>> : hit \in HitsAmong(clause, ToSet(WordsAndPlaces(text)))} :
                         text \in IndexedTexts(fields, <<"Name">>)})

TypedSearches ==
    UNION {[1..n -> {1, 2, 9, 22, 23, 24}] : n \in 1..4}
    \cup UNION {[1..n -> {1, 3, 9, 21, 22, 23, 25, 31, 33}] : n \in 1..3}
    \cup {first \o <<9>> \o second : first, second \in
            {<<1>>, <<2>>, <<4>>, <<3>>, <<11>>, <<22, 1>>, <<22, 4>>, <<21, 2>>, <<25>>, <<24, 1>>,
             <<23, 1, 2, 23>>, <<22, 23, 1, 9, 2, 23>>, <<23, 1, 3, 2, 23>>, <<23, 3, 23>>,
             <<1, 2, 24, 31>>, <<22, 2, 24>>, <<1, 24, 30>>, <<23, 1, 23, 23, 2, 23>>,
             <<1, 9, 2, 9, 22, 4>>, <<1, 2>>, <<9, 9>>}}

Books ==
    <<Str(<<1>>), Str(<<2, 9, 1>>), Str(<<12, 11>>), Str(<<1, 9, 2>>), Str(<<4>>), Str(<<1, 3, 2>>),
      Str(<<3>>), Null, Bool(FALSE), Num(4), Arr(<<Str(<<1>>), Null, Str(<<2>>)>>)>>

BookShelf == [i \in DOMAIN Books |-> [Name |-> Books[i]]]

NamesOnly == {<<"Name">>}

-----------------------------------------------------------------------------
(* Pages of small indexes. *)


Closeness(field, target, fields) ==
    IF field \in DOMAIN fields THEN 4 - (target - fields[field].num) ^ 2 ELSE 0

Printed(number) == IF IsInt(number) THEN <<number.num>> ELSE <<number.frac, 0>>

Lodgings ==
    {[Name |-> Str(<<1>>), Stars |-> Num(2), Tags |-> Arr(<<Str(<<1>>), Str(<<1>>)>>), Vec |-> Num(1)],
     [Name |-> Str(<<1, 2>>), Stars |-> Null, Tags |-> Arr(<<Str(<<2>>), Null>>), Vec |-> Num(2)],
     [Name |-> Str(<<2, 2>>), Stars |-> Num(1), Tags |-> Arr(<<Str(<<1>>), Str(<<2>>)>>), Vec |-> Num(1)],
     [Name |-> Str(<<1, 1>>), Tags |-> Arr(<<>>)]}

Everything  == [required |-> <<>>, excluded |-> <<>>, mode |-> "any", coverage |-> 0]
NoClauses   == <<>>
NoQueries   == [queries |-> <<>>, mode |-> "postFilter"]
Near(n)     == [fields |-> <<"Vec">>, target |-> n, k |-> 1 + n, weight |-> 3 - n]
ByStars     == <<[field |-> <<"Stars">>, descending |-> TRUE]>>
TwoStars    == <<Comparison(<<"Stars">>, "ge", Num(2))>>
NamedOne    == <<[kind |-> "StringFunc", func |-> "startswith", field |-> <<"Name">>, arg |-> <<1>>]>>

Request(subject, vectors, filter, orderby, skip, top) ==
    [subject |-> subject, vectors |-> vectors, filter |-> filter, orderby |-> orderby,
     skip |-> skip, top |-> top]

BothNames == <<TermClause(<<1>>), TermClause(<<2>>)>>

SearchRequests ==
    {Request(Everything, NoQueries, <<>>, <<>>, 0, 1),
     Request(Everything, NoQueries, <<>>, ByStars, 1, 1),
     Request(Everything, NoQueries, NamedOne, <<>>, 0, 2),
     Request([Everything EXCEPT !.required = <<TermClause(<<1>>)>>], NoQueries, <<>>, <<>>, 0, 1),
     Request([Everything EXCEPT !.required = <<TermClause(<<1>>)>>], NoQueries, TwoStars, ByStars, 0, 1),
     Request([Everything EXCEPT !.required = BothNames, !.coverage = 60], NoQueries, <<>>,
             <<[field |-> Score, descending |-> FALSE]>>, 0, 1),
     Request([Everything EXCEPT !.required = BothNames, !.mode = "all"], NoQueries, <<>>, <<>>, 0, All),
     Request([Everything EXCEPT !.excluded = <<TermClause(<<2>>)>>], NoQueries, <<>>, <<>>, 0, 1),
     Request(Everything, [queries |-> <<Near(1)>>, mode |-> "preFilter"], NamedOne, <<>>, 0, 1),
     Request(Everything, [queries |-> <<Near(0), Near(2)>>, mode |-> "postFilter"], <<>>, ByStars, 0, 1),
     Request([Everything EXCEPT !.required = <<TermClause(<<1>>)>>],
             [queries |-> <<Near(0), Near(2)>>, mode |-> "postFilter"], NamedOne, <<>>, 0, 1)}

TextRequests == {r \in SearchRequests : r.vectors = NoQueries}

FacetedPaths == {<<"Stars">>, <<"Tags">>, <<"Name">>}

QueriesInit == QueryInit /\ PageInit

\* Cases are looked at while the index is empty and nobody walks, and walks
\* begin while there is no case.
QueriesSpec ==
    /\ QueriesInit
    /\ [][\/ ~Walking /\ DOMAIN docs = {} /\ AnswerNext /\ UNCHANGED pageVars
          \/ case.family = "none" /\ PageNext /\ UNCHANGED case]_<<case, docs, walk>>

=============================================================================
