------------------------------ MODULE Projection ------------------------------
(***************************************************************************)
(* What of a document an answer shows: the fields that are visible, and of *)
(* those what select asks for.  select is a set of paths, empty for        *)
(* everything.                                                             *)
(***************************************************************************)
EXTENDS IndexSchema

\* What select asks for below a name; <<>> stands for all of it.
Below(select, name) == {Tail(path) : path \in {p \in select : Head(p) = name}}

\* The projection of a value, as a sequence of at most one: of a complex
\* value what is selected, if anything is there; of an array what is left of
\* each element.
RECURSIVE ProjectValue(_, _)

\* Mutant of ProjectMap: a path into a field counts for more than the field.
ProjectMapNarrowly(map, select) ==
    LET Part(name) == IF Below(select, name) = {<<>>} THEN <<map[name]>>
                      ELSE ProjectValue(map[name], Below(select, name) \ {<<>>})
        kept == {name \in DOMAIN map : Below(select, name) # {} /\ Part(name) # <<>>}
    IN  [name \in kept |-> Part(name)[1]]

\* A field that is selected itself is kept whole, whatever else is selected
\* in it.
ProjectMap(map, select) ==
    LET Part(name) == IF <<>> \in Below(select, name) THEN <<map[name]>>
                      ELSE ProjectValue(map[name], Below(select, name))
        kept == {name \in DOMAIN map : Below(select, name) # {} /\ Part(name) # <<>>}
    IN  [name \in kept |-> Part(name)[1]]

ProjectValue(value, select) ==
    CASE IsObj(value) ->
            LET out == ProjectMap(value.obj, select)
            IN  IF DOMAIN out = {} THEN <<>> ELSE <<Obj(out)>>
      [] IsArr(value) ->
            <<Arr(Concat([i \in DOMAIN value.arr |-> ProjectValue(value.arr[i], select)]))>>
      [] OTHER -> <<>>

SelectFields(fields, select) == IF select = {} THEN fields ELSE ProjectMap(fields, select)

OnFields(fields, Keep(_)) == [name \in {n \in DOMAIN fields : Keep(n)} |-> fields[name]]

IsKey(definition, name) == KeyField(definition).name = name

\* A search shows a retrievable field, and one that is not when it is stored
\* and selected by its own name.
SearchShows(definition, select, name) ==
    LET field == FieldNamed(definition.fields, name) IN
    \/ IsKey(definition, name) \/ field = <<>>
    \/ field[1].retrievable
    \/ field[1].stored /\ <<name>> \in select

SearchAnswer(definition, fields, select) ==
    SelectFields(OnFields(fields, LAMBDA name : SearchShows(definition, select, name)), select)

\* A lookup shows what is stored.
LookupAnswer(definition, fields) ==
    OnFields(fields, LAMBDA name :
        LET field == FieldNamed(definition.fields, name)
        IN  IsKey(definition, name) \/ field = <<>> \/ field[1].stored)

\* A suggestion shows the key beside what is selected, and hides nothing.
SuggestionAnswer(definition, fields, select) ==
    IF select = {} THEN fields
    ELSE OnFields(fields, LAMBDA name : IsKey(definition, name)) @@ SelectFields(fields, select)

\* Every path that is selected exists (without "*", which selects all).
ValidSelect(definition, select) == \A path \in select : FieldPath(definition, path) # <<>>

=============================================================================
