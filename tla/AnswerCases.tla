------------------------------ MODULE AnswerCases ------------------------------
(***************************************************************************)
(* More cases, about what a client is shown: a selection of an accepted    *)
(* document, a text typed over the documents of an index, and a text       *)
(* searched for among them.                                                *)
(***************************************************************************)
EXTENDS LanguageCases, Suggesters, SimpleQuery

CONSTANTS
    Selections(_),   \* what is selected from documents of a definition
    Guide,           \* the definition of the index texts are typed over,
    Shelves,         \* the documents it holds,
    Typed,           \* and the requests for suggestions and completions
    SearchTexts,     \* texts that are searched for, and
    Library          \* the documents they are searched for among

SelectFromDocument ==
    /\ case.family = "document"
    /\ DocumentAccepted(case.definition, case.fields)
    /\ \E select \in Selections(case.definition) :
         /\ ValidSelect(case.definition, select)
         /\ case' = [family |-> "selection", definition |-> case.definition, select |-> select,
                     fields |-> StoredDocument(case.definition, case.fields).fields]

TypeText ==
    /\ case.family = "none"
    /\ \E r \in Typed, docs \in Shelves :
         /\ SuggesterRequestAccepted(Guide, r)
         /\ case' = [family |-> "typed", request |-> r, docs |-> docs]

SearchText ==
    /\ case.family = "none"
    /\ \E text \in SearchTexts :
         /\ ParseSearchText(text) # {}
         /\ case' = [family |-> "search", text |-> text]

AnswerNext == QueryNext \/ SelectFromDocument \/ TypeText \/ SearchText

-----------------------------------------------------------------------------

\* The paths of the fields that hold values, with their fields.
RECURSIVE LeafPaths(_, _)
LeafPaths(fields, prefix) ==
    UNION {LET path == Append(prefix, f.name)
           IN  IF IsComplexType(f) THEN LeafPaths(f.subfields, path) ELSE {<<path, f>>} :
           f \in ToSet(fields)}

Covered(path, select) == \E p \in select : IsPrefix(p, path)

\* A selection finds on a path what the document holds there.
FindsTheSame(answer, path) == ResolveFieldPath(answer, path) = ResolveFieldPath(Fields, path)
FindsNothing(answer, path) == ResolveFieldPath(answer, path) = <<>>

IsHidden(name, select) ==
    \E f \in ToSet(Definition.fields) :
        f.name = name /\ ~f.key /\ ~f.retrievable /\ (~f.stored \/ <<name>> \notin select)

ExactlySelected(search, suggestion, select) ==
    /\ \A path \in select :
         /\ FindsTheSame(suggestion, path)
         /\ IF IsHidden(Head(path), select) THEN FindsNothing(search, path) ELSE FindsTheSame(search, path)
    /\ \A leaf \in LeafPaths(Definition.fields, <<>>) :
         ~Covered(leaf[1], select) =>
            /\ FindsNothing(search, leaf[1])
            /\ IsKey(Definition, leaf[1][1]) \/ FindsNothing(suggestion, leaf[1])
    /\ SelectFields(search, select) = search

\* An answer holds on each selected path what filters, facets and orderings
\* find on it, and nothing on any other; selecting from what was selected
\* changes nothing.  In a search a field that is not retrievable shows only
\* when it is stored and selected by its own name (project_select_fields is
\* a reading of paths of its own, beside resolve_field_path).
SelectionIsExact ==
    case.family = "selection" /\ case.select # {} =>
        ExactlySelected(SearchAnswer(Definition, Fields, case.select),
                        SuggestionAnswer(Definition, Fields, case.select), case.select)

\* Whether texts, sent under the options of a request, have suggestions.
HaveSuggestions(r, texts) ==
    [text \in texts |-> Suggest(Guide, [r EXCEPT !.text = text], case.docs) # <<>>]

LeadSomewhere(offered, r, suggested) ==
    /\ \/ AsTwoTerms(r) /\ Len(Terms(r)) > 2
       \/ \A i \in DOMAIN offered : suggested[offered[i].query]
    /\ ~r.fuzzy /\ ~AsTwoTerms(r) => (offered # <<>> <=> suggested[r.text])

Leads(offered, r) ==
    LeadSomewhere(offered, r, HaveSuggestions(r, {r.text} \cup {offered[i].query : i \in DOMAIN offered}))

\* What a client is offered leads somewhere: the text of a completion, sent
\* back for suggestions under the same options, finds a document, unless it
\* was completed as two terms with more before them, which nothing looks at;
\* and a text without typing errors has suggestions when, and only when, its
\* last term can be completed (autocomplete and suggest match on their own).
CompletionsLeadToSuggestions ==
    case.family = "typed" =>
        Leads(Autocomplete(Guide, case.request, case.docs), case.request)

-----------------------------------------------------------------------------
(* Search texts *)

\* The documents a prepared query finds.
FoundFor(query, mode, coverage) ==
    KeysOf(FullTextSide([subject |-> [required |-> query.required, excluded |-> query.excluded,
                                      mode |-> mode, coverage |-> coverage],
                         filter |-> <<>>], Library))

\* What queries find in either mode, and when every clause is to be covered.
Finds(queries) ==
    [query \in queries, way \in {"all", "any", "covered"} |->
        FoundFor(PrepareFullText(query), IF way = "all" THEN "all" ELSE "any",
                 IF way = "covered" THEN 100 ELSE 0)]

SideBySide(p, q) == [required |-> p.required \o q.required, excluded |-> p.excluded \o q.excluded]

\* One text excludes a term that the other requires.
Crossed(p, q) ==
    \/ TermsOf(p.required) \cap TermsOf(q.excluded) # {}
    \/ TermsOf(q.required) \cap TermsOf(p.excluded) # {}

OnlyRequires(query) == query.required # <<>> /\ query.excluded = <<>>

FindTogether(p, q, both, found) ==
    /\ ~Crossed(p, q) => found[both, "all"] = found[p, "all"] \cap found[q, "all"]
    /\ OnlyRequires(p) /\ OnlyRequires(q) =>
          found[both, "any"] = found[p, "any"] \cup found[q, "any"]
    /\ found[both, "covered"] = found[both, "all"]

FoundTogether(p, q, both) == FindTogether(p, q, both, Finds({p, q, both}))

\* What two texts parse to, and what they parse to side by side.
Compose(left, right, whole) ==
    \A p \in left, q \in right : whole = {SideBySide(p, q)} /\ FoundTogether(p, q, SideBySide(p, q))

ComposeOf(parsed, left, right, whole) == Compose(parsed[left], parsed[right], parsed[whole])

\* Two texts side by side ask for what each of them asks for, whatever they
\* contain, except that a star stands for everything only alone.  In mode all
\* they find what both find, unless one excludes a term of the other, whose
\* synonyms are then excluded with it; in mode any what either finds; and to
\* demand that every clause is covered is to demand all of them
\* (parse_search_text, build_query, prepare_full_text, minimumCoverage).
SearchesCompose ==
    case.family = "search" =>
        \A at \in {i \in DOMAIN case.text : IsBlank(case.text[i])} :
        \A left \in {SubSeq(case.text, 1, at)}, right \in {From(case.text, at)} :
          <<Star>> \notin {Trim(left), Trim(right)} =>
            ComposeOf([text \in {left, right, case.text} |-> ParseSearchText(text)],
                      left, right, case.text)

=============================================================================
