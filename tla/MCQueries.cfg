\* Definitions, the documents sent for them and the filters that meet both.
CONSTANTS
    MaxDimension = 4
    MaxVectorFields = 1
    MaxDepth = 2
    MaxSingle = 500
    Space = 9
    Now <- NewYear
    WellFormed <- OneCharacter
    LowerChar <- LowerOf
    UpperChar <- UpperOf
    RegexMatches <- MatchesPart
    ValidPattern <- AnyPattern
    NamesIn <- NameOnly
    Definitions <- HotelDefinitions
    Documents <- HotelDocuments
    Selections <- HotelSelections
    Guide <- Sights
    Shelves <- HotelShelves
    Typed <- TypedRequests
    Expressions <- HotelFilters
    CheckFieldType <- FieldCheck
    FieldDefinitions <- HotelFields
    Allows <- ValidFilter
    FieldNames <- HotelNames
    Json <- HotelJson
    Phrases <- ShortPhrases
    Moments <- DatesMoved
    Intervals <- Moves
    Satisfies <- Matches
    TextBefore <- TextLess
    Relevance <- Occurrences
    IsBlank <- Blank
    Plus = 21
    Minus = 22
    Quote = 23
    Tilde = 24
    Star = 25
    DigitValue <- DigitsOf
    Analyze <- WordsAndPlaces
    Resembles <- FewEdits
    Expansions <- OneForAnother
    Scope <- NamesOnly
    BoolText <- Switched
    SearchTexts <- TypedSearches
    Library <- BookShelf
    Similarity <- Closeness
    NumberText <- Printed
    Scale = 7624512
    Keys = {1, 2, 3}
    Contents <- Lodgings
    Result <- SearchResult
    Requests <- SearchRequests
    PageSizes = {0, 1, 2}
    Habits = {"repost", "drop", "rebuild", "alone"}
    NoSubject <- Everything
    NoVectors <- NoQueries
    NoFilter <- NoClauses
    NoOrder <- NoClauses
    All = 99
    MaxChanges = 2
    FacetPaths <- FacetedPaths

SPECIFICATION QueriesSpec

INVARIANTS
    AcceptedSchemasBuild
    VectorizersResolve
    StoredValuesFitTheirPaths
    StoredDocumentsAreAccepted
    OperatorsPartition
    ShorthandsAgree
    LambdasAreDual
    DirectPathsAreLambdas
    DateComparisonsAreChronological
    WrittenFiltersAreReadBack
    PrecedenceIsStandard
    DateDiffUndoesDateAdd
    SelectionIsExact
    CompletionsLeadToSuggestions
    SearchesCompose
    PagesAreTheResult
    PagesSurviveChanges
    FacetsCountWhatFiltersFind
    FilterModesAgree
    FusionRespectsAgreement
