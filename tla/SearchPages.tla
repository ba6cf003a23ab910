----------------------------- MODULE SearchPages -----------------------------
(***************************************************************************)
(* Paging: a client takes the result of one search page by page while      *)
(* documents come and go.  Nothing is kept between pages: each request     *)
(* runs the search anew, and the continuation token it may carry holds the *)
(* filter, the order, how much to skip and the identity of the vector      *)
(* queries, but neither the search text nor a snapshot.                    *)
(*                                                                         *)
(* A request is a record [subject, vectors, filter, orderby, skip, top]:   *)
(* subject is what is searched for (text, mode, coverage), and each part   *)
(* is opaque here.  The order of a result is the business of Result.       *)
(***************************************************************************)
EXTENDS Naturals, Sequences

CONSTANTS
    Keys,            \* document keys
    Contents,        \* what a document may contain
    Result(_, _),    \* the keys a question finds among documents, in order
    Requests,        \* the requests that begin a walk
    PageSizes,       \* what top may be on a later page
    Habits,          \* how clients ask for the next page
    NoSubject, NoVectors, NoFilter, NoOrder, \* what a request without them has
    All,             \* top when it is absent
    MaxChanges       \* bound on the changes to documents during a walk

\* What of a request decides which documents it finds.
Question(request) ==
    [subject |-> request.subject, vectors |-> request.vectors,
     filter |-> request.filter, orderby |-> request.orderby]

IsRequest(r) ==
    /\ r = [subject |-> r.subject, vectors |-> r.vectors, filter |-> r.filter,
            orderby |-> r.orderby, skip |-> r.skip, top |-> r.top]
    /\ r.skip \in Nat /\ r.top \in Nat

\* What the index may hold.
Holdings == UNION {[K -> Contents] : K \in SUBSET Keys}

ASSUME RequestsAssumption == \A r \in Requests : IsRequest(r)
ASSUME PageSizesAssumption == PageSizes \subseteq Nat
ASSUME HabitsAssumption == Habits \subseteq {"repost", "drop", "rebuild", "alone"}
ASSUME ResultAssumption ==
    \A r \in Requests, held \in Holdings : Result(Question(r), held) \in Seq(Keys)

VARIABLES
    docs,            \* the documents of the index, a function on their keys
    walk             \* the walk under way

pageVars == <<docs, walk>>

NoWalk == [habit |-> "none"]
Walking == walk # NoWalk

-----------------------------------------------------------------------------

\* Mutant of Paginate: the next page begins one hit too late.
PaginateStepsOver(found, skip, top) ==
    LET rest == SubSeq(found, skip + 1, Len(found))
        page == IF top = All \/ top >= Len(rest) THEN rest ELSE SubSeq(rest, 1, top)
        next == skip + Len(page) + 1
    IN  [page |-> page, more |-> page # <<>> /\ next < Len(found), next |-> next]

\* A page of an ordered result, whether there is more, and where it begins.
\* An empty page ends the walk even when there is more.
Paginate(found, skip, top) ==
    LET rest == SubSeq(found, skip + 1, Len(found))
        page == IF top = All \/ top >= Len(rest) THEN rest ELSE SubSeq(rest, 1, top)
        next == skip + Len(page)
    IN  [page |-> page, more |-> page # <<>> /\ next < Len(found), next |-> next]

\* Mutant of WithToken: only skip is taken from the token.
WithTokenOfSkip(request, token) == [request EXCEPT !.skip = token.skip]

\* A request that carries a token takes filter, order and skip from it.
WithToken(request, token) ==
    [request EXCEPT !.filter = token.filter, !.orderby = token.orderby, !.skip = token.skip]

\* Vector queries other than those the token was made for.
Refuses(request, token) == request.vectors # token.vectors

\* The token hands on the filter and order that were in force.
NextToken(effective, next) ==
    [filter |-> effective.filter, orderby |-> effective.orderby, skip |-> next,
     vectors |-> effective.vectors]

\* The requests a client may send for the next page, with or without the
\* token: the original body with the token and skip put in
\* (nextPageParameters), the same without the token, as the SDK sends it, a
\* body of its own about the same subject, or the token and nothing else.
NextRequests(w) ==
    LET token == w.token[1] IN
    CASE w.habit = "repost"  -> {[body |-> [w.last EXCEPT !.skip = token.skip], token |-> w.token]}
      [] w.habit = "drop"    -> {[body |-> [w.last EXCEPT !.skip = token.skip], token |-> <<>>]}
      [] w.habit = "rebuild" ->
            {[body |-> [r EXCEPT !.top = top], token |-> w.token] : top \in PageSizes,
               r \in {r \in Requests : r.subject = w.first.subject /\ r.vectors = w.first.vectors}}
      [] w.habit = "alone"   ->
            {[body |-> [subject |-> NoSubject, vectors |-> NoVectors, filter |-> NoFilter,
                        orderby |-> NoOrder, skip |-> 0, top |-> top], token |-> w.token] :
               top \in PageSizes}

-----------------------------------------------------------------------------

PageInit ==
    /\ docs \in Holdings
    /\ walk = NoWalk

\* The keys a request finds now.
Found(request) == Result(Question(request), docs)

\* The walk after a page of the given request was answered.
AfterPage(w, body, effective, answer) ==
    [w EXCEPT !.last  = body,
              !.seen  = @ \o answer.page,
              !.empty = answer.page = <<>>,
              !.token = IF answer.more THEN <<NextToken(effective, answer.next)>> ELSE <<>>]

Answered(w, body, effective) ==
    AfterPage(w, body, effective, Paginate(Found(effective), effective.skip, effective.top))

FirstPage ==
    /\ ~Walking
    /\ \E r \in Requests, habit \in Habits :
         walk' = Answered([habit |-> habit, first |-> r, last |-> r, seen |-> <<>>,
                            empty |-> FALSE, token |-> <<>>, refused |-> FALSE,
                            whole |-> Found(r), steady |-> docs,
                            changes |-> <<>>], r, r)
    /\ UNCHANGED docs

NextPage ==
    /\ Walking /\ walk.token # <<>>
    /\ \E send \in NextRequests(walk) :
         IF send.token = <<>> THEN walk' = Answered(walk, send.body, send.body)
         ELSE IF Refuses(send.body, send.token[1])
         THEN walk' = [walk EXCEPT !.token = <<>>, !.refused = TRUE]
         ELSE walk' = Answered(walk, send.body, WithToken(send.body, send.token[1]))
    /\ UNCHANGED docs

\* A document of a walk that goes on, not one the walk has begun without.
Changing(change) ==
    /\ Walking /\ walk.token # <<>>
    /\ Len(walk.changes) < MaxChanges
    /\ walk' = [walk EXCEPT !.changes = Append(@, change),
                            !.steady = [k \in DOMAIN @ \cap DOMAIN docs' |-> @[k]]]

AddDocument ==
    /\ \E k \in Keys \ DOMAIN docs, content \in Contents :
         docs' = [j \in DOMAIN docs \cup {k} |-> IF j = k THEN content ELSE docs[j]]
    /\ Changing("added")

RemoveDocument ==
    /\ \E k \in DOMAIN docs : docs' = [j \in DOMAIN docs \ {k} |-> docs[j]]
    /\ Changing("removed")

EndWalk ==
    /\ Walking /\ walk.token = <<>>
    /\ walk' = NoWalk
    /\ UNCHANGED docs

PageNext == FirstPage \/ NextPage \/ AddDocument \/ RemoveDocument \/ EndWalk

PageSpec == PageInit /\ [][PageNext]_pageVars

-----------------------------------------------------------------------------

\* What a client sees without changes: the result, from where it asked.
Expected == SubSeq(walk.whole, walk.first.skip + 1, Len(walk.whole))

\* The token carries all the client leaves out.
Complete == walk.habit # "alone"
              \/ (walk.first.subject = NoSubject /\ walk.first.vectors = NoVectors)

\* While no document changes, the pages are the result of the first request
\* without a gap or a repetition, whatever filter, order and page size the
\* client sends along with the token, or without it; and the walk ends when
\* everything was seen, or at an empty page (paginate, resolve_paging,
\* next_continuation, build_next_page_params).
PagesAreTheResult ==
    Walking /\ walk.changes = <<>> /\ Complete =>
        /\ ~walk.refused
        /\ Len(walk.seen) <= Len(Expected)
        /\ walk.seen = SubSeq(Expected, 1, Len(walk.seen))
        /\ walk.token = <<>> /\ ~walk.empty => walk.seen = Expected

\* docs/known_differences.md, paging: "later pages may send only
\* {continuation} (plus a page size) and stay on the same result set".
ContinuationAloneSuffices ==
    Walking /\ walk.changes = <<>> /\ walk.habit = "alone" =>
        ~walk.refused /\ Len(walk.seen) <= Len(Expected)
                      /\ walk.seen = SubSeq(Expected, 1, Len(walk.seen))

=============================================================================
