------------------------------ MODULE PageProofs ------------------------------
(***************************************************************************)
(* Paging over any result, with pages of any sizes: as long as no document *)
(* changes, the pages a client takes with a token, or by repeating itself, *)
(* are the result of its first request.                                    *)
(***************************************************************************)
EXTENDS SearchPages, SequenceTheorems, TLAPS

-----------------------------------------------------------------------------
(* The inductive invariant *)

IsWalk(w) ==
    /\ DOMAIN w = {"habit", "first", "last", "seen", "empty", "token", "refused",
                   "whole", "steady", "changes"}
    /\ w.habit \in Habits
    /\ w.first \in Requests
    /\ w.changes \in Seq({"added", "removed"})

\* What a walk is to see, said of any walk.
Wanted(w) == SubSeq(w.whole, w.first.skip + 1, Len(w.whole))

Completes(w) ==
    w.habit # "alone" \/ (w.first.subject = NoSubject /\ w.first.vectors = NoVectors)

\* The beginning of it was seen.
SeenSoFar(w) ==
    /\ w.seen \in Seq(Keys)
    /\ Len(w.seen) <= Len(Wanted(w))
    /\ w.seen = SubSeq(Wanted(w), 1, Len(w.seen))

\* A client that repeats itself asks its first question.
LastRepeats(w, last) ==
    w.habit \in {"repost", "drop"} => IsRequest(last) /\ Question(last) = Question(w.first)

\* A token carries the filter, order and vectors of the first request, and
\* points behind what was seen.
OnCourse(w, held) ==
    /\ w.whole = Result(Question(w.first), held)
    /\ SeenSoFar(w)
    /\ LastRepeats(w, w.last)
    /\ ~w.refused
    /\ w.token \in {<<>>, <<NextToken(w.first, w.first.skip + Len(w.seen))>>}
    /\ w.token = <<>> /\ ~w.empty => w.seen = Wanted(w)

PagesInv ==
    /\ docs \in Holdings
    /\ Walking => /\ IsWalk(walk)
                  /\ walk.changes = <<>> /\ Completes(walk) => OnCourse(walk, docs)

-----------------------------------------------------------------------------
(* One page *)

Continues(wanted, from, answer, now) ==
    /\ now \in Seq(Keys)
    /\ Len(now) <= Len(wanted)
    /\ now = SubSeq(wanted, 1, Len(now))
    /\ answer.more => answer.next = from + Len(now)
    /\ ~answer.more /\ answer.page # <<>> => now = wanted

\* Taking a page from where one stopped: what was seen with it is again a
\* beginning of the result from `from`; the next page begins behind it; and
\* without a next page everything was seen, unless the page is empty.
LEMMA PageContinues ==
    ASSUME NEW whole \in Seq(Keys), NEW from \in Nat, NEW seen \in Seq(Keys), NEW top \in Nat,
           Len(seen) <= Len(SubSeq(whole, from + 1, Len(whole))),
           seen = SubSeq(SubSeq(whole, from + 1, Len(whole)), 1, Len(seen))
    PROVE  Continues(SubSeq(whole, from + 1, Len(whole)), from,
                     Paginate(whole, from + Len(seen), top),
                     seen \o Paginate(whole, from + Len(seen), top).page)
<1> DEFINE wanted == SubSeq(whole, from + 1, Len(whole))
           skip   == from + Len(seen)
           rest   == SubSeq(whole, skip + 1, Len(whole))
           answer == Paginate(whole, skip, top)
           page   == answer.page
           now    == seen \o page
<1>1. /\ Len(whole) \in Nat /\ Len(seen) \in Nat /\ skip \in Nat
      /\ \A i \in 1..Len(whole) : whole[i] \in Keys
  BY LenProperties, ElementOfSeq
<1>2. /\ wanted \in Seq(Keys)
      /\ Len(wanted) = IF from + 1 <= Len(whole) THEN Len(whole) - from ELSE 0
      /\ \A i \in 1..Len(whole) - from : wanted[i] = whole[from + i]
  <2>1. \A i \in from + 1..Len(whole) : whole[i] \in Keys
    BY <1>1
  <2>2. /\ wanted \in Seq(Keys)
        /\ Len(wanted) = IF from + 1 <= Len(whole) THEN Len(whole) - (from + 1) + 1 ELSE 0
        /\ \A i \in 1..Len(whole) - (from + 1) + 1 : wanted[i] = whole[from + 1 + i - 1]
    BY <1>1, <2>1, SubSeqProperties
  <2> HIDE DEF wanted
  <2> QED
    BY <1>1, <2>2
<1>3. /\ rest \in Seq(Keys)
      /\ Len(rest) = IF skip + 1 <= Len(whole) THEN Len(whole) - skip ELSE 0
      /\ \A i \in 1..Len(whole) - skip : rest[i] = whole[skip + i]
  <2>1. \A i \in skip + 1..Len(whole) : whole[i] \in Keys
    BY <1>1
  <2>2. /\ rest \in Seq(Keys)
        /\ Len(rest) = IF skip + 1 <= Len(whole) THEN Len(whole) - (skip + 1) + 1 ELSE 0
        /\ \A i \in 1..Len(whole) - (skip + 1) + 1 : rest[i] = whole[skip + 1 + i - 1]
    <3> HIDE DEF skip
    <3> QED
      BY <1>1, <2>1, SubSeqProperties
  <2> HIDE DEF rest, skip
  <2> QED
    BY <1>1, <2>2
<1>4. /\ page \in Seq(Keys)
      /\ Len(page) <= Len(rest)
      /\ \A i \in 1..Len(page) : page[i] = rest[i]
      /\ answer.next = skip + Len(page)
      /\ answer.more <=> page # <<>> /\ skip + Len(page) < Len(whole)
  <2>1. /\ page = IF top = All \/ top >= Len(rest) THEN rest ELSE SubSeq(rest, 1, top)
        /\ answer.next = skip + Len(page)
        /\ answer.more <=> page # <<>> /\ skip + Len(page) < Len(whole)
    BY DEF Paginate
  <2> HIDE DEF page, rest, answer, skip
  <2>2. /\ page \in Seq(Keys)
        /\ Len(page) <= Len(rest)
        /\ \A i \in 1..Len(page) : page[i] = rest[i]
    <3>1. CASE top = All \/ top >= Len(rest)
      <4>1. page = rest /\ Len(rest) \in Nat
        BY <1>3, <2>1, <3>1, LenProperties
      <4> QED
        BY <1>3, <4>1
    <3>2. CASE ~(top = All \/ top >= Len(rest))
      <4>1. page = SubSeq(rest, 1, top) /\ top < Len(rest) /\ Len(rest) \in Nat
        BY <1>3, <2>1, <3>2, LenProperties
      <4>2. \A i \in 1..top : rest[i] \in Keys
        BY <1>3, <4>1, ElementOfSeq
      <4>3. /\ SubSeq(rest, 1, top) \in Seq(Keys)
            /\ Len(SubSeq(rest, 1, top)) = IF 1 <= top THEN top - 1 + 1 ELSE 0
            /\ \A i \in 1..top - 1 + 1 : SubSeq(rest, 1, top)[i] = rest[1 + i - 1]
        BY <4>2, SubSeqProperties
      <4>4. page \in Seq(Keys) /\ Len(page) = top /\ \A i \in 1..top : page[i] = rest[i]
        BY <4>1, <4>3
      <4> QED
        BY <4>1, <4>4
    <3> QED
      BY <3>1, <3>2
  <2> QED
    BY <2>1, <2>2
<1>5. \A i \in 1..Len(seen) : seen[i] = wanted[i]
  <2>1. Len(wanted) \in Nat /\ \A i \in 1..Len(seen) : wanted[i] \in Keys
    <3> HIDE DEF wanted
    <3> QED
      BY <1>1, <1>2, LenProperties, ElementOfSeq
  <2>2. \A i \in 1..Len(seen) - 1 + 1 : SubSeq(wanted, 1, Len(seen))[i] = wanted[1 + i - 1]
    <3> HIDE DEF wanted
    <3> QED
      BY <1>1, <2>1, SubSeqProperties
  <2>3. seen = SubSeq(wanted, 1, Len(seen))
    OBVIOUS
  <2> HIDE DEF wanted
  <2> QED
    BY <1>1, <2>2, <2>3
<1> HIDE DEF wanted, rest, answer, page, skip
<1>6. /\ now \in Seq(Keys)
      /\ Len(now) = Len(seen) + Len(page)
      /\ \A i \in 1..Len(seen) + Len(page) :
            now[i] = IF i <= Len(seen) THEN seen[i] ELSE page[i - Len(seen)]
  BY <1>4, ConcatProperties
<1> HIDE DEF now
<1>7. Len(page) \in Nat /\ Len(rest) \in Nat /\ Len(wanted) \in Nat
  BY <1>2, <1>3, <1>4, LenProperties
<1>8. Len(now) <= Len(wanted)
  BY <1>1, <1>2, <1>3, <1>4, <1>6, <1>7 DEF skip
<1>9. \A i \in 1..Len(now) : now[i] = wanted[i]
  <2> TAKE i \in 1..Len(now)
  <2>1. CASE i <= Len(seen)
    BY <1>1, <1>5, <1>6, <1>7, <2>1
  <2>2. CASE i > Len(seen)
    <3> DEFINE j == i - Len(seen)
    <3>1. j \in 1..Len(page) /\ j \in 1..Len(whole) - skip
      BY <1>1, <1>3, <1>4, <1>6, <1>7, <2>2
    <3>2. now[i] = page[j]
      BY <1>1, <1>6, <1>7, <2>2
    <3>3. skip + j = from + i /\ i \in 1..Len(whole) - from
      BY <1>1, <1>2, <1>6, <1>7, <1>8, <3>1 DEF skip
    <3> HIDE DEF j
    <3>4. page[j] = whole[skip + j]
      BY <1>3, <1>4, <3>1
    <3>5. wanted[i] = whole[from + i]
      BY <1>2, <3>3
    <3> QED
      BY <3>2, <3>3, <3>4, <3>5
  <2> QED
    BY <1>1, <1>6, <1>7, <2>1, <2>2
<1>10. now = SubSeq(wanted, 1, Len(now))
  <2>1. \A i \in 1..Len(now) : wanted[i] \in Keys
    BY <1>2, <1>6, <1>7, <1>8, ElementOfSeq
  <2>2. /\ SubSeq(wanted, 1, Len(now)) \in Seq(Keys)
        /\ Len(SubSeq(wanted, 1, Len(now))) = IF 1 <= Len(now) THEN Len(now) - 1 + 1 ELSE 0
        /\ \A i \in 1..Len(now) - 1 + 1 : SubSeq(wanted, 1, Len(now))[i] = wanted[1 + i - 1]
    BY <1>1, <1>6, <1>7, <2>1, SubSeqProperties
  <2> QED
    BY <1>1, <1>6, <1>7, <1>9, <2>2, SeqEqual
<1>11. ~answer.more /\ page # <<>> => now = wanted
  <2> SUFFICES ASSUME ~answer.more, page # <<>> PROVE now = wanted
    OBVIOUS
  <2>1. skip + Len(page) >= Len(whole) /\ Len(page) > 0
    BY <1>1, <1>4, <1>7, EmptySeq
  <2>2. Len(now) = Len(wanted)
    BY <1>1, <1>2, <1>3, <1>4, <1>6, <1>7, <1>8, <2>1 DEF skip
  <2> QED
    BY <1>2, <1>6, <1>9, <2>2, SeqEqual
<1>12. answer.more => answer.next = from + Len(now)
  BY <1>1, <1>4, <1>6, <1>7 DEF skip
<1> QED
  BY <1>6, <1>8, <1>10, <1>11, <1>12 DEF Continues, now, page, answer, wanted, skip

-----------------------------------------------------------------------------
(* A request in the course of a walk *)

\* What taking a page changes of a walk.
PageTaken(w, body, e, answer, next) ==
    /\ next.habit = w.habit /\ next.first = w.first /\ next.whole = w.whole
    /\ next.changes = w.changes /\ next.refused = w.refused
    /\ next.last = body
    /\ next.seen = w.seen \o answer.page
    /\ (next.empty <=> answer.page = <<>>)
    /\ (answer.more => next.token = <<NextToken(e, answer.next)>>)
    /\ (~answer.more => next.token = <<>>)

LEMMA PageChanges ==
    ASSUME NEW w, IsWalk(w), NEW body, NEW e, NEW answer
    PROVE  /\ IsWalk(AfterPage(w, body, e, answer))
           /\ PageTaken(w, body, e, answer, AfterPage(w, body, e, answer))
<1> DEFINE next == AfterPage(w, body, e, answer)
<1> DEFINE seen  == w.seen \o answer.page
           empty == answer.page = <<>>
           token == IF answer.more THEN <<NextToken(e, answer.next)>> ELSE <<>>
<1>1. next = [w EXCEPT !.last = body, !.seen = seen, !.empty = empty, !.token = token]
  BY Zenon DEF AfterPage
<1>2. w.habit \in Habits /\ w.first \in Requests /\ w.changes \in Seq({"added", "removed"})
  BY DEF IsWalk
<1> HIDE DEF next, seen, empty, token
<1>3. /\ DOMAIN next = DOMAIN w
      /\ next.habit = w.habit /\ next.first = w.first /\ next.whole = w.whole
      /\ next.changes = w.changes /\ next.refused = w.refused /\ next.steady = w.steady
      /\ next.last = body
      /\ next.seen = seen /\ next.empty = empty /\ next.token = token
  BY <1>1 DEF IsWalk
<1>4. IsWalk(next)
  BY <1>2, <1>3 DEF IsWalk
<1>5. (next.empty <=> answer.page = <<>>) /\ next.token = token /\ next.seen = seen
  BY <1>3 DEF empty
<1>6. PageTaken(w, body, e, answer, next)
  BY <1>3, <1>5 DEF PageTaken, seen, token
<1> QED
  BY <1>4, <1>6 DEF next

\* A request that asks the question of the first, from behind what was seen,
\* keeps the walk on its course.
LEMMA CourseKept ==
    ASSUME NEW w, IsWalk(w), NEW held \in Holdings,
           w.whole = Result(Question(w.first), held), SeenSoFar(w), ~w.refused,
           NEW body, LastRepeats(w, body),
           NEW e, IsRequest(e), Question(e) = Question(w.first),
           e.skip = w.first.skip + Len(w.seen)
    PROVE  OnCourse(AfterPage(w, body, e, Paginate(Result(Question(e), held), e.skip, e.top)), held)
<1> DEFINE answer == Paginate(w.whole, w.first.skip + Len(w.seen), e.top)
           next   == AfterPage(w, body, e, answer)
<1>1. /\ w.whole \in Seq(Keys) /\ w.first.skip \in Nat /\ e.top \in Nat /\ w.seen \in Seq(Keys)
      /\ w.first \in Requests
  BY RequestsAssumption, ResultAssumption DEF IsWalk, IsRequest, SeenSoFar
<1>0. PageTaken(w, body, e, answer, next)
  <2> HIDE DEF answer
  <2> QED
    BY PageChanges
<1>2. Continues(Wanted(w), w.first.skip, answer, next.seen)
  <2>1. next.seen = w.seen \o answer.page
    <3> HIDE DEF next, answer
    <3> QED
      BY <1>0 DEF PageTaken
  <2>2. /\ Len(w.seen) <= Len(SubSeq(w.whole, w.first.skip + 1, Len(w.whole)))
        /\ w.seen = SubSeq(SubSeq(w.whole, w.first.skip + 1, Len(w.whole)), 1, Len(w.seen))
    BY DEF SeenSoFar, Wanted
  <2>3. Continues(SubSeq(w.whole, w.first.skip + 1, Len(w.whole)), w.first.skip,
                  answer, w.seen \o answer.page)
    BY <1>1, <2>2, PageContinues
  <2> HIDE DEF next, answer
  <2> QED
    BY <2>1, <2>3 DEF Wanted
<1>4. \A n : NextToken(e, n) = NextToken(w.first, n)
  BY DEF Question, NextToken
<1>5. AfterPage(w, body, e, Paginate(Result(Question(e), held), e.skip, e.top)) = next
  OBVIOUS
<1> HIDE DEF next, answer
<1>3. /\ next.habit = w.habit /\ next.first = w.first /\ next.whole = w.whole
      /\ next.refused = w.refused /\ next.last = body
      /\ (next.empty <=> answer.page = <<>>)
      /\ (answer.more => next.token = <<NextToken(e, answer.next)>>)
      /\ (~answer.more => next.token = <<>>)
  BY <1>0 DEF PageTaken
<1>6. next.token \in {<<>>, <<NextToken(next.first, next.first.skip + Len(next.seen))>>}
  <2>1. CASE answer.more
    <3>1. next.token = <<NextToken(w.first, answer.next)>>
      BY <1>3, <1>4, <2>1
    <3> QED
      BY <1>2, <1>3, <2>1, <3>1 DEF Continues
  <2>2. CASE ~answer.more
    BY <1>3, <2>2
  <2> QED
    BY <2>1, <2>2
<1>7. next.token = <<>> /\ ~next.empty => next.seen = Wanted(next)
  <2>1. Wanted(next) = Wanted(w)
    BY <1>3 DEF Wanted
  <2>2. CASE answer.more
    <3>1. next.token = <<NextToken(e, answer.next)>>
      BY <1>3, <2>2
    <3>2. next.token # <<>>
      BY <3>1
    <3> QED
      BY <3>2
  <2>3. CASE ~answer.more
    BY <1>2, <1>3, <2>1, <2>3 DEF Continues
  <2> QED
    BY <2>2, <2>3
<1>8. SeenSoFar(next) /\ LastRepeats(next, next.last)
  BY <1>2, <1>3 DEF Continues, SeenSoFar, LastRepeats, Wanted
<1> QED
  BY <1>3, <1>5, <1>6, <1>7, <1>8 DEF OnCourse

\* What is sent for the next page of a complete walk asks its first question,
\* once the token is put in, from where the token points, and is not refused.
LEMMA NextRequestContinues ==
    ASSUME NEW w, IsWalk(w), Completes(w), LastRepeats(w, w.last),
           NEW n \in Nat, w.token = <<NextToken(w.first, n)>>,
           NEW send \in NextRequests(w)
    PROVE  LET e == IF send.token = <<>> THEN send.body ELSE WithToken(send.body, send.token[1])
           IN  /\ IsRequest(e) /\ Question(e) = Question(w.first) /\ e.skip = n
               /\ LastRepeats(w, send.body)
               /\ send.token = <<>> \/ ~Refuses(send.body, send.token[1])
<1> DEFINE token == NextToken(w.first, n)
<1>1. /\ w.first \in Requests /\ IsRequest(w.first)
      /\ w.habit \in {"repost", "drop", "rebuild", "alone"}
      /\ w.token = <<token>> /\ w.token # <<>> /\ w.token[1] = token
  <2>1. w.first \in Requests /\ w.habit \in Habits
    BY DEF IsWalk
  <2>2. w.token = <<token>>
    OBVIOUS
  <2> HIDE DEF token
  <2>3. w.token # <<>> /\ w.token[1] = token
    BY <2>2
  <2> QED
    BY <2>1, <2>2, <2>3, RequestsAssumption, HabitsAssumption
<1>2. /\ token.filter = w.first.filter /\ token.orderby = w.first.orderby
      /\ token.skip = n /\ token.vectors = w.first.vectors
  BY DEF NextToken
<1> HIDE DEF token
<1>3. CASE w.habit = "repost"
  <2>1. send = [body |-> [w.last EXCEPT !.skip = n], token |-> w.token]
    BY <1>1, <1>2, <1>3 DEF NextRequests
  <2>2. IsRequest(w.last) /\ Question(w.last) = Question(w.first)
    BY <1>3 DEF LastRepeats
  <2>3. IsRequest(send.body) /\ Question(send.body) = Question(w.first)
    BY <2>1, <2>2 DEF IsRequest, Question
  <2> QED
    BY <1>1, <1>2, <2>1, <2>3 DEF LastRepeats, IsRequest, Question, WithToken, Refuses
<1>4. CASE w.habit = "drop"
  <2>1. send = [body |-> [w.last EXCEPT !.skip = n], token |-> <<>>]
    BY <1>1, <1>2, <1>4 DEF NextRequests
  <2>2. IsRequest(w.last) /\ Question(w.last) = Question(w.first)
    BY <1>4 DEF LastRepeats
  <2>3. IsRequest(send.body) /\ Question(send.body) = Question(w.first) /\ send.body.skip = n
    BY <2>1, <2>2 DEF IsRequest, Question
  <2> QED
    BY <2>1, <2>3 DEF LastRepeats
<1>5. CASE w.habit = "rebuild"
  <2>1. PICK r \in Requests, top \in PageSizes :
            /\ r.subject = w.first.subject /\ r.vectors = w.first.vectors
            /\ send = [body |-> [r EXCEPT !.top = top], token |-> w.token]
    BY <1>1, <1>5 DEF NextRequests
  <2>2. IsRequest(r) /\ top \in Nat
    BY <2>1, RequestsAssumption, PageSizesAssumption
  <2>3. /\ IsRequest(send.body)
        /\ send.body.subject = w.first.subject /\ send.body.vectors = w.first.vectors
    BY <2>1, <2>2 DEF IsRequest
  <2> QED
    BY <1>1, <1>2, <1>5, <2>1, <2>3 DEF LastRepeats, IsRequest, Question, WithToken, Refuses
<1>6. CASE w.habit = "alone"
  <2>1. PICK top \in PageSizes :
            send = [body |-> [subject |-> NoSubject, vectors |-> NoVectors, filter |-> NoFilter,
                              orderby |-> NoOrder, skip |-> 0, top |-> top], token |-> w.token]
    BY <1>1, <1>6 DEF NextRequests
  <2>2. top \in Nat /\ w.first.subject = NoSubject /\ w.first.vectors = NoVectors
    BY <1>6, PageSizesAssumption DEF Completes
  <2>3. /\ IsRequest(send.body)
        /\ send.body.subject = w.first.subject /\ send.body.vectors = w.first.vectors
    BY <2>1, <2>2 DEF IsRequest
  <2> QED
    BY <1>1, <1>2, <1>6, <2>1, <2>3 DEF LastRepeats, IsRequest, Question, WithToken, Refuses
<1> QED
  BY <1>1, <1>3, <1>4, <1>5, <1>6

-----------------------------------------------------------------------------
(* The theorem *)

\* A walk begins on its course.
LEMMA FirstPagePreserves == ASSUME PagesInv, FirstPage PROVE PagesInv'
<1>1. PICK r \in Requests, habit \in Habits :
        walk' = Answered([habit |-> habit, first |-> r, last |-> r, seen |-> <<>>,
                          empty |-> FALSE, token |-> <<>>, refused |-> FALSE,
                          whole |-> Found(r), steady |-> docs, changes |-> <<>>], r, r)
  BY DEF FirstPage
<1> DEFINE w == [habit |-> habit, first |-> r, last |-> r, seen |-> <<>>,
                 empty |-> FALSE, token |-> <<>>, refused |-> FALSE,
                 whole |-> Found(r), steady |-> docs, changes |-> <<>>]
           answer == Paginate(Result(Question(r), docs), r.skip, r.top)
<1>2. docs' = docs /\ docs \in Holdings
  BY DEF FirstPage, PagesInv
<1>3. walk' = AfterPage(w, r, r, answer)
  BY <1>1 DEF Answered, Found
<1>4. /\ w.habit = habit /\ w.first = r /\ w.whole = Result(Question(r), docs)
      /\ w.seen = <<>> /\ ~w.refused
      /\ IsWalk(w)
  BY EmptySeq DEF IsWalk, Found
<1> HIDE DEF w
<1>5. IsRequest(r) /\ r.skip \in Nat /\ Result(Question(r), docs) \in Seq(Keys)
  BY <1>2, RequestsAssumption, ResultAssumption DEF IsRequest
<1>6. SeenSoFar(w)
  <2>1. Wanted(w) \in Seq(Keys) /\ Len(Wanted(w)) \in Nat
    <3>1. \A i \in r.skip + 1..Len(w.whole) : w.whole[i] \in Keys
      BY <1>4, <1>5, ElementOfSeq, LenProperties
    <3> QED
      BY <1>4, <1>5, <3>1, LenProperties, SubSeqProperties DEF Wanted
  <2>2. <<>> \in Seq(Keys) /\ Len(<<>>) = 0 /\ SubSeq(Wanted(w), 1, 0) = <<>>
    BY EmptySeq, SubSeqEmpty
  <2> QED
    BY <1>4, <2>1, <2>2 DEF SeenSoFar
<1>7. LastRepeats(w, r)
  BY <1>4, <1>5 DEF LastRepeats
<1>8. r.skip = w.first.skip + Len(w.seen)
  BY <1>4, <1>5, EmptySeq
<1> HIDE DEF answer
<1>9. OnCourse(walk', docs)
  BY <1>2, <1>3, <1>4, <1>5, <1>6, <1>7, <1>8, CourseKept DEF answer
<1>10. IsWalk(walk')
  BY <1>3, <1>4, PageChanges
<1> QED
  BY <1>2, <1>9, <1>10 DEF PagesInv

\* Every further page keeps it there.
LEMMA NextPagePreserves == ASSUME PagesInv, NextPage PROVE PagesInv'
<1> DEFINE Body(send) == IF send.token = <<>> THEN send.body
                         ELSE WithToken(send.body, send.token[1])
           Paged(send) == AfterPage(walk, send.body, Body(send),
                                    Paginate(Result(Question(Body(send)), docs),
                                             Body(send).skip, Body(send).top))
           Refused(send) == send.token # <<>> /\ Refuses(send.body, send.token[1])
<1>1. /\ docs' = docs /\ docs \in Holdings
      /\ IsWalk(walk) /\ walk.token # <<>>
      /\ walk.changes = <<>> /\ Completes(walk) => OnCourse(walk, docs)
  BY DEF NextPage, PagesInv
<1>2. PICK send \in NextRequests(walk) :
        \/ ~Refused(send) /\ walk' = Paged(send)
        \/ Refused(send) /\ walk' = [walk EXCEPT !.token = <<>>, !.refused = TRUE]
  BY DEF NextPage, Answered, Found
<1> HIDE DEF Body
<1>3. CASE ~Refused(send) /\ walk' = Paged(send)
  <2>1. IsWalk(walk') /\ walk'.changes = walk.changes
        /\ walk'.habit = walk.habit /\ walk'.first = walk.first
    <3> DEFINE answer == Paginate(Result(Question(Body(send)), docs), Body(send).skip, Body(send).top)
    <3>1. walk' = AfterPage(walk, send.body, Body(send), answer)
      BY <1>3
    <3> HIDE DEF answer
    <3>2. IsWalk(walk') /\ PageTaken(walk, send.body, Body(send), answer, walk')
      BY <1>1, <3>1, PageChanges
    <3> QED
      BY <3>2 DEF PageTaken
  <2>2. ASSUME walk.changes = <<>>, Completes(walk) PROVE OnCourse(walk', docs)
    <3>1. OnCourse(walk, docs)
      BY <1>1, <2>2
    <3>2. /\ walk.whole = Result(Question(walk.first), docs) /\ SeenSoFar(walk) /\ ~walk.refused
          /\ LastRepeats(walk, walk.last)
          /\ walk.token = <<NextToken(walk.first, walk.first.skip + Len(walk.seen))>>
      BY <1>1, <3>1 DEF OnCourse
    <3>3. walk.first.skip + Len(walk.seen) \in Nat
      BY <1>1, <3>2, RequestsAssumption, LenProperties DEF IsWalk, IsRequest, SeenSoFar
    <3>4. /\ IsRequest(Body(send)) /\ Question(Body(send)) = Question(walk.first)
          /\ Body(send).skip = walk.first.skip + Len(walk.seen)
          /\ LastRepeats(walk, send.body)
      BY <1>1, <2>2, <3>2, <3>3, NextRequestContinues DEF Body
    <3> QED
      BY <1>1, <1>3, <3>2, <3>4, CourseKept
  <2> QED
    BY <1>1, <2>1, <2>2 DEF PagesInv, Completes
<1>4. CASE Refused(send) /\ walk' = [walk EXCEPT !.token = <<>>, !.refused = TRUE]
  <2>1. IsWalk(walk') /\ walk'.changes = walk.changes
        /\ walk'.habit = walk.habit /\ walk'.first = walk.first
    BY <1>1, <1>4 DEF IsWalk
  <2>2. ~(walk.changes = <<>> /\ Completes(walk))
    <3> SUFFICES ASSUME walk.changes = <<>>, Completes(walk) PROVE FALSE
      OBVIOUS
    <3>1. /\ LastRepeats(walk, walk.last) /\ SeenSoFar(walk)
          /\ walk.token = <<NextToken(walk.first, walk.first.skip + Len(walk.seen))>>
      BY <1>1 DEF OnCourse
    <3>2. walk.first.skip + Len(walk.seen) \in Nat
      BY <1>1, <3>1, RequestsAssumption, LenProperties DEF IsWalk, IsRequest, SeenSoFar
    <3>3. send.token = <<>> \/ ~Refuses(send.body, send.token[1])
      BY <1>1, <3>1, <3>2, NextRequestContinues
    <3> QED
      BY <1>4, <3>3
  <2> QED
    BY <1>1, <2>1, <2>2 DEF PagesInv, Completes
<1> QED
  BY <1>2, <1>3, <1>4

\* A change of the documents is counted, and takes the claim back.
LEMMA ChangePreserves ==
    ASSUME PagesInv, NEW change \in {"added", "removed"}, Changing(change), docs' \in Holdings
    PROVE  PagesInv'
<1>1. IsWalk(walk) /\ walk' = [walk EXCEPT !.changes = Append(@, change),
                                         !.steady = [k \in DOMAIN @ \cap DOMAIN docs' |-> @[k]]]
  BY DEF PagesInv, Changing
<1>2. walk.changes \in Seq({"added", "removed"})
  BY <1>1 DEF IsWalk
<1>3. /\ Append(walk.changes, change) \in Seq({"added", "removed"})
      /\ Append(walk.changes, change) # <<>>
  BY <1>2, AppendProperties
<1>4. IsWalk(walk') /\ walk'.changes = Append(walk.changes, change)
  BY <1>1, <1>3 DEF IsWalk
<1> QED
  BY <1>3, <1>4 DEF PagesInv

\* Adding and removing documents leaves what the index may hold.
LEMMA ChangesHold ==
    ASSUME docs \in Holdings, AddDocument \/ RemoveDocument
    PROVE  docs' \in Holdings
<1>1. PICK K \in SUBSET Keys : docs \in [K -> Contents]
  BY DEF Holdings
<1>2. CASE AddDocument
  <2>1. PICK k \in Keys \ DOMAIN docs, content \in Contents :
          docs' = [j \in DOMAIN docs \cup {k} |-> IF j = k THEN content ELSE docs[j]]
    BY <1>2 DEF AddDocument
  <2>2. docs' \in [K \cup {k} -> Contents]
    BY <1>1, <2>1
  <2> QED
    BY <1>1, <2>1, <2>2 DEF Holdings
<1>3. CASE RemoveDocument
  <2>1. PICK k \in DOMAIN docs : docs' = [j \in DOMAIN docs \ {k} |-> docs[j]]
    BY <1>3 DEF RemoveDocument
  <2>2. docs' \in [K \ {k} -> Contents]
    BY <1>1, <2>1
  <2> QED
    BY <1>1, <2>2 DEF Holdings
<1> QED
  BY <1>2, <1>3

\* The invariant holds of any steps of PageSpec.
THEOREM PagesStayOnCourse == PageSpec => []PagesInv
<1>1. PageInit => PagesInv
  BY DEF PageInit, PagesInv, Walking
<1>2. PagesInv /\ [PageNext]_pageVars => PagesInv'
  <2> SUFFICES ASSUME PagesInv, [PageNext]_pageVars PROVE PagesInv'
    OBVIOUS
  <2>1. CASE FirstPage
    BY <2>1, FirstPagePreserves
  <2>2. CASE NextPage
    BY <2>2, NextPagePreserves
  <2>3. CASE AddDocument \/ RemoveDocument
    <3>1. docs' \in Holdings
      BY <2>3, ChangesHold DEF PagesInv
    <3>2. Changing("added") \/ Changing("removed")
      BY <2>3 DEF AddDocument, RemoveDocument
    <3> QED
      BY <3>1, <3>2, ChangePreserves
  <2>4. CASE EndWalk
    BY <2>4 DEF EndWalk, PagesInv, Walking
  <2>5. CASE UNCHANGED pageVars
    BY <2>5 DEF pageVars, PagesInv, Walking, OnCourse, SeenSoFar, Wanted, LastRepeats, IsWalk, Completes
  <2> QED
    BY <2>1, <2>2, <2>3, <2>4, <2>5 DEF PageNext
<1> QED
  BY <1>1, <1>2, PTL DEF PageSpec

\* Whatever the results are and however long the pages, a client that keeps to
\* its token, or repeats its request, sees the result of its first request
\* while no document changes, and all of it unless it asks for an empty page
\* (paginate, resolve_paging, next_continuation).
THEOREM PagesAreTheResultAlways == PageSpec => []PagesAreTheResult
<1>1. PagesInv => PagesAreTheResult
  BY DEF PagesInv, PagesAreTheResult, OnCourse, SeenSoFar, Wanted, Expected, Completes, Complete
<1> QED
  BY <1>1, PagesStayOnCourse, PTL

=============================================================================
