-------------------------- MODULE SearchBox_proofs --------------------------
(***************************************************************************)
(* Theorems about SearchBox, for every set of texts and lists and any      *)
(* number of requests and searches.                                        *)
(***************************************************************************)
EXTENDS SearchBox, TLAPS

\* The request made last, if it was made for what is selected now.
Last == [seq |-> reqSeq, text |-> input, mode |-> mode]

\* A request reserved for the timer is within the bound.
TimerHasRequest == timer => reqSeq < MaxRequests

\* A number belongs to one request, which is outstanding or answered.
OneRequestPerNumber ==
    /\ \A r, s \in asked : r.seq = s.seq => r = s
    /\ \A r \in asked : r.seq # shown.seq

\* For a text that the timer no longer holds back, the last request is made.
LastIsForInput == sought /\ ~ Blank(input) /\ ~ timer => Last \in asked \/ Last = shown

\* The inductive invariant.
Inv == TypeOK /\ TimerHasRequest /\ OneRequestPerNumber /\ LastIsForInput

LEMMA ModRange == ASSUME NEW a \in Int, NEW n \in Nat \ {0}
                  PROVE  a % n \in 0 .. n - 1
  OBVIOUS

LEMMA LengthOfList == ASSUME TypeOK PROVE Len(suggestions) \in Nat
<1>1. suggestions \in Seq(Texts)
  BY SearchBoxAssumption DEF TypeOK
<1> QED BY <1>1

\* What CloseBox leaves is well-formed.
LEMMA Closed == ASSUME TypeOK, CloseBox,
                       suggestions' = suggestions \/ suggestions' = <<>>
                PROVE  /\ open' \in BOOLEAN
                       /\ activeIndex' \in Int
                       /\ activeIndex' >= -1
                       /\ activeIndex' < Len(suggestions')
<1>1. open' \in BOOLEAN
  BY DEF CloseBox
<1>2. activeIndex' \in Int /\ activeIndex' >= -1 /\ activeIndex' < 0
  BY DEF CloseBox
<1>3. Len(suggestions') \in Nat
  BY LengthOfList
<1> QED BY <1>1, <1>2, <1>3

LEMMA Initially == Init => Inv
<1> SUFFICES ASSUME Init PROVE Inv
  OBVIOUS
<1>1. shown \in Request /\ shown.seq = 0
  BY SearchBoxAssumption DEF Init, Request
<1>2. TypeOK
  <2>1. activeIndex \in Int /\ activeIndex >= -1
    BY DEF Init
  <2>2. content # "list" /\ content \in {"empty", "searching", "list", "none", "error"}
    BY DEF Init
  <2>3. posted \subseteq 1 .. searchSeq /\ open \in BOOLEAN /\ timer \in BOOLEAN
    BY DEF Init
  <2>4. /\ input \in Texts
        /\ mode \in Modes
        /\ suggestions \in Lists
        /\ sought \in BOOLEAN
    BY SearchBoxAssumption DEF Init
  <2>5. /\ reqSeq \in 0 .. MaxRequests
        /\ searchSeq \in 0 .. MaxSubmits
        /\ result \in 0 .. searchSeq
        /\ shown.seq <= reqSeq
    BY <1>1, SearchBoxAssumption DEF Init
  <2>6. asked \subseteq Request /\ \A r \in asked : r.seq \in 1 .. reqSeq
    BY DEF Init
  <2> QED BY <1>1, <2>1, <2>2, <2>3, <2>4, <2>5, <2>6 DEF TypeOK
<1>3. TimerHasRequest /\ OneRequestPerNumber /\ LastIsForInput
  BY DEF Init, TimerHasRequest, OneRequestPerNumber, LastIsForInput
<1> QED BY <1>2, <1>3 DEF Inv

\* FetchSuggestions and ModeClick make a request with the next number.
LEMMA AskKeeps ==
  ASSUME Inv, NEW m \in Modes, Ask(m), ~ Blank(input), input' = input, mode' = m,
         shown' = shown, reqSeq < MaxRequests
  PROVE  /\ reqSeq' \in 0 .. MaxRequests
         /\ asked' \subseteq Request
         /\ \A r \in asked' : r.seq \in 1 .. reqSeq'
         /\ content' = "searching"
         /\ shown'.seq <= reqSeq'
         /\ OneRequestPerNumber'
         /\ Last' \in asked'
<1> USE SearchBoxAssumption
<1> DEFINE new == [seq |-> reqSeq + 1, text |-> input, mode |-> m]
<1>1. /\ reqSeq \in 0 .. MaxRequests
      /\ asked \subseteq Request
      /\ \A r \in asked : r.seq \in 1 .. reqSeq
      /\ shown \in Request
      /\ shown.seq <= reqSeq
      /\ input \in Texts
  BY DEF Inv, TypeOK
<1>2. /\ reqSeq' = reqSeq + 1
      /\ asked' = asked \union {new}
      /\ content' = "searching"
  BY DEF Ask
<1>3. new \in Request /\ new.seq = reqSeq + 1
  BY <1>1 DEF Request
<1>4. Last' = new
  BY <1>2 DEF Last
<1>5. /\ reqSeq' \in 0 .. MaxRequests
      /\ asked' \subseteq Request
      /\ \A r \in asked' : r.seq \in 1 .. reqSeq'
  BY <1>1, <1>2, <1>3
<1>6. shown.seq \in Nat
  BY <1>1 DEF Request
<1>7. OneRequestPerNumber'
  <2>1. \A r, s \in asked' : r.seq = s.seq => r = s
    BY <1>1, <1>2, <1>3 DEF Inv, OneRequestPerNumber
  <2>2. \A r \in asked' : r.seq # shown.seq
    BY <1>1, <1>2, <1>3, <1>6 DEF Inv, OneRequestPerNumber
  <2> QED BY <2>1, <2>2 DEF OneRequestPerNumber
<1> HIDE DEF new
<1> QED BY <1>1, <1>2, <1>4, <1>5, <1>6, <1>7

LEMMA FetchKeeps ==
  ASSUME Inv, FetchSuggestions, reqSeq < MaxRequests, timer' = FALSE \/ (Room /\ UNCHANGED timer)
  PROVE  Inv'
<1> USE SearchBoxAssumption
<1>0. timer' \in BOOLEAN /\ (timer' => reqSeq + 1 < MaxRequests)
  <2>1. CASE timer' = FALSE
    BY <2>1
  <2>2. CASE Room /\ UNCHANGED timer
    <3>1. timer => reqSeq + 1 < MaxRequests
      BY <2>2 DEF Room
    <3> QED BY <2>2, <3>1 DEF Inv, TypeOK
  <2> QED BY <2>1, <2>2
<1>1. CASE Blank(input)
  <2>1. /\ suggestions' = <<>>
        /\ CloseBox
        /\ UNCHANGED <<reqSeq, asked, content, input, mode, shown, searching>>
        /\ sought' = TRUE
    BY <1>1 DEF FetchSuggestions
  <2>2. TypeOK'
    BY <1>0, <2>1, Closed DEF Inv, TypeOK, searching
  <2> QED BY <1>0, <1>1, <2>1, <2>2
          DEF Inv, TimerHasRequest, OneRequestPerNumber, LastIsForInput, Last, Blank, TypeOK
<1>2. CASE ~ Blank(input)
  <2>1. /\ Ask(mode)
        /\ open' = TRUE
        /\ UNCHANGED <<suggestions, activeIndex, input, mode, shown,
                       searching>>
        /\ sought' = TRUE
    BY <1>2 DEF FetchSuggestions
  <2>2. mode \in Modes
    BY DEF Inv, TypeOK
  <2>3. /\ reqSeq' \in 0 .. MaxRequests
        /\ asked' \subseteq Request
        /\ \A r \in asked' : r.seq \in 1 .. reqSeq'
        /\ content' = "searching"
        /\ shown'.seq <= reqSeq'
        /\ OneRequestPerNumber'
        /\ Last' \in asked'
    BY <1>2, <2>1, <2>2, AskKeeps
  <2>4. TypeOK'
    BY <1>0, <2>1, <2>3 DEF Inv, TypeOK, searching
  <2>5. TimerHasRequest' /\ LastIsForInput'
    BY <1>0, <2>1, <2>3 DEF Inv, TypeOK, TimerHasRequest, LastIsForInput, Ask
  <2> QED BY <2>3, <2>4, <2>5 DEF Inv
<1> QED BY <1>1, <1>2

\* An answer leaves `asked`, whichever way it is used.
LEMMA AnswerKeeps ==
  ASSUME Inv, NEW r \in asked, asked' = asked \ {r}, Current(r), shown' = r,
         UNCHANGED <<input, mode, timer, reqSeq, sought>>
  PROVE  TimerHasRequest' /\ OneRequestPerNumber' /\ LastIsForInput'
<1>1. OneRequestPerNumber'
  BY DEF Inv, OneRequestPerNumber
<1>2. TimerHasRequest'
  BY DEF Inv, TimerHasRequest
<1>3. LastIsForInput'
  <2> SUFFICES ASSUME sought, ~ Blank(input), ~ timer
               PROVE  Last' = shown'
    BY DEF LastIsForInput, Blank
  <2>1. Last' = Last /\ Last.seq = reqSeq
    BY DEF Last
  <2>2. CASE Last \in asked
    BY <2>1, <2>2 DEF Inv, OneRequestPerNumber, Current
  <2>3. CASE Last = shown
    BY <2>1, <2>3 DEF Inv, OneRequestPerNumber, Current
  <2> QED BY <2>2, <2>3 DEF Inv, LastIsForInput
<1> QED BY <1>1, <1>2, <1>3

\* All ways to submit a search.
LEMMA SubmitKeeps ==
  ASSUME Inv, NEW query \in Texts, SubmitSearch(query)
  PROVE  Inv'
<1>1. TypeOK'
  BY SearchBoxAssumption, Closed DEF Inv, TypeOK, SubmitSearch
<1>2. TimerHasRequest' /\ OneRequestPerNumber'
  BY DEF Inv, TimerHasRequest, OneRequestPerNumber, SubmitSearch
<1>3. LastIsForInput'
  BY DEF Inv, LastIsForInput, Last, Blank, SubmitSearch
<1> QED BY <1>1, <1>2, <1>3 DEF Inv

LEMMA Inductive == Inv /\ [Next]_vars => Inv'
<1> SUFFICES ASSUME Inv, [Next]_vars PROVE Inv'
  OBVIOUS
<1> USE SearchBoxAssumption
<1>1. ASSUME NEW text \in Texts, Type(text) PROVE Inv'
  BY <1>1 DEF Type, Inv, TypeOK, TimerHasRequest, OneRequestPerNumber, LastIsForInput,
     box, searching, Room
<1>2. ASSUME DebounceFires PROVE Inv'
  BY <1>2, FetchKeeps DEF DebounceFires, Inv, TimerHasRequest
<1>3. ASSUME NEW r \in asked, Dropped(r) PROVE Inv'
  <2>1. TypeOK'
    BY <1>3 DEF Dropped, Inv, TypeOK, box, searching
  <2>2. TimerHasRequest' /\ OneRequestPerNumber'
    BY <1>3 DEF Dropped, Inv, TimerHasRequest, OneRequestPerNumber
  <2>3. LastIsForInput'
    BY <1>3 DEF Dropped, Current, Inv, LastIsForInput, Last, Blank
  <2> QED BY <2>1, <2>2, <2>3 DEF Inv
<1>4. ASSUME NEW r \in asked, NEW list \in Lists, SuggestOk(r, list) PROVE Inv'
  <2>1. TypeOK'
    BY <1>4 DEF SuggestOk, Current, Inv, TypeOK, searching
  <2> QED BY <1>4, <2>1, AnswerKeeps DEF SuggestOk, Inv
<1>5. ASSUME NEW r \in asked, SuggestFail(r) PROVE Inv'
  <2>1. TypeOK'
    BY <1>5 DEF SuggestFail, Current, Inv, TypeOK, searching
  <2> QED BY <1>5, <2>1, AnswerKeeps DEF SuggestFail, Inv
<1>6. ASSUME NEW m \in Modes, ModeClick(m) PROVE Inv'
  <2>1. CASE Blank(input)
    <3>1. TypeOK'
      BY <1>6, <2>1, Closed DEF ModeClick, Inv, TypeOK, searching
    <3> QED BY <1>6, <2>1, <3>1
            DEF ModeClick, Inv, TimerHasRequest, OneRequestPerNumber, LastIsForInput, Blank
  <2>2. CASE ~ Blank(input)
    <3>1. /\ Ask(m)
          /\ mode' = m
          /\ CloseBox
          /\ sought' = TRUE
          /\ UNCHANGED <<input, timer, suggestions, searching, shown>>
      BY <1>6, <2>2 DEF ModeClick
    <3>2. reqSeq < MaxRequests /\ (timer => reqSeq + 1 < MaxRequests)
      BY <1>6 DEF ModeClick, Room, Inv, TypeOK
    <3>3. /\ reqSeq' \in 0 .. MaxRequests
          /\ asked' \subseteq Request
          /\ \A r \in asked' : r.seq \in 1 .. reqSeq'
          /\ content' = "searching"
          /\ shown'.seq <= reqSeq'
          /\ OneRequestPerNumber'
          /\ Last' \in asked'
      BY <2>2, <3>1, <3>2, AskKeeps
    <3>4. TypeOK'
      BY <3>1, <3>3, Closed DEF Inv, TypeOK, searching
    <3>5. TimerHasRequest' /\ LastIsForInput'
      BY <3>1, <3>2, <3>3 DEF Ask, TimerHasRequest, LastIsForInput
    <3> QED BY <3>3, <3>4, <3>5 DEF Inv
  <2> QED BY <2>1, <2>2
<1>7. ASSUME ArrowDownOpens PROVE Inv'
  <2>1. reqSeq < MaxRequests
    BY <1>7 DEF ArrowDownOpens, Room, Inv, TypeOK
  <2> QED BY <1>7, <2>1, FetchKeeps DEF ArrowDownOpens
<1>8. ASSUME NEW delta \in {1, -1}, MoveActive(delta) PROVE Inv'
  <2>1. suggestions \in Seq(Texts) /\ suggestions # <<>>
    BY <1>8 DEF MoveActive, Inv, TypeOK
  <2>2. Len(suggestions) \in Nat \ {0}
    BY <2>1
  <2>3. activeIndex' \in 0 .. Len(suggestions) - 1
    <3>1. activeIndex + delta + Len(suggestions) \in Int
      BY <2>2 DEF Inv, TypeOK
    <3> QED BY <1>8, <2>2, <3>1, ModRange DEF MoveActive
  <2>4. TypeOK'
    BY <1>8, <2>2, <2>3 DEF MoveActive, Inv, TypeOK, searching
  <2> QED BY <1>8, <2>4
          DEF MoveActive, Inv, TimerHasRequest, OneRequestPerNumber, LastIsForInput, Last,
              Blank
<1>9. ASSUME NEW i \in Items, Hover(i) PROVE Inv'
  <2>1. i \in 0 .. Len(suggestions) - 1 /\ Len(suggestions) \in Nat
    BY DEF Items, Inv, TypeOK
  <2>2. TypeOK'
    BY <1>9, <2>1 DEF Hover, Inv, TypeOK, searching
  <2> QED BY <1>9, <2>2
          DEF Hover, Inv, TimerHasRequest, OneRequestPerNumber, LastIsForInput, Last, Blank
<1>10. ASSUME Dismiss PROVE Inv'
  <2>1. TypeOK'
    BY <1>10, Closed DEF Dismiss, Inv, TypeOK, searching
  <2> QED BY <1>10, <2>1
          DEF Dismiss, Inv, TimerHasRequest, OneRequestPerNumber, LastIsForInput, Last, Blank
<1>11. ASSUME Focus PROVE Inv'
  <2>1. TypeOK'
    BY <1>11 DEF Focus, Inv, TypeOK, searching
  <2> QED BY <1>11, <2>1
          DEF Focus, Inv, TimerHasRequest, OneRequestPerNumber, LastIsForInput, Last, Blank
<1>12. ASSUME Enter PROVE Inv'
  <2>1. suggestions \in Seq(Texts) /\ input \in Texts /\ activeIndex \in Int
    BY DEF Inv, TypeOK
  <2>2. Selected => suggestions[activeIndex + 1] \in Texts
    BY <2>1 DEF Selected
  <2> QED BY <1>12, <2>1, <2>2, SubmitKeeps DEF Enter
<1>13. ASSUME SubmitSearch(input) PROVE Inv'
  BY <1>13, SubmitKeeps DEF Inv, TypeOK
<1>14. ASSUME NEW i \in Items, SubmitSearch(suggestions[i + 1]) PROVE Inv'
  <2>1. suggestions \in Seq(Texts) /\ i \in 0 .. Len(suggestions) - 1
    BY DEF Items, Inv, TypeOK
  <2>2. suggestions[i + 1] \in Texts
    BY <2>1
  <2> QED BY <1>14, <2>2, SubmitKeeps
<1>15. ASSUME NEW query \in Trends, SubmitSearch(query) PROVE Inv'
  BY <1>15, SubmitKeeps
<1>16. ASSUME NEW n \in posted, SearchOk(n) \/ SearchFail(n) PROVE Inv'
  <2>1. n \in 1 .. searchSeq /\ searchSeq \in 0 .. MaxSubmits
    BY DEF Inv, TypeOK
  <2>2. TypeOK'
    <3>1. CASE SearchOk(n)
      BY <2>1, <3>1 DEF SearchOk, Inv, TypeOK, box
    <3>2. CASE SearchFail(n)
      BY <2>1, <3>2 DEF SearchFail, Inv, TypeOK, box
    <3> QED BY <1>16, <3>1, <3>2
  <2> QED BY <1>16, <2>2
          DEF SearchOk, SearchFail, Inv, TimerHasRequest, OneRequestPerNumber,
              LastIsForInput, Last, Blank
<1>17. ASSUME UNCHANGED vars PROVE Inv'
  <2>1. TypeOK'
    BY <1>17 DEF vars, box, searching, Inv, TypeOK
  <2> QED BY <1>17, <2>1
          DEF vars, Inv, TimerHasRequest, OneRequestPerNumber, LastIsForInput, Last, Blank
<1> QED BY <1>1, <1>2, <1>3, <1>4, <1>5, <1>6, <1>7, <1>8, <1>9, <1>10, <1>11, <1>12,
           <1>13, <1>14, <1>15, <1>16, <1>17 DEF Next, Resolve

\* The inductive invariant holds of every reachable state.
THEOREM Invariance == Spec => []Inv
  BY Initially, Inductive, PTL DEF Spec

\* The state of the search box is well-formed, the selection is an item of the
\* list that is shown, and numbers are within those given out.
THEOREM TypeCorrect == Spec => []TypeOK
<1>1. Inv => TypeOK
  BY DEF Inv
<1> QED BY Invariance, <1>1, PTL

\* At rest the list is for the text typed and the mode selected.
THEOREM AtRest == Spec => []AtRestListIsForInput
<1>1. Inv => AtRestListIsForInput
  <2> SUFFICES ASSUME Inv, sought, ~ Blank(input), ~ timer, \A r \in asked : ~ Current(r)
               PROVE  shown.seq = reqSeq /\ shown.text = input /\ shown.mode = mode
    BY DEF AtRestListIsForInput
  <2>1. Last \in asked \/ Last = shown
    BY DEF Inv, LastIsForInput
  <2>2. Last.seq = reqSeq /\ Last.text = input /\ Last.mode = mode
    BY DEF Last
  <2> QED BY <2>1, <2>2 DEF Current
<1> QED BY Invariance, <1>1, PTL

\* Neither a list nor a search result is replaced by the answer to an older
\* request (fetchSuggestions, submitSearch).
THEOREM NewestWins == Spec => NewestAnswerWins
<1> DEFINE Newer == /\ shown' # shown => shown'.seq > shown.seq
                    /\ result' # result => result' > result
<1>1. Inv /\ [Next]_vars => [Newer]_vars
  <2> SUFFICES ASSUME Inv, Next PROVE Newer
    OBVIOUS
  <2>1. ASSUME NEW r \in asked, Resolve(r) PROVE Newer
    <3>1. r.seq \in Nat /\ shown.seq \in Nat /\ shown.seq <= reqSeq /\ r.seq # shown.seq
      BY DEF Inv, TypeOK, OneRequestPerNumber, Request
    <3>2. result' = result
      BY <2>1 DEF Resolve, Dropped, SuggestOk, SuggestFail, searching
    <3>3. shown' = shown \/ (shown' = r /\ Current(r))
      BY <2>1 DEF Resolve, Dropped, SuggestOk, SuggestFail
    <3> QED BY <3>1, <3>2, <3>3 DEF Current
  <2>2. ASSUME NEW n \in posted, SearchOk(n) \/ SearchFail(n) PROVE Newer
    BY <2>2 DEF SearchOk, SearchFail, Inv, TypeOK
  <2>3. ASSUME UNCHANGED <<shown, result>> PROVE Newer
    BY <2>3
  <2>4. ASSUME FetchSuggestions PROVE UNCHANGED <<shown, result>>
    BY <2>4 DEF FetchSuggestions, searching
  <2>5. ASSUME NEW query, SubmitSearch(query) PROVE UNCHANGED <<shown, result>>
    BY <2>5 DEF SubmitSearch
  <2>6. \/ \E r \in asked : Resolve(r)
        \/ \E n \in posted : SearchOk(n) \/ SearchFail(n)
        \/ UNCHANGED <<shown, result>>
    BY <2>4, <2>5 DEF Next, Type, DebounceFires, ModeClick, ArrowDownOpens, MoveActive,
       Hover, Dismiss, Focus, Enter, searching
  <2> HIDE DEF Newer
  <2> QED BY <2>1, <2>2, <2>3, <2>6
<1> QED BY Invariance, <1>1, PTL DEF Spec, NewestAnswerWins
=============================================================================
