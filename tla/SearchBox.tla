----------------------------- MODULE SearchBox -----------------------------
(***************************************************************************)
(* The search box of the page (app/static/app.js): debounced typing, the   *)
(* suggestion list with its keyboard and mouse selection, and searches.    *)
(*                                                                         *)
(* Handlers run one at a time; between them, answers of outstanding        *)
(* requests arrive in any order, or fail.  What a list contains is up to   *)
(* the server.  The texts of the page are left out, but for which search   *)
(* the result card is about.                                               *)
(***************************************************************************)
EXTENDS Integers, Sequences

CONSTANTS
    Texts,           \* what may stand in the input field
    Empty,           \* the empty one
    Trim,            \* String.trim on them
    Lists,           \* the lists of queries /suggest may answer with
    Trends,          \* the queries in the trending panel
    Modes,           \* the ranking modes
    MaxRequests,     \* bound on /suggest requests
    MaxSubmits       \* bound on /search requests

ASSUME SearchBoxAssumption ==
    /\ Empty \in Texts
    /\ Trim \in [Texts -> Texts]
    /\ Lists \subseteq Seq(Texts)
    /\ <<>> \in Lists
    /\ Trends \subseteq Texts
    /\ "basic" \in Modes
    /\ MaxRequests \in Nat
    /\ MaxSubmits \in Nat

VARIABLES
    input,           \* the text in the input field
    mode,            \* the selected ranking mode
    timer,           \* whether the debounce timer runs
    reqSeq,          \* number of the last /suggest request
    asked,           \* outstanding /suggest requests
    suggestions,     \* the list held
    activeIndex,     \* selected item, counted from 0, or -1
    open,            \* whether the box is visible
    content,         \* what was rendered into the box last
    searchSeq,       \* number of the last search
    posted,          \* numbers of the outstanding searches
    result,          \* the search the result card is about, or 0
    shown,           \* bookkeeping: the request answered last
    sought           \* bookkeeping: the text in the input was typed or asked for

box == <<suggestions, activeIndex, open, content>>
searching == <<searchSeq, posted, result>>
vars == <<input, mode, timer, reqSeq, asked, box, searching, shown, sought>>

Request == [seq : 0 .. MaxRequests, text : Texts, mode : Modes]

Blank(text) == Trim[text] = Empty

Init == /\ input = Empty
        /\ mode = "basic"
        /\ timer = FALSE
        /\ reqSeq = 0
        /\ asked = {}
        /\ suggestions = <<>>
        /\ activeIndex = -1
        /\ open = FALSE
        /\ content = "empty"
        /\ searchSeq = 0
        /\ posted = {}
        /\ result = 0
        /\ shown = [seq |-> 0, text |-> Empty, mode |-> "basic"]
        /\ sought = FALSE

----------------------------------------------------------------------------
(* Suggestions                                                             *)

\* The bound: a running timer has the last request reserved.
Room == reqSeq + (IF timer THEN 1 ELSE 0) < MaxRequests

CloseBox ==
    /\ open' = FALSE
    /\ activeIndex' = -1

\* The request of fetchSuggestions, in mode m.
Ask(m) ==
    /\ reqSeq' = reqSeq + 1
    /\ asked' = asked \union {[seq |-> reqSeq + 1, text |-> input, mode |-> m]}
    /\ content' = "searching"

FetchSuggestions ==
    /\ \/ /\ Blank(input)
          /\ suggestions' = <<>>
          /\ CloseBox
          /\ UNCHANGED <<reqSeq, asked, content>>
       \/ /\ ~ Blank(input)
          /\ Ask(mode)
          /\ open' = TRUE
          /\ UNCHANGED <<suggestions, activeIndex>>
    /\ sought' = TRUE
    /\ UNCHANGED <<input, mode, shown, searching>>

\* An input event: the timer starts anew.
Type(text) ==
    /\ text # input
    /\ timer \/ Room
    /\ input' = text
    /\ timer' = TRUE
    /\ sought' = TRUE
    /\ UNCHANGED <<mode, reqSeq, asked, box, searching, shown>>

DebounceFires ==
    /\ timer
    /\ timer' = FALSE
    /\ FetchSuggestions

BugAnyAnswer(r) == TRUE

\* The guard of both branches: no newer request was made.
Current(r) == r.seq = reqSeq

Dropped(r) ==
    /\ ~ Current(r)
    /\ asked' = asked \ {r}
    /\ UNCHANGED <<input, mode, timer, reqSeq, box, searching, shown, sought>>

BugSelectionKept(r, list) ==
    /\ Current(r)
    /\ asked' = asked \ {r}
    /\ suggestions' = list
    /\ content' = IF list = <<>> THEN "none" ELSE "list"
    /\ open' = TRUE
    /\ shown' = r
    /\ UNCHANGED <<input, mode, timer, reqSeq, activeIndex, searching, sought>>

SuggestOk(r, list) ==
    /\ Current(r)
    /\ asked' = asked \ {r}
    /\ suggestions' = list
    /\ activeIndex' = -1
    /\ content' = IF list = <<>> THEN "none" ELSE "list"
    /\ open' = TRUE
    /\ shown' = r
    /\ UNCHANGED <<input, mode, timer, reqSeq, searching, sought>>

BugFailsSilently(r) ==
    /\ Current(r)
    /\ asked' = asked \ {r}
    /\ UNCHANGED <<input, mode, timer, reqSeq, box, searching, shown, sought>>

SuggestFail(r) ==
    /\ Current(r)
    /\ asked' = asked \ {r}
    /\ suggestions' = <<>>
    /\ content' = "error"
    /\ open' = TRUE
    /\ shown' = r
    /\ UNCHANGED <<input, mode, timer, reqSeq, activeIndex, searching, sought>>

BugModeOnlySelected(m) ==
    /\ Room
    /\ mode' = m
    /\ CloseBox
    /\ UNCHANGED <<input, timer, reqSeq, asked, suggestions, content, searching,
                   shown, sought>>

\* The buttons are outside the search box: the click reaches the document's
\* listener last, which closes what fetchSuggestions has just opened.
ModeClick(m) ==
    /\ Room
    /\ mode' = m
    /\ CloseBox
    /\ \/ /\ Blank(input)
          /\ UNCHANGED <<reqSeq, asked, content, sought>>
       \/ /\ ~ Blank(input)
          /\ Ask(m)
          /\ sought' = TRUE
    /\ UNCHANGED <<input, timer, suggestions, searching, shown>>

----------------------------------------------------------------------------
(* Selection                                                               *)

\* moveActive: from no selection, -1 leads to the last item but one.
MoveActive(delta) ==
    /\ open
    /\ suggestions # <<>>
    /\ activeIndex' = (activeIndex + delta + Len(suggestions)) % Len(suggestions)
    /\ content' = "list"
    /\ UNCHANGED <<input, mode, timer, reqSeq, asked, suggestions, open, searching,
                   shown, sought>>

ArrowDownOpens ==
    /\ ~ open
    /\ Room
    /\ FetchSuggestions
    /\ UNCHANGED timer

\* The items that are on the page.
Items == IF open /\ content = "list" THEN 0 .. Len(suggestions) - 1 ELSE {}

Hover(i) ==
    /\ activeIndex' = i
    /\ UNCHANGED <<input, mode, timer, reqSeq, asked, suggestions, open,
                   content, searching, shown, sought>>

\* Escape, or a click outside of the search box.
Dismiss ==
    /\ CloseBox
    /\ UNCHANGED <<input, mode, timer, reqSeq, asked, suggestions, content, searching,
                   shown, sought>>

Focus ==
    /\ suggestions # <<>>
    /\ open' = TRUE
    /\ UNCHANGED <<input, mode, timer, reqSeq, asked, suggestions, activeIndex,
                   content, searching, shown, sought>>

----------------------------------------------------------------------------
(* Searches                                                                *)

\* Neither the timer nor the outstanding /suggest request is cancelled.
SubmitSearch(query) ==
    /\ ~ Blank(query)
    /\ searchSeq < MaxSubmits
    /\ input' = Trim[query]
    /\ CloseBox
    /\ searchSeq' = searchSeq + 1
    /\ posted' = posted \union {searchSeq + 1}
    /\ sought' = (sought /\ input' = input)
    /\ UNCHANGED <<mode, timer, reqSeq, asked, suggestions, content, result, shown>>

Selected == activeIndex >= 0 /\ activeIndex < Len(suggestions)

Enter == SubmitSearch(IF Selected THEN suggestions[activeIndex + 1] ELSE input)

SearchOk(n) ==
    /\ posted' = posted \ {n}
    /\ \/ /\ n = searchSeq
          /\ result' = n
       \/ /\ n # searchSeq
          /\ UNCHANGED result
    /\ UNCHANGED <<input, mode, timer, reqSeq, asked, box, searchSeq, shown, sought>>

SearchFail(n) ==
    /\ posted' = posted \ {n}
    /\ UNCHANGED <<input, mode, timer, reqSeq, asked, box, searchSeq, result, shown,
                   sought>>

----------------------------------------------------------------------------
Resolve(r) == \/ Dropped(r)
              \/ \E list \in Lists : SuggestOk(r, list)
              \/ SuggestFail(r)

Next == \/ \E text \in Texts : Type(text)
        \/ DebounceFires
        \/ \E r \in asked : Resolve(r)
        \/ \E m \in Modes : ModeClick(m)
        \/ ArrowDownOpens
        \/ \E delta \in {1, -1} : MoveActive(delta)
        \/ \E i \in Items : Hover(i)
        \/ Dismiss
        \/ Focus
        \/ Enter
        \/ SubmitSearch(input)
        \/ \E i \in Items : SubmitSearch(suggestions[i + 1])
        \/ \E query \in Trends : SubmitSearch(query)
        \/ \E n \in posted : SearchOk(n) \/ SearchFail(n)

Spec == Init /\ [][Next]_vars

\* The timer fires, and a request is answered or fails; nobody has to act.
FairSpec == /\ Spec
            /\ WF_vars(DebounceFires)
            /\ \A n \in 1 .. MaxRequests :
                  WF_vars(\E r \in asked : r.seq = n /\ Resolve(r))

----------------------------------------------------------------------------
(* Properties                                                              *)

\* Types.  The selection is an item of the list that is shown, however lists of
\* different lengths follow each other, and only numbers given out are in use.
TypeOK ==
    /\ input \in Texts
    /\ mode \in Modes
    /\ timer \in BOOLEAN
    /\ reqSeq \in 0 .. MaxRequests
    /\ asked \subseteq Request
    /\ \A r \in asked : r.seq \in 1 .. reqSeq
    /\ suggestions \in Lists
    /\ activeIndex \in Int
    /\ activeIndex >= -1
    /\ content = "list" => activeIndex < Len(suggestions)
    /\ open \in BOOLEAN
    /\ content \in {"empty", "searching", "list", "none", "error"}
    /\ searchSeq \in 0 .. MaxSubmits
    /\ posted \subseteq 1 .. searchSeq
    /\ result \in 0 .. searchSeq
    /\ shown \in Request
    /\ shown.seq <= reqSeq
    /\ sought \in BOOLEAN

\* Answers that arrive out of order never replace a newer list or a newer
\* search result (reqSeq and searchSeq).
NewestAnswerWins ==
    [][/\ shown' # shown => shown'.seq > shown.seq
       /\ result' # result => result' > result]_vars

\* Once the timer has fired and the last request was answered, the list is for
\* the text in the input and the selected mode, whatever was typed, clicked and
\* answered in between.
AtRestListIsForInput ==
    (/\ sought
     /\ ~ Blank(input)
     /\ ~ timer
     /\ \A r \in asked : ~ Current(r)) => /\ shown.seq = reqSeq
                                          /\ shown.text = input
                                          /\ shown.mode = mode

\* A text that stays in the input is answered, with a list or an error message.
TypedIsAnswered ==
    \A text \in Texts :
        sought /\ input = text /\ ~ Blank(text)
            ~> \/ ~ (sought /\ input = text)
               \/ ~ timer /\ shown.seq = reqSeq /\ shown.text = text
============================================================================
