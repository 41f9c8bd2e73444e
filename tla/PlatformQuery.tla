--------------------------- MODULE PlatformQuery ---------------------------
(***************************************************************************)
(* The queries of the platform console, frontend/public/platform-utils.js: *)
(* how a query is read from raw parameters, written back to a URL, and     *)
(* applied to a list of runs or alerts.                                    *)
(*                                                                         *)
(* A text is a word with two marks, surrounding spaces and capitals; a     *)
(* number is what parseInt makes of its text.  Numbers from 10^21 on are   *)
(* left out: String writes them with an exponent, and parseInt reads back  *)
(* only its first digit.  A query is a function from the fields of its     *)
(* view to their values, the raw parameters of a URL or a form are one     *)
(* with any fields and values.                                             *)
(***************************************************************************)
EXTENDS Integers, Sequences

CONSTANTS
    Absent,           \* what URLSearchParams.get gives for a missing parameter
    NaN,              \* what parseInt makes of a text without a number
    NoFilter,         \* the text that is empty when trimmed
    Words,            \* the words of texts
    Enums,            \* of a list view: the words each of its enum fields may have
    DefaultPageSize,  \* 20 in the code
    MaxPageSize       \* 200 in the code

ASSUME PageSizeAssumption ==
    /\ DefaultPageSize \in Nat \ {0} /\ MaxPageSize \in Nat \ {0}
    /\ DefaultPageSize <= MaxPageSize

Texts == [word : Words, upper : BOOLEAN, spaced : BOOLEAN]

ASSUME ValuesAssumption ==
    /\ Absent # NoFilter
    /\ Absent \notin Int /\ NaN \notin Int /\ NoFilter \notin Int
    /\ Absent \notin Texts /\ NoFilter \notin Texts

ListViews == DOMAIN Enums

ASSUME FieldsAssumption ==
    \A view \in ListViews : {"page", "pageSize", "queueName"} \cap DOMAIN Enums[view] = {}

FilterFields(view) ==
    DOMAIN Enums[view] \cup (IF view = "runs" THEN {"queueName"} ELSE {})

\* What raw parameters are: numbers as parseInt reads them, and texts.
IsRaw(raw) ==
    \A f \in DOMAIN raw :
        IF f \in {"page", "pageSize"} THEN raw[f] \in Int \cup {NaN}
        ELSE raw[f] \in Texts \cup {NoFilter}

Trim(text) == [text EXCEPT !.spaced = FALSE]
Lower(text) == [text EXCEPT !.upper = FALSE]

NormalizeEnum(text, allowed) ==
    IF text \notin {Absent, NoFilter} /\ text.word \in allowed
    THEN Lower(Trim(text)) ELSE NoFilter

NormalizeText(text) == IF text \in {Absent, NoFilter} THEN NoFilter ELSE Trim(text)

NormalizePositiveInt(number, fallback) ==
    IF number \in {Absent, NaN} \/ number < 1 THEN fallback ELSE number

AtMost(limit, n) == IF n > limit THEN limit ELSE n

\* normalizeRunsQuery and normalizeAlertsQuery.
NormalizeQuery(view, raw) ==
    LET value(f) == IF f \in DOMAIN raw THEN raw[f] ELSE Absent IN
    [f \in FilterFields(view) \cup {"page", "pageSize"} |->
       CASE f = "page" -> NormalizePositiveInt(value(f), 1)
         [] f = "pageSize" ->
              AtMost(MaxPageSize, NormalizePositiveInt(value(f), DefaultPageSize))
         [] f = "queueName" -> NormalizeText(value(f))
         [] OTHER -> NormalizeEnum(value(f), Enums[view][f])]

BuildQueryStringWithoutPage(query) ==  \* fault: a later page is not written
    [f \in {g \in DOMAIN query \ {"page"} : query[g] # NoFilter} |-> query[f]]

\* Empty values are left out of the URL.
BuildQueryString(query) ==
    [f \in {g \in DOMAIN query : query[g] # NoFilter} |-> query[f]]

\* The queue name of an item is the set of the words it contains, whatever
\* their capitals; the other fields are one word each.
HasValue(item, f, wanted) ==
    IF f = "queueName" THEN wanted.word \in item[f] ELSE item[f] = wanted.word

\* The items at the given places, in their order.
ItemsAt(items, places) ==
    LET kept[n \in 0..Len(items)] ==
          IF n = 0 THEN <<>>
          ELSE IF n \in places THEN Append(kept[n - 1], items[n])
          ELSE kept[n - 1]
    IN  kept[Len(items)]

Matching(view, items, query) ==
    ItemsAt(items, {i \in DOMAIN items :
        \A f \in FilterFields(view) : query[f] = NoFilter \/ HasValue(items[i], f, query[f])})

ApplyFilterFromStart(view, items, raw) ==  \* fault: the first page is page 0
    LET query == NormalizeQuery(view, raw)
        all == Matching(view, items, query)
        start == query.page * query.pageSize IN
    [items |-> SubSeq(all, start + 1, AtMost(Len(all), start + query.pageSize)),
     total |-> Len(all)]

\* applyRunsFilter and applyAlertsFilter.
ApplyFilter(view, items, raw) ==
    LET query == NormalizeQuery(view, raw)
        all == Matching(view, items, query)
        start == (query.page - 1) * query.pageSize IN
    [items |-> SubSeq(all, start + 1, AtMost(Len(all), start + query.pageSize)),
     total |-> Len(all)]

\* The pager of a list page, frontend/public/app.js.
TotalPages(total, query) ==
    IF total = 0 THEN 1 ELSE (total + query.pageSize - 1) \div query.pageSize
SafePage(total, query) == AtMost(TotalPages(total, query), query.page)
=============================================================================
