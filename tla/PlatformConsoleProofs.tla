----------------------- MODULE PlatformConsoleProofs -----------------------
(***************************************************************************)
(* Proofs about PlatformConsole, for every set of requests, rows, typed    *)
(* locations and filters, every time to live and every bound.              *)
(***************************************************************************)
EXTENDS PlatformConsole, TLAPS, FiniteSetTheorems

-----------------------------------------------------------------------------
(* Queries: what a query goes through on its way from a form or a URL to   *)
(* the next URL.  Normalising is stable under it, for any texts and        *)
(* numbers.                                                                *)

\* An enum field is a text or empty after normalising, and then stays.
LEMMA EnumTwice ==
    ASSUME NEW text \in Texts \cup {NoFilter, Absent}, NEW allowed
    PROVE  /\ NormalizeEnum(text, allowed) \in Texts \cup {NoFilter}
           /\ NormalizeEnum(NormalizeEnum(text, allowed), allowed) = NormalizeEnum(text, allowed)
<1>1. CASE text \notin {Absent, NoFilter} /\ text.word \in allowed
  <2> DEFINE low == Lower(Trim(text))
  <2>1. NormalizeEnum(text, allowed) = low
    BY <1>1 DEF NormalizeEnum
  <2>2. low \in Texts /\ low.word = text.word /\ Lower(Trim(low)) = low
    BY <1>1 DEF Texts, Lower, Trim
  <2>3. low \notin {Absent, NoFilter}
    BY <2>2, ValuesAssumption
  <2>4. NormalizeEnum(low, allowed) = low
    BY <1>1, <2>2, <2>3 DEF NormalizeEnum
  <2> QED BY <2>1, <2>2, <2>4
<1>2. CASE ~(text \notin {Absent, NoFilter} /\ text.word \in allowed)
  BY <1>2 DEF NormalizeEnum
<1> QED BY <1>1, <1>2

\* So is a text field.
LEMMA TextTwice ==
    ASSUME NEW text \in Texts \cup {NoFilter, Absent}
    PROVE  /\ NormalizeText(text) \in Texts \cup {NoFilter}
           /\ NormalizeText(NormalizeText(text)) = NormalizeText(text)
<1>1. CASE text \notin {Absent, NoFilter}
  <2>1. Trim(text) \in Texts /\ Trim(Trim(text)) = Trim(text)
    BY <1>1 DEF Texts, Trim
  <2>2. Trim(text) \notin {Absent, NoFilter}
    BY <2>1, ValuesAssumption
  <2> QED BY <1>1, <2>1, <2>2 DEF NormalizeText
<1>2. CASE text \in {Absent, NoFilter}
  BY <1>2 DEF NormalizeText
<1> QED BY <1>1, <1>2

\* A number is positive after normalising, and then stays.
LEMMA NumberTwice ==
    ASSUME NEW number \in Int \cup {NaN, Absent}, NEW fallback \in Nat \ {0}
    PROVE  /\ NormalizePositiveInt(number, fallback) \in Nat \ {0}
           /\ NormalizePositiveInt(NormalizePositiveInt(number, fallback), fallback)
                = NormalizePositiveInt(number, fallback)
<1>1. CASE number \in {Absent, NaN}
  <2>1. NormalizePositiveInt(number, fallback) = fallback
    BY <1>1 DEF NormalizePositiveInt
  <2>2. fallback \notin {Absent, NaN} /\ ~(fallback < 1)
    BY ValuesAssumption
  <2> QED BY <2>1, <2>2 DEF NormalizePositiveInt
<1>2. CASE number \notin {Absent, NaN}
  <2>1. NormalizePositiveInt(number, fallback) = IF number < 1 THEN fallback ELSE number
    BY <1>2 DEF NormalizePositiveInt
  <2> DEFINE n == NormalizePositiveInt(number, fallback)
  <2>2. n \in Nat \ {0}
    BY <1>2, <2>1
  <2>3. n \notin {Absent, NaN} /\ ~(n < 1)
    BY <2>2, ValuesAssumption
  <2> HIDE DEF n
  <2>4. NormalizePositiveInt(n, fallback) = n
    BY <2>3 DEF NormalizePositiveInt
  <2> QED BY <2>2, <2>4 DEF n
<1> QED BY <1>1, <1>2

\* The page size stays within its limits.
LEMMA SizeTwice ==
    ASSUME NEW number \in Int \cup {NaN, Absent}
    PROVE  LET size(n) == AtMost(MaxPageSize, NormalizePositiveInt(n, DefaultPageSize)) IN
           size(number) \in 1..MaxPageSize /\ size(size(number)) = size(number)
<1> DEFINE size == AtMost(MaxPageSize, NormalizePositiveInt(number, DefaultPageSize))
<1>1. NormalizePositiveInt(number, DefaultPageSize) \in Nat \ {0}
  BY NumberTwice, PageSizeAssumption
<1>2. size \in 1..MaxPageSize
  BY <1>1, PageSizeAssumption DEF AtMost
<1>3. size \notin {Absent, NaN} /\ ~(size < 1)
  BY <1>2, PageSizeAssumption, ValuesAssumption
<1> HIDE DEF size
<1>4. NormalizePositiveInt(size, DefaultPageSize) = size
  BY <1>3 DEF NormalizePositiveInt
<1>5. AtMost(MaxPageSize, size) = size
  BY <1>2, PageSizeAssumption DEF AtMost
<1> QED BY <1>2, <1>4, <1>5 DEF size

\* What a field of a query may be once the query has been normalised.
IsNormal(view, query) ==
    /\ DOMAIN query = FilterFields(view) \cup {"page", "pageSize"}
    /\ query.page \in Nat \ {0} /\ query.pageSize \in 1..MaxPageSize
    /\ \A f \in FilterFields(view) :
         /\ query[f] \in Texts \cup {NoFilter}
         /\ IF f = "queueName" THEN NormalizeText(query[f]) = query[f]
            ELSE NormalizeEnum(query[f], Enums[view][f]) = query[f]

\* A query normalised from raw parameters is normal.
LEMMA Normalized ==
    ASSUME NEW view \in ListViews, NEW raw, IsRaw(raw)
    PROVE  IsNormal(view, NormalizeQuery(view, raw))
<1> DEFINE value(f) == IF f \in DOMAIN raw THEN raw[f] ELSE Absent
           query == NormalizeQuery(view, raw)
<1>1. /\ DOMAIN query = FilterFields(view) \cup {"page", "pageSize"}
      /\ query.page = NormalizePositiveInt(value("page"), 1)
      /\ query.pageSize = AtMost(MaxPageSize, NormalizePositiveInt(value("pageSize"), DefaultPageSize))
  BY DEF NormalizeQuery
<1>2. value("page") \in Int \cup {NaN, Absent} /\ value("pageSize") \in Int \cup {NaN, Absent}
  BY DEF IsRaw
<1>3. query.page \in Nat \ {0} /\ query.pageSize \in 1..MaxPageSize
  <2> DEFINE page == value("page")
             size == value("pageSize")
  <2>1. NormalizePositiveInt(page, 1) \in Nat \ {0}
    <3>1. 1 \in Nat \ {0}
      OBVIOUS
    <3> HIDE DEF page
    <3> QED BY <1>2, <3>1, NumberTwice DEF page
  <2>2. AtMost(MaxPageSize, NormalizePositiveInt(size, DefaultPageSize)) \in 1..MaxPageSize
    BY <1>2, SizeTwice
  <2> QED BY <1>1, <2>1, <2>2
<1>4. ASSUME NEW f \in FilterFields(view)
      PROVE  /\ query[f] \in Texts \cup {NoFilter}
             /\ IF f = "queueName" THEN NormalizeText(query[f]) = query[f]
                ELSE NormalizeEnum(query[f], Enums[view][f]) = query[f]
  <2>1. f \notin {"page", "pageSize"}
    BY FieldsAssumption DEF FilterFields
  <2>2. value(f) \in Texts \cup {NoFilter, Absent}
    BY <2>1 DEF IsRaw
  <2>3. CASE f = "queueName"
    <3>1. query[f] = NormalizeText(value(f))
      BY <2>1, <2>3 DEF NormalizeQuery
    <3> QED BY <2>2, <2>3, <3>1, TextTwice
  <2>4. CASE f # "queueName"
    <3>1. query[f] = NormalizeEnum(value(f), Enums[view][f])
      BY <2>1, <2>4 DEF NormalizeQuery
    <3> QED BY <2>2, <2>4, <3>1, EnumTwice
  <2> QED BY <2>3, <2>4
<1> QED BY <1>1, <1>3, <1>4 DEF IsNormal

\* What the URL of a normal query says is normalised to that query again.
LEMMA NormalSurvivesTheUrl ==
    ASSUME NEW view \in ListViews, NEW query, IsNormal(view, query),
           query = [f \in DOMAIN query |-> query[f]]
    PROVE  /\ IsRaw(BuildQueryString(query))
           /\ NormalizeQuery(view, BuildQueryString(query)) = query
<1> DEFINE url == BuildQueryString(query)
           value(f) == IF f \in DOMAIN url THEN url[f] ELSE Absent
           fields == FilterFields(view) \cup {"page", "pageSize"}
<1>1. /\ DOMAIN url = {g \in fields : query[g] # NoFilter}
      /\ \A f \in DOMAIN url : url[f] = query[f]
  BY DEF BuildQueryString, IsNormal
<1>2. \A f \in FilterFields(view) : f \notin {"page", "pageSize"}
  BY FieldsAssumption DEF FilterFields
<1>3. IsRaw(url)
  BY <1>1, <1>2 DEF IsRaw, IsNormal
<1>4. query.page \in Nat \ {0} /\ query.pageSize \in 1..MaxPageSize
  BY DEF IsNormal
<1>5. value("page") = query.page /\ value("pageSize") = query.pageSize
  BY <1>1, <1>4, ValuesAssumption
<1>6. NormalizePositiveInt(query.page, 1) = query.page
  BY <1>4, ValuesAssumption DEF NormalizePositiveInt
<1>7. AtMost(MaxPageSize, NormalizePositiveInt(query.pageSize, DefaultPageSize)) = query.pageSize
  <2>1. NormalizePositiveInt(query.pageSize, DefaultPageSize) = query.pageSize
    BY <1>4, ValuesAssumption DEF NormalizePositiveInt
  <2> QED BY <1>4, <2>1, PageSizeAssumption DEF AtMost
<1>8. ASSUME NEW f \in FilterFields(view)
      PROVE  query[f] = IF f = "queueName" THEN NormalizeText(value(f))
                        ELSE NormalizeEnum(value(f), Enums[view][f])
  <2>1. CASE query[f] = NoFilter
    <3>1. value(f) = Absent
      BY <1>1, <2>1
    <3> QED BY <2>1, <3>1 DEF NormalizeText, NormalizeEnum
  <2>2. CASE query[f] # NoFilter
    <3>1. value(f) = query[f]
      BY <1>1, <2>2
    <3> QED BY <3>1 DEF IsNormal
  <2> QED BY <2>1, <2>2
<1> DEFINE again == NormalizeQuery(view, url)
<1>9. /\ again = [f \in fields |-> again[f]]
      /\ \A f \in fields : again[f] =
           CASE f = "page" -> NormalizePositiveInt(value(f), 1)
             [] f = "pageSize" ->
                  AtMost(MaxPageSize, NormalizePositiveInt(value(f), DefaultPageSize))
             [] f = "queueName" -> NormalizeText(value(f))
             [] OTHER -> NormalizeEnum(value(f), Enums[view][f])
  BY DEF NormalizeQuery
<1> HIDE DEF again, value
<1>10. \A f \in fields : again[f] = query[f]
  <2>1. again["page"] = query.page /\ again["pageSize"] = query.pageSize
    BY <1>5, <1>6, <1>7, <1>9
  <2>2. ASSUME NEW f \in FilterFields(view) PROVE again[f] = query[f]
    BY <1>2, <1>8, <1>9
  <2> QED BY <2>1, <2>2
<1>11. query = [f \in fields |-> query[f]]
  BY DEF IsNormal
<1>12. again = query
  BY <1>9, <1>10, <1>11
<1> QED BY <1>3, <1>12 DEF again

\* A normal query is normalised to itself.
LEMMA NormalIsItsOwn ==
    ASSUME NEW view \in ListViews, NEW query, IsNormal(view, query),
           query = [f \in DOMAIN query |-> query[f]]
    PROVE  NormalizeQuery(view, query) = query
<1> DEFINE fields == FilterFields(view) \cup {"page", "pageSize"}
           again == NormalizeQuery(view, query)
<1>1. DOMAIN query = fields
      /\ \A f \in FilterFields(view) : f \notin {"page", "pageSize"}
  BY FieldsAssumption DEF IsNormal, FilterFields
<1>2. query.page \in Nat \ {0} /\ query.pageSize \in 1..MaxPageSize
  BY DEF IsNormal
<1>3. NormalizePositiveInt(query.page, 1) = query.page
  BY <1>2, ValuesAssumption DEF NormalizePositiveInt
<1>4. AtMost(MaxPageSize, NormalizePositiveInt(query.pageSize, DefaultPageSize)) = query.pageSize
  <2>1. NormalizePositiveInt(query.pageSize, DefaultPageSize) = query.pageSize
    BY <1>2, ValuesAssumption DEF NormalizePositiveInt
  <2> QED BY <1>2, <2>1, PageSizeAssumption DEF AtMost
<1>5. /\ again = [f \in fields |-> again[f]]
      /\ \A f \in fields : again[f] =
           CASE f = "page" -> NormalizePositiveInt(query[f], 1)
             [] f = "pageSize" ->
                  AtMost(MaxPageSize, NormalizePositiveInt(query[f], DefaultPageSize))
             [] f = "queueName" -> NormalizeText(query[f])
             [] OTHER -> NormalizeEnum(query[f], Enums[view][f])
  BY <1>1 DEF NormalizeQuery
<1> HIDE DEF again
<1>6. again["page"] = query["page"] /\ again["pageSize"] = query["pageSize"]
  BY <1>3, <1>4, <1>5
<1>7. ASSUME NEW f \in FilterFields(view) PROVE again[f] = query[f]
  BY <1>1, <1>5, <1>7 DEF IsNormal
<1>8. \A f \in fields : again[f] = query[f]
  BY <1>6, <1>7
<1>9. again = query
  BY <1>1, <1>5, <1>8
<1> QED BY <1>9 DEF again

\* A query the page asks for, from a form, a typed URL or the pager, is what
\* the page will read back from the URL it is written to: defaults, clamped
\* sizes and dropped words are as stable as what was typed.
THEOREM QueriesSurviveTheUrl ==
    ASSUME NEW view \in ListViews, NEW raw, IsRaw(raw)
    PROVE  LET query == NormalizeQuery(view, raw) IN
           NormalizeQuery(view, BuildQueryString(query)) = query
<1>1. IsNormal(view, NormalizeQuery(view, raw))
  BY Normalized
<1>2. NormalizeQuery(view, raw)
        = [f \in DOMAIN NormalizeQuery(view, raw) |-> NormalizeQuery(view, raw)[f]]
  BY DEF NormalizeQuery
<1> QED BY <1>1, <1>2, NormalSurvivesTheUrl

-----------------------------------------------------------------------------
(* The filter of a list, as a recursion over its rows.  The induction is   *)
(* about the least number at which a claim would fail.                     *)

\* A set of numbers has a least one: the first step an induction would fail at.
LEMMA LeastNumber ==
    ASSUME NEW T \in SUBSET Nat, T # {}
    PROVE  \E m \in T : \A n \in T : m <= n
<1> DEFINE upTo == {0..m : m \in T}
<1>1. upTo \subseteq FiniteSubsetsOf(Nat) /\ upTo # {}
  <2>1. ASSUME NEW m \in T PROVE 0..m \in FiniteSubsetsOf(Nat)
    BY FS_Interval, 0..m \in SUBSET Nat DEF FiniteSubsetsOf
  <2> QED BY <2>1
<1> HIDE DEF upTo
<1>2. PICK x \in upTo : \A y \in upTo : <<y, x>> \notin StrictSubsetOrdering(Nat)
  BY <1>1, FS_StrictSubsetOrderingWellFounded, WFMin
<1>3. PICK m \in T : x = 0..m
  BY DEF upTo
<1>4. ASSUME NEW n \in T, n < m PROVE FALSE
  <2>1. 0..n \in upTo /\ 0..n \in SUBSET Nat /\ 0..m \in SUBSET Nat
    BY DEF upTo
  <2>2. 0..n \subseteq 0..m /\ m \in 0..m /\ m \notin 0..n
    BY <1>4
  <2>3. <<0..n, 0..m>> \in StrictSubsetOrdering(Nat)
    BY <2>1, <2>2 DEF StrictSubsetOrdering
  <2> QED BY <1>2, <1>3, <2>1, <2>3
<1> QED BY <1>4

\* g is the recursion of ItemsAt up to m.
Kept(items, places, m, g) ==
    g = [n \in 0..m |->
           IF n = 0 THEN <<>>
           ELSE IF n \in places THEN Append(g[n - 1], items[n]) ELSE g[n - 1]]

\* Filtering can be carried out: the recursion has a solution.
LEMMA KeptExists ==
    ASSUME NEW S, NEW items \in Seq(S), NEW places
    PROVE  \E g : Kept(items, places, Len(items), g)
<1> DEFINE Bad == {m \in 0..Len(items) : ~ \E g : Kept(items, places, m, g)}
<1>1. SUFFICES ASSUME Bad # {} PROVE FALSE
  <2>1. Len(items) \in 0..Len(items)
    OBVIOUS
  <2> QED BY <2>1
<1>2. Bad \in SUBSET Nat
  OBVIOUS
<1>3. PICK m \in Bad : \A n \in Bad : m <= n
  BY <1>1, <1>2, LeastNumber
<1>4. m # 0
  <2> DEFINE g == [n \in 0..0 |-> <<>>]
  <2>1. Kept(items, places, 0, g)
    BY DEF Kept
  <2> QED BY <2>1
<1>5. m \in 1..Len(items) /\ m - 1 \in 0..Len(items) /\ m - 1 \notin Bad
  BY <1>3, <1>4
<1>6. PICK g : Kept(items, places, m - 1, g)
  BY <1>5
<1> DEFINE h == [n \in 0..m |-> IF n < m THEN g[n]
                                ELSE IF n \in places THEN Append(g[n - 1], items[n])
                                ELSE g[n - 1]]
<1>7. Kept(items, places, m, h)
  <2>1. ASSUME NEW n \in 0..m
        PROVE  h[n] = IF n = 0 THEN <<>>
                      ELSE IF n \in places THEN Append(h[n - 1], items[n])
                      ELSE h[n - 1]
    <3>1. CASE n = m
      BY <3>1, <1>5
    <3>2. CASE n < m
      <4>1. n \in 0..(m - 1) /\ (n # 0 => n - 1 \in 0..m /\ n - 1 < m)
        BY <3>2, <1>5
      <4>2. h[n] = g[n] /\ (n # 0 => h[n - 1] = g[n - 1])
        BY <4>1, <3>2
      <4> HIDE DEF h
      <4> QED BY <4>1, <4>2, <1>6 DEF Kept
    <3> QED BY <3>1, <3>2, <1>5
  <2>2. h = [n \in 0..m |-> h[n]]
    OBVIOUS
  <2> HIDE DEF h
  <2> QED BY <2>1, <2>2 DEF Kept
<1> HIDE DEF h
<1> QED BY <1>3, <1>7

\* What ItemsAt returns is the last value of such a solution.
LEMMA ItemsAtIsKept ==
    ASSUME NEW S, NEW items \in Seq(S), NEW places
    PROVE  \E g : /\ Kept(items, places, Len(items), g)
                  /\ ItemsAt(items, places) = g[Len(items)]
<1> DEFINE k == CHOOSE g : Kept(items, places, Len(items), g)
<1>1. Kept(items, places, Len(items), k)
  BY KeptExists
<1>2. ItemsAt(items, places) = k[Len(items)]
  BY DEF ItemsAt, Kept
<1> QED BY <1>1, <1>2

\* list holds the items at the given places, each once and in order.
Lists(list, items, places, place) ==
    /\ place \in [1..Len(list) -> places]
    /\ \A j, k \in 1..Len(list) : j < k => place[j] < place[k]
    /\ \A i \in places : \E j \in 1..Len(list) : place[j] = i
    /\ \A j \in 1..Len(list) : list[j] = items[place[j]]

\* It does so still when the next item is appended.
LEMMA ListsAppend ==
    ASSUME NEW S, NEW items \in Seq(S), NEW n \in 1..Len(items), NEW some \in SUBSET (1..(n - 1)),
           NEW list \in Seq(S), NEW place, Lists(list, items, some, place)
    PROVE  \E longer : Lists(Append(list, items[n]), items, some \cup {n}, longer)
<1> DEFINE len == Len(list)
           longer == [j \in 1..(len + 1) |-> IF j <= len THEN place[j] ELSE n]
           appended == Append(list, items[n])
<1>1. len \in Nat /\ Len(appended) = len + 1
      /\ (\A j \in 1..len : appended[j] = list[j]) /\ appended[len + 1] = items[n]
  OBVIOUS
<1>2. /\ \A j \in 1..len : place[j] \in some /\ place[j] < n
      /\ \A j, k \in 1..len : j < k => place[j] < place[k]
      /\ \A i \in some : \E j \in 1..len : place[j] = i
      /\ \A j \in 1..len : list[j] = items[place[j]]
  <2>1. /\ place \in [1..len -> some]
        /\ \A j, k \in 1..len : j < k => place[j] < place[k]
        /\ \A i \in some : \E j \in 1..len : place[j] = i
        /\ \A j \in 1..len : list[j] = items[place[j]]
    BY DEF Lists
  <2>2. \A i \in some : i < n
    OBVIOUS
  <2> QED BY <2>1, <2>2
<1>3. /\ DOMAIN longer = 1..(len + 1)
      /\ \A j \in 1..len : longer[j] = place[j]
      /\ longer[len + 1] = n
  BY <1>1
<1>4. longer \in [1..(len + 1) -> some \cup {n}]
  BY <1>1, <1>2
<1> HIDE DEF longer, appended
<1>5. \A j \in 1..(len + 1) : j \in 1..len \/ j = len + 1
  BY <1>1
<1>6. ASSUME NEW j \in 1..(len + 1), NEW k \in 1..(len + 1), j < k
      PROVE  longer[j] < longer[k]
  BY <1>1, <1>2, <1>3, <1>5, <1>6
<1>7. ASSUME NEW i \in some \cup {n} PROVE \E j \in 1..(len + 1) : longer[j] = i
  BY <1>1, <1>2, <1>3
<1>8. ASSUME NEW j \in 1..(len + 1) PROVE appended[j] = items[longer[j]]
  BY <1>1, <1>2, <1>3, <1>5
<1>9. Lists(appended, items, some \cup {n}, longer)
  BY <1>1, <1>4, <1>6, <1>7, <1>8 DEF Lists
<1> QED BY <1>9 DEF appended

\* Filtering keeps every chosen item, no other, once and in order.
LEMMA ItemsAtLists ==
    ASSUME NEW S, NEW items \in Seq(S), NEW places \in SUBSET DOMAIN items
    PROVE  /\ ItemsAt(items, places) \in Seq(S)
           /\ \E place : Lists(ItemsAt(items, places), items, places, place)
<1>1. PICK g : Kept(items, places, Len(items), g) /\ ItemsAt(items, places) = g[Len(items)]
  BY ItemsAtIsKept
<1> DEFINE some(n) == places \cap 1..n
           Good(n) == g[n] \in Seq(S) /\ \E place : Lists(g[n], items, some(n), place)
           Bad == {n \in 0..Len(items) : ~Good(n)}
<1>2. Len(items) \in Nat /\ DOMAIN items = 1..Len(items)
  OBVIOUS
<1>3. ASSUME NEW n \in 0..Len(items)
      PROVE  g[n] = IF n = 0 THEN <<>>
                    ELSE IF n \in places THEN Append(g[n - 1], items[n]) ELSE g[n - 1]
  BY <1>1 DEF Kept
<1>4. Good(0)
  <2>1. g[0] = <<>> /\ some(0) = {}
    BY <1>2, <1>3
  <2>2. Lists(<<>>, items, {}, <<>>)
    BY DEF Lists
  <2> QED BY <2>1, <2>2
<1>5. ASSUME NEW n \in 1..Len(items), Good(n - 1) PROVE Good(n)
  <2>1. n \in 0..Len(items) /\ n # 0 /\ n - 1 \in Nat
    BY <1>2
  <2>2. PICK place : Lists(g[n - 1], items, some(n - 1), place)
    BY <1>5
  <2>3. CASE n \notin places
    <3>1. some(n) = some(n - 1)
      BY <2>1, <2>3, <1>2
    <3>2. g[n] = g[n - 1]
      BY <2>1, <2>3, <1>3
    <3> QED BY <1>5, <3>1, <3>2
  <2>4. CASE n \in places
    <3>1. some(n) = some(n - 1) \cup {n} /\ some(n - 1) \in SUBSET (1..(n - 1))
      BY <2>1, <2>4, <1>2
    <3>2. g[n] = Append(g[n - 1], items[n])
      BY <2>1, <2>4, <1>3
    <3>3. g[n - 1] \in Seq(S)
      BY <1>5
    <3>4. \E longer : Lists(Append(g[n - 1], items[n]), items, some(n - 1) \cup {n}, longer)
      BY <2>2, <3>1, <3>3, ListsAppend
    <3>5. \E longer : Lists(g[n], items, some(n), longer)
      BY <3>1, <3>2, <3>4
    <3>6. g[n] \in Seq(S)
      BY <3>2, <3>3
    <3> QED BY <3>5, <3>6
  <2> QED BY <2>3, <2>4
<1> HIDE DEF Good
<1>6. Bad = {}
  <2> SUFFICES ASSUME Bad # {} PROVE FALSE
    OBVIOUS
  <2>1. Bad \in SUBSET Nat
    BY <1>2
  <2>2. PICK n \in Bad : \A m \in Bad : n <= m
    BY <2>1, LeastNumber
  <2>3. n \in 1..Len(items) /\ n - 1 \in 0..Len(items) /\ n - 1 \notin Bad
    BY <1>2, <1>4, <2>1, <2>2
  <2> QED BY <1>5, <2>2, <2>3
<1>7. Good(Len(items))
  BY <1>2, <1>6
<1>8. some(Len(items)) = places
  BY <1>2
<1> QED BY <1>1, <1>7, <1>8 DEF Good

-----------------------------------------------------------------------------
(* The pages of a list *)

\* Quotients are unique, whatever the divisor.
LEMMA Quotient ==
    ASSUME NEW a \in Nat, NEW b \in Nat \ {0}, NEW q \in Int
    PROVE  /\ a \div b \in Int /\ (a \div b) * b <= a /\ a < (a \div b) * b + b
           /\ (a \div b = q) <=> (q * b <= a /\ a < q * b + b)
<1>1. a \div b \in Int /\ (a \div b) * b <= a /\ a < (a \div b) * b + b
  OBVIOUS
<1> DEFINE r == a \div b
<1> HIDE DEF r
<1>2. ASSUME r \in Int, r * b <= a, a < r * b + b, q * b <= a, a < q * b + b PROVE q = r
  <2>1. (q - r) * b < b /\ (r - q) * b < b
    BY <1>2
  <2>2. ASSUME NEW d \in Int, d >= 1 PROVE d * b >= b
    <3>1. (d - 1) * b >= 0 /\ (d - 1) * b = d * b - b
      BY <2>2
    <3> QED BY <3>1
  <2>3. q - r < 1 /\ r - q < 1
    BY <1>2, <2>1, <2>2
  <2> QED BY <1>2, <2>3
<1> QED BY <1>1, <1>2 DEF r

\* SubSeq, as the bounds of a page take it.
LEMMA Slice ==
    ASSUME NEW S, NEW s \in Seq(S), NEW m \in Nat, NEW n \in Nat, m >= 1, n <= Len(s)
    PROVE  /\ SubSeq(s, m, n) \in Seq(S)
           /\ Len(SubSeq(s, m, n)) = IF m <= n THEN n - m + 1 ELSE 0
           /\ DOMAIN SubSeq(s, m, n) = 1..Len(SubSeq(s, m, n))
           /\ \A j \in 1..Len(SubSeq(s, m, n)) : SubSeq(s, m, n)[j] = s[m + j - 1]
OBVIOUS

\* Page n of a list, size rows long.
PageRows(all, size, n) ==
    SubSeq(all, (n - 1) * size + 1, AtMost(Len(all), (n - 1) * size + size))

\* A page of a list without repetitions has the rows whose index divided by the
\* page size is its number, and is empty only beyond the end.
LEMMA PageOfList ==
    ASSUME NEW S, NEW all \in Seq(S), NEW size \in Nat \ {0}, NEW n \in Nat \ {0},
           \A i, j \in DOMAIN all : all[i] = all[j] => i = j
    PROVE  /\ \A i \in DOMAIN all :
                (\E j \in DOMAIN PageRows(all, size, n) : PageRows(all, size, n)[j] = all[i])
                  <=> (i - 1) \div size = n - 1
           /\ PageRows(all, size, n) = <<>> => Len(all) <= (n - 1) * size
<1> DEFINE start == (n - 1) * size
           end == AtMost(Len(all), start + size)
           page == SubSeq(all, start + 1, end)
<1>1. start \in Nat
  OBVIOUS
<1> HIDE DEF start
<1>2. end \in Nat /\ end <= Len(all) /\ end <= start + size
      /\ (end = Len(all) \/ end = start + size)
  BY <1>1 DEF AtMost
<1> HIDE DEF end
<1>3. /\ Len(page) = IF start + 1 <= end THEN end - start ELSE 0
      /\ DOMAIN page = 1..Len(page)
      /\ \A j \in 1..Len(page) : page[j] = all[start + j]
  BY <1>1, <1>2, Slice
<1> HIDE DEF page
<1>4. ASSUME NEW i \in DOMAIN all
      PROVE  (\E j \in DOMAIN page : page[j] = all[i]) <=> (i - 1) \div size = n - 1
  <2>1. i \in 1..Len(all) /\ i - 1 \in Nat
    OBVIOUS
  <2>2. ASSUME NEW j \in DOMAIN page, page[j] = all[i]
        PROVE  start <= i - 1 /\ i - 1 < start + size
    <3>1. j \in 1..Len(page) /\ start + j \in DOMAIN all /\ start + j <= end
      BY <1>1, <1>2, <1>3
    <3>2. i = start + j
      BY <1>3, <2>2, <3>1
    <3> QED BY <1>1, <1>2, <3>1, <3>2
  <2>3. ASSUME start <= i - 1, i - 1 < start + size
        PROVE  \E j \in DOMAIN page : page[j] = all[i]
    <3>1. i - start \in 1..Len(page) /\ start + (i - start) = i
      BY <1>1, <1>2, <1>3, <2>1, <2>3
    <3> QED BY <1>3, <3>1
  <2>4. (i - 1) \div size = n - 1 <=> (start <= i - 1 /\ i - 1 < start + size)
    BY <2>1, Quotient, n - 1 \in Int DEF start
  <2> QED BY <2>2, <2>3, <2>4
<1>5. page = <<>> => Len(all) <= start
  BY <1>1, <1>2, <1>3
<1>6. PageRows(all, size, n) = page
  BY DEF PageRows, page, end, start
<1> QED BY <1>4, <1>5, <1>6 DEF start

\* A page number up to the last one has rows before its end.
LEMMA PageWithinTotal ==
    ASSUME NEW total \in Nat \ {0}, NEW size \in Nat \ {0}, NEW n \in Nat \ {0},
           n <= (total + size - 1) \div size
    PROVE  (n - 1) * size < total
<1> DEFINE pages == (total + size - 1) \div size
<1>1. total + size - 1 \in Nat
  OBVIOUS
<1>2. pages \in Int /\ pages * size <= total + size - 1
  BY <1>1, Quotient
<1> HIDE DEF pages
<1>3. n <= pages
  BY DEF pages
<1>4. (pages - n) * size >= 0 /\ (pages - n) * size = pages * size - n * size
  BY <1>2, <1>3
<1>5. (n - 1) * size = n * size - size
  OBVIOUS
<1> QED BY <1>2, <1>4, <1>5

\* The rows a store has for a view.
StoredRows(items) ==
    /\ items \in Seq({items[i] : i \in DOMAIN items})
    /\ \A i, j \in DOMAIN items : items[i].id = items[j].id => i = j

\* Where the rows a query asks for are.
MatchingPlaces(view, items, query) ==
    {i \in DOMAIN items :
       \A f \in FilterFields(view) : query[f] = NoFilter \/ HasValue(items[i], f, query[f])}

\* applyRunsFilter and applyAlertsFilter keep the rows that match, all of them
\* and no other, each once and in the order of the list, however long it is.
THEOREM FilterKeepsTheMatchingRows ==
    ASSUME NEW view, NEW query, NEW S, NEW items \in Seq(S)
    PROVE  /\ Matching(view, items, query) \in Seq(S)
           /\ \E place : Lists(Matching(view, items, query), items,
                               MatchingPlaces(view, items, query), place)
<1>1. MatchingPlaces(view, items, query) \in SUBSET DOMAIN items
  BY DEF MatchingPlaces
<1>2. Matching(view, items, query) = ItemsAt(items, MatchingPlaces(view, items, query))
  BY DEF Matching, MatchingPlaces
<1> QED BY <1>1, <1>2, ItemsAtLists

\* So it repeats no row.
LEMMA MatchingIsDistinct ==
    ASSUME NEW view, NEW query, NEW items, StoredRows(items)
    PROVE  LET all == Matching(view, items, query) IN
           /\ all \in Seq({items[i] : i \in DOMAIN items})
           /\ \A i, j \in DOMAIN all : all[i] = all[j] => i = j
<1> DEFINE S == {items[i] : i \in DOMAIN items}
           all == Matching(view, items, query)
           places == MatchingPlaces(view, items, query)
<1>1. items \in Seq(S)
  BY DEF StoredRows
<1> HIDE DEF S
<1>2. all \in Seq(S) /\ \E place : Lists(all, items, places, place)
  BY <1>1, FilterKeepsTheMatchingRows
<1>3. places \subseteq DOMAIN items /\ DOMAIN items \subseteq Nat
  BY <1>1 DEF MatchingPlaces
<1> HIDE DEF all, places
<1>4. PICK place : Lists(all, items, places, place)
  BY <1>2
<1>5. DOMAIN all = 1..Len(all) /\ Len(all) \in Nat
  BY <1>2
<1>6. ASSUME NEW i \in DOMAIN all, NEW j \in DOMAIN all, all[i] = all[j] PROVE i = j
  <2>1. place[i] \in places /\ place[j] \in places
    BY <1>4, <1>5 DEF Lists
  <2>2. items[place[i]] = items[place[j]]
    BY <1>4, <1>5, <1>6 DEF Lists
  <2>3. place[i] = place[j]
    BY <1>3, <2>1, <2>2 DEF StoredRows
  <2>4. ~(i < j) /\ ~(j < i)
    BY <1>3, <1>4, <1>5, <2>1, <2>3 DEF Lists
  <2> QED BY <1>5, <2>4
<1> QED BY <1>2, <1>6 DEF all, S

\* A page of the list a normal query asks for, with a page number of the pager.
LEMMA PageAsked ==
    ASSUME NEW view \in ListViews, NEW query, IsNormal(view, query),
           query = [f \in DOMAIN query |-> query[f]], NEW items, NEW n \in Nat \ {0}
    PROVE  ApplyFilter(view, items, BuildQueryString([query EXCEPT !.page = n])).items
             = PageRows(Matching(view, items, query), query.pageSize, n)
<1> DEFINE asked == [query EXCEPT !.page = n]
<1>1. /\ DOMAIN asked = DOMAIN query
      /\ \A f \in DOMAIN query : asked[f] = IF f = "page" THEN n ELSE query[f]
      /\ asked = [f \in DOMAIN asked |-> asked[f]]
  OBVIOUS
<1>2. \A f \in FilterFields(view) : f \notin {"page", "pageSize"} /\ f \in DOMAIN query
  BY FieldsAssumption DEF FilterFields, IsNormal
<1>3. asked.page = n /\ asked.pageSize = query.pageSize
  BY <1>1 DEF IsNormal
<1> HIDE DEF asked
<1>4. \A f \in FilterFields(view) : asked[f] = query[f]
  BY <1>1, <1>2
<1>5. IsNormal(view, asked)
  BY <1>1, <1>3, <1>4 DEF IsNormal
<1>6. NormalizeQuery(view, BuildQueryString(asked)) = asked
  BY <1>1, <1>5, NormalSurvivesTheUrl
<1>7. Matching(view, items, asked) = Matching(view, items, query)
  BY <1>4 DEF Matching
<1> QED BY <1>3, <1>6, <1>7 DEF ApplyFilter, PageRows, asked

-----------------------------------------------------------------------------
(* The inductive invariant.  Its parts are about one request, one entry of *)
(* the cache and one page; what they need of the state is a parameter.     *)

Request(x) ==
    \/ x = NoCall
    \/ /\ x = [kind |-> "load", outcome |-> x.outcome, key |-> x.key, value |-> x.value,
               late |-> x.late, superseded |-> x.superseded]
       /\ x.late \in BOOLEAN /\ x.superseded \in BOOLEAN
    \/ x = [kind |-> "ack", outcome |-> x.outcome, alert |-> x.alert]
    \/ x = [kind |-> "create", outcome |-> x.outcome, session |-> x.session]

Entry(e) ==
    /\ e = [value |-> e.value, left |-> e.left, late |-> e.late]
    /\ e.left \in 0..TTL /\ e.late \in BOOLEAN

Page(p) ==
    \/ p = [page |-> "home", key |-> p.key, creating |-> p.creating]
    \/ p = [page |-> "session", key |-> p.key]
    \/ p = [page |-> "loading", key |-> p.key]
    \/ /\ p = [page |-> "failed", key |-> p.key, superseded |-> p.superseded]
       /\ p.superseded \in BOOLEAN
    \/ /\ p = [page |-> "shown", key |-> p.key, value |-> p.value, label |-> p.label,
               hit |-> p.hit, late |-> p.late, superseded |-> p.superseded, acking |-> p.acking]
       /\ p.hit \in BOOLEAN /\ p.late \in BOOLEAN /\ p.superseded \in BOOLEAN

\* A value of the API that shows a confirmed alert open.
Forgets(value, done) ==
    value.source = "api" /\ \E alert \in done \cap DOMAIN value.status : value.status[alert] = "open"

\* A waiting load has an answer of the API, which forgets an ACK only when the
\* cache was cleared meanwhile, and belongs to the location unless superseded.
LoadInv(x, done, loc) ==
    x.kind = "load" =>
        /\ x.outcome = "ok" => x.value.source = "api" /\ (Forgets(x.value, done) => x.late)
        /\ ~x.superseded => x.key = Key(loc)

AckInv(x, alerts) ==
    (x.kind = "ack" /\ x.outcome = "ok") => x.alert \in DOMAIN alerts /\ alerts[x.alert] # "open"

\* The age of a mock entry and its time left add up to the time to live.
EntryInv(e, done, since) ==
    /\ Forgets(e.value, done) => e.late
    /\ (e.value.source = "mock" /\ e.left > 0) => since + e.left <= TTL

PageInv(p, done, loc) ==
    /\ p.page = "shown" =>
         /\ Forgets(p.value, done) => p.late
         /\ p.label # p.value.source => p.hit
    /\ p.key = Key(loc) \/ (p.page \in {"shown", "failed"} /\ p.superseded)

RequestsInv ==
    /\ call = [c \in Calls |-> call[c]]
    /\ \A c \in Calls : Request(call[c]) /\ LoadInv(call[c], acked, location) /\ AckInv(call[c], api)
CacheInv == \A key \in DOMAIN cache : Entry(cache[key]) /\ EntryInv(cache[key], acked, sinceMock)
ShownInv == Page(shown) /\ PageInv(shown, acked, location)
AckedInv == acked \subseteq DOMAIN api /\ \A alert \in acked : api[alert] # "open"

ConsoleInv == RequestsInv /\ CacheInv /\ ShownInv /\ AckedInv /\ sinceMock \in Nat

-----------------------------------------------------------------------------
(* Operators *)

\* What the API answers forgets nothing it has confirmed.
LEMMA FreshForgetsNothing ==
    ASSUME NEW view, NEW alerts, NEW done,
           \A alert \in done : alerts[alert] # "open"
    PROVE  /\ Value("api", view, alerts).source = "api"
           /\ ~Forgets(Value("api", view, alerts), done)
BY DEF Value, Forgets

\* A load just sent has no answer and belongs to the location it is for.
LEMMA NewLoad ==
    ASSUME NEW loc, NEW done, NEW alerts
    PROVE  LET x == Load(Key(loc)) IN
           Request(x) /\ LoadInv(x, done, loc) /\ AckInv(x, alerts)
<1> DEFINE x == Load(Key(loc))
<1>1. x = [kind |-> "load", outcome |-> "none", key |-> Key(loc), value |-> <<>>,
           late |-> FALSE, superseded |-> FALSE]
  BY DEF Load
<1> HIDE DEF x
<1>2. Request(x)
  BY <1>1 DEF Request
<1>3. LoadInv(x, done, loc) /\ AckInv(x, alerts)
  BY <1>1 DEF LoadInv, AckInv
<1> QED
  BY <1>2, <1>3 DEF x

\* Marking the waiting loads changes nothing else.
LEMMA Marking ==
    ASSUME NEW calls, NEW c \in Calls, Request(calls[c])
    PROVE  /\ Request(Late(calls)[c]) /\ Request(Superseded(calls)[c])
           /\ Late(calls)[c].kind = calls[c].kind
           /\ Superseded(calls)[c].kind = calls[c].kind
           /\ calls[c].kind # "load" =>
                Late(calls)[c] = calls[c] /\ Superseded(calls)[c] = calls[c]
           /\ calls[c].kind = "load" =>
                /\ Late(calls)[c].outcome = calls[c].outcome
                /\ Late(calls)[c].value = calls[c].value
                /\ Late(calls)[c].late
                /\ Superseded(calls)[c].outcome = calls[c].outcome
                /\ Superseded(calls)[c].value = calls[c].value
                /\ Superseded(calls)[c].late = calls[c].late
                /\ Superseded(calls)[c].superseded
<1>1. CASE calls[c].kind = "load"
  <2>1. /\ calls[c] = [kind |-> "load", outcome |-> calls[c].outcome, key |-> calls[c].key,
                       value |-> calls[c].value, late |-> calls[c].late,
                       superseded |-> calls[c].superseded]
        /\ calls[c].late \in BOOLEAN /\ calls[c].superseded \in BOOLEAN
    BY <1>1 DEF Request, NoCall
  <2>2. Late(calls)[c] = [calls[c] EXCEPT !.late = TRUE]
    BY <1>1 DEF Late
  <2>3. Superseded(calls)[c] = [calls[c] EXCEPT !.superseded = TRUE]
    BY <1>1 DEF Superseded
  <2> QED
    BY <1>1, <2>1, <2>2, <2>3 DEF Request
<1>2. CASE calls[c].kind # "load"
  BY <1>2 DEF Late, Superseded
<1> QED
  BY <1>1, <1>2

\* What a render shows at once: a page of the location, from the mock store if
\* that is forced, else from an entry of the cache that is not too old.
LEMMA AtOnce ==
    ASSUME NEW loc, NEW cached, NEW store, NEW label, NEW p,
           \A key \in DOMAIN cached : Entry(cached[key]),
           p = PageAtOnce(loc, cached, store, label)
    PROVE  /\ Page(p)
           /\ p.key = Key(loc)
           /\ p.page = "shown" =>
                \/ /\ Override(loc) = "on"
                   /\ p.label = "mock" /\ p.value.source = "mock" /\ ~p.late
                \/ /\ Key(loc) \in DOMAIN cached /\ cached[Key(loc)].left > 0
                   /\ p.value = cached[Key(loc)].value /\ p.late = cached[Key(loc)].late
                   /\ p.hit
<1>1. CASE loc.view = "home"
  <2>1. p = [page |-> "home", key |-> Key(loc), creating |-> {}]
    BY <1>1 DEF PageAtOnce, InConsole
  <2> QED
    BY <2>1 DEF Page
<1>2. CASE loc.view = "session"
  <2>1. p = [page |-> "session", key |-> Key(loc)]
    BY <1>2 DEF PageAtOnce, InConsole
  <2> QED
    BY <2>1 DEF Page
<1>3. CASE InConsole(loc) /\ Override(loc) = "on"
  <2>1. p = MockPage(Key(loc), store, FALSE)
    BY <1>3 DEF PageAtOnce, InConsole
  <2>2. CASE MockKnows(Key(loc))
    <3>1. p = Shown(Key(loc), Value("mock", Key(loc).view, store), "mock", FALSE, FALSE, FALSE)
      BY <2>1, <2>2 DEF MockPage
    <3> QED
      BY <1>3, <3>1 DEF Shown, Page, Value
  <2>3. CASE ~MockKnows(Key(loc))
    <3>1. p = [page |-> "failed", key |-> Key(loc), superseded |-> FALSE]
      BY <2>1, <2>3 DEF MockPage, Failed
    <3> QED
      BY <3>1 DEF Page
  <2> QED
    BY <2>2, <2>3
<1>4. CASE InConsole(loc) /\ Override(loc) # "on" /\ Hit(cached, Key(loc))
  <2>1. p = Shown(Key(loc), cached[Key(loc)].value, label, TRUE, cached[Key(loc)].late, FALSE)
    BY <1>4 DEF PageAtOnce, InConsole
  <2> QED
    BY <1>4, <2>1 DEF Hit, Shown, Page, Entry
<1>5. CASE InConsole(loc) /\ Override(loc) # "on" /\ ~Hit(cached, Key(loc))
  <2>1. p = [page |-> "loading", key |-> Key(loc)]
    BY <1>5 DEF PageAtOnce, InConsole
  <2> QED
    BY <2>1 DEF Page
<1> QED
  BY <1>1, <1>2, <1>3, <1>4, <1>5 DEF InConsole

\* The page of a render has what is required of a page.
LEMMA RenderedPage ==
    ASSUME NEW loc, NEW cached, NEW store, NEW label, NEW p, NEW done, NEW since,
           \A key \in DOMAIN cached : Entry(cached[key]) /\ EntryInv(cached[key], done, since),
           p = PageAtOnce(loc, cached, store, label)
    PROVE  Page(p) /\ PageInv(p, done, loc)
<1>1. Page(p) /\ p.key = Key(loc)
  BY AtOnce
<1>2. ASSUME p.page = "shown"
      PROVE  (Forgets(p.value, done) => p.late) /\ (p.label # p.value.source => p.hit)
  <2>1. CASE p.label = "mock" /\ p.value.source = "mock"
    BY <2>1 DEF Forgets
  <2>2. CASE /\ Key(loc) \in DOMAIN cached /\ p.hit
             /\ p.value = cached[Key(loc)].value /\ p.late = cached[Key(loc)].late
    BY <2>2 DEF EntryInv
  <2> QED
    BY <1>2, <2>1, <2>2, AtOnce
<1> QED
  BY <1>1, <1>2 DEF PageInv

\* Every render keeps the invariant of requests, cache and page, whatever else
\* its action does to the confirmed alerts, the API and the clock.
LEMMA RenderStep ==
    ASSUME NEW c \in Calls, NEW loc, NEW calls, NEW cached, NEW store, NEW label,
           Render(c, loc, calls, cached, store, label),
           \A x \in Calls : Request(calls[x]) /\ AckInv(calls[x], api'),
           \A x \in Calls : (calls[x].kind = "load" /\ calls[x].outcome = "ok") =>
               calls[x].value.source = "api" /\ (Forgets(calls[x].value, acked') => calls[x].late),
           \A key \in DOMAIN cached : Entry(cached[key]) /\ EntryInv(cached[key], acked', sinceMock')
    PROVE  RequestsInv' /\ CacheInv' /\ ShownInv'
<1>1. /\ location' = loc /\ cache' = cached
      /\ shown' = PageAtOnce(loc, cached, store, label)
      /\ call' = [Superseded(calls) EXCEPT ![c] =
                    IF shown'.page = "loading" THEN Load(Key(loc)) ELSE NoCall]
  BY DEF Render
<1>2. RequestsInv'
  <2>1. call' = [x \in Calls |-> call'[x]]
    BY <1>1 DEF Superseded
  <2>2. ASSUME NEW x \in Calls
        PROVE  Request(call'[x]) /\ LoadInv(call'[x], acked', loc) /\ AckInv(call'[x], api')
    <3>1. CASE x = c
      <4>1. call'[x] = Load(Key(loc)) \/ call'[x] = NoCall
        BY <1>1, <3>1 DEF Superseded
      <4>2. Request(NoCall) /\ LoadInv(NoCall, acked', loc) /\ AckInv(NoCall, api')
        BY DEF Request, NoCall, LoadInv, AckInv
      <4> QED
        BY <4>1, <4>2, NewLoad
    <3>2. CASE x # c /\ calls[x].kind = "load"
      <4>1. call'[x] = Superseded(calls)[x]
        BY <1>1, <3>2 DEF Superseded
      <4>2. Request(call'[x]) /\ call'[x].kind = calls[x].kind
        BY <4>1, Marking
      <4>3. /\ call'[x].outcome = calls[x].outcome /\ call'[x].value = calls[x].value
            /\ call'[x].late = calls[x].late /\ call'[x].superseded
        BY <3>2, <4>1, Marking
      <4> QED
        BY <3>2, <4>2, <4>3 DEF LoadInv, AckInv
    <3>3. CASE x # c /\ calls[x].kind # "load"
      <4>1. call'[x] = calls[x]
        BY <1>1, <3>3, Marking DEF Superseded
      <4> QED
        BY <3>3, <4>1 DEF LoadInv
    <3> QED
      BY <3>1, <3>2, <3>3
  <2> QED
    BY <1>1, <2>1, <2>2 DEF RequestsInv
<1>3. CacheInv'
  BY <1>1 DEF CacheInv
<1>4. ShownInv'
  BY <1>1, RenderedPage DEF ShownInv
<1> QED
  BY <1>2, <1>3, <1>4

\* The requests as an ACK that clears the cache leaves them.
LEMMA LateRequests ==
    ASSUME NEW calls, NEW alerts, NEW done, NEW loc, NEW x \in Calls,
           Request(calls[x]) /\ LoadInv(calls[x], done, loc) /\ AckInv(calls[x], alerts)
    PROVE  /\ Request(Late(calls)[x]) /\ AckInv(Late(calls)[x], alerts)
           /\ Late(calls)[x].kind = "load" => Late(calls)[x].late
           /\ (Late(calls)[x].kind = "load" /\ Late(calls)[x].outcome = "ok") =>
                Late(calls)[x].value.source = "api"
<1>1. Request(Late(calls)[x]) /\ Late(calls)[x].kind = calls[x].kind
  BY Marking
<1>2. CASE calls[x].kind = "load"
  <2>1. /\ Late(calls)[x].outcome = calls[x].outcome /\ Late(calls)[x].value = calls[x].value
        /\ Late(calls)[x].late
    BY <1>2, Marking
  <2> QED
    BY <1>1, <1>2, <2>1 DEF LoadInv, AckInv
<1>3. CASE calls[x].kind # "load"
  BY <1>1, <1>3, Marking
<1> QED
  BY <1>2, <1>3

-----------------------------------------------------------------------------
(* Every action keeps the invariant *)

\* A document just loaded waits for its own location and has cached nothing.
LEMMA InitEstablishes ==
    ASSUME Init PROVE ConsoleInv
<1>1. \A key \in DOMAIN <<>> : FALSE
  OBVIOUS
<1>2. Page(shown) /\ shown.key = Key(location) /\ PageInv(shown, acked, location)
  <2>1. shown = PageAtOnce(location, <<>>, MockStatus, "api")
    BY DEF Init
  <2>2. Page(shown) /\ PageInv(shown, acked, location)
    BY <1>1, <2>1, RenderedPage
  <2>3. shown.key = Key(location)
    BY <1>1, <2>1, AtOnce
  <2> QED
    BY <2>2, <2>3
<1>3. RequestsInv
  <2>1. call = [c \in Calls |-> call[c]]
    BY DEF Init
  <2>2. ASSUME NEW c \in Calls
        PROVE  Request(call[c]) /\ LoadInv(call[c], acked, location) /\ AckInv(call[c], api)
    <3>1. call[c] = Load(Key(location)) \/ call[c] = NoCall
      BY DEF Init
    <3>2. Request(NoCall) /\ LoadInv(NoCall, acked, location) /\ AckInv(NoCall, api)
      BY DEF Request, NoCall, LoadInv, AckInv
    <3> QED
      BY <3>1, <3>2, NewLoad
  <2> QED
    BY <2>1, <2>2 DEF RequestsInv
<1>4. CacheInv /\ AckedInv /\ sinceMock \in Nat
  BY <1>1, ConsoleBoundsAssumption DEF Init, CacheInv, AckedInv
<1> QED
  BY <1>2, <1>3, <1>4 DEF ConsoleInv, ShownInv

\* A render that neither clears the cache nor confirms an ACK.
LEMMA PlainRender ==
    ASSUME ConsoleInv, NEW c \in Calls, NEW loc,
           Render(c, loc, call, cache, mock, mode),
           UNCHANGED <<api, acked, sinceMock>>
    PROVE  ConsoleInv'
<1>1. RequestsInv' /\ CacheInv' /\ ShownInv'
  BY RenderStep DEF ConsoleInv, RequestsInv, CacheInv, LoadInv
<1> QED
  BY <1>1 DEF ConsoleInv, AckedInv

\* A render after an ACK: the cache is empty and every waiting load is late.
LEMMA ClearingRender ==
    ASSUME ConsoleInv, NEW c \in Calls, NEW store, NEW label,
           Render(c, location, Late(call), <<>>, store, label),
           UNCHANGED <<api, sinceMock>>, AckedInv'
    PROVE  ConsoleInv'
<1>1. \A key \in DOMAIN <<>> : FALSE
  OBVIOUS
<1>2. \A x \in Calls : /\ Request(Late(call)[x]) /\ AckInv(Late(call)[x], api')
                       /\ Late(call)[x].kind = "load" => Late(call)[x].late
                       /\ (Late(call)[x].kind = "load" /\ Late(call)[x].outcome = "ok") =>
                            Late(call)[x].value.source = "api"
  BY LateRequests DEF ConsoleInv, RequestsInv
<1>3. RequestsInv' /\ CacheInv' /\ ShownInv'
  BY <1>1, <1>2, RenderStep
<1> QED
  BY <1>3 DEF ConsoleInv

\* One request is sent, answered or done with.
LEMMA OneRequest ==
    ASSUME RequestsInv, NEW c \in Calls, NEW r,
           call' = [call EXCEPT ![c] = r],
           Request(r), LoadInv(r, acked, location), AckInv(r, api'),
           \A x \in Calls : AckInv(call[x], api'),
           UNCHANGED <<acked, location>>
    PROVE  RequestsInv'
BY DEF RequestsInv

\* The slot of a request that is done with is free.
LEMMA RequestDone ==
    ASSUME RequestsInv, NEW c \in Calls, call' = [call EXCEPT ![c] = NoCall],
           UNCHANGED <<acked, location, api>>
    PROVE  RequestsInv'
<1>1. Request(NoCall) /\ LoadInv(NoCall, acked, location) /\ AckInv(NoCall, api')
  BY DEF Request, NoCall, LoadInv, AckInv
<1>2. \A x \in Calls : AckInv(call[x], api')
  BY DEF RequestsInv
<1> QED
  BY <1>1, <1>2, OneRequest

\* The answer, confirmed or not, of the API to an ACK; others' progress.
LEMMA OnlyMoreAcked ==
    ASSUME NEW alert \in DOMAIN api, api' = [api EXCEPT ![alert] = IF @ = "open" THEN "acked" ELSE @]
    PROVE  /\ DOMAIN api' = DOMAIN api /\ api'[alert] # "open"
           /\ \A other \in DOMAIN api : api[other] # "open" => api'[other] # "open"
           /\ \A x : AckInv(x, api) => AckInv(x, api')
BY DEF AckInv

\* An ACK clears the cache and marks the loads, or is only sent.
LEMMA ClickAckKeeps ==
    ASSUME ConsoleInv, NEW c \in Calls, NEW alert, ClickAck(c, alert)
    PROVE  ConsoleInv'
<1>1. CASE Render(c, location, Late(call), <<>>, mock', "mock")
  BY <1>1, ClearingRender DEF ClickAck, ConsoleInv, AckedInv
<1>2. CASE UNCHANGED <<api, location, cache, call, shown, acked, sinceMock>>
  BY <1>2 DEF ConsoleInv, RequestsInv, CacheInv, ShownInv, AckedInv
<1>3. CASE /\ call' = [call EXCEPT ![c] = [kind |-> "ack", outcome |-> "none", alert |-> alert]]
           /\ shown' = [shown EXCEPT !.acking = @ \cup {c}]
           /\ UNCHANGED <<api, location, cache, acked, sinceMock>>
  <2>1. RequestsInv'
    <3> DEFINE r == [kind |-> "ack", outcome |-> "none", alert |-> alert]
    <3>1. Request(r) /\ LoadInv(r, acked, location) /\ AckInv(r, api')
      BY DEF Request, LoadInv, AckInv
    <3>2. \A x \in Calls : AckInv(call[x], api')
      BY <1>3 DEF ConsoleInv, RequestsInv
    <3> QED
      BY <1>3, <3>1, <3>2, OneRequest DEF ConsoleInv
  <2>2. ShownInv'
    <3>1. shown.page = "shown"
      BY DEF ClickAck
    <3> QED
      BY <1>3, <3>1 DEF ConsoleInv, ShownInv, Page, PageInv
  <2> QED
    BY <1>3, <2>1, <2>2 DEF ConsoleInv, CacheInv, AckedInv
<1> QED
  BY <1>1, <1>2, <1>3 DEF ClickAck

\* A create is only sent.
LEMMA ClickCreateKeeps ==
    ASSUME ConsoleInv, NEW c \in Calls, ClickCreate(c)
    PROVE  ConsoleInv'
<1>1. RequestsInv'
  <2> DEFINE r == [kind |-> "create", outcome |-> "none", session |-> 0]
  <2>1. Request(r) /\ LoadInv(r, acked, location) /\ AckInv(r, api')
    BY DEF Request, LoadInv, AckInv
  <2>2. \A x \in Calls : AckInv(call[x], api')
    BY DEF ClickCreate, ConsoleInv, RequestsInv
  <2> QED
    BY <2>1, <2>2, OneRequest DEF ClickCreate, ConsoleInv
<1>2. ShownInv'
  BY DEF ClickCreate, ConsoleInv, ShownInv, Page, PageInv
<1> QED
  BY <1>1, <1>2 DEF ClickCreate, ConsoleInv, CacheInv, AckedInv

\* What the API answers a load with forgets no ACK at that moment.
LEMMA ServeLoadKeeps ==
    ASSUME ConsoleInv, NEW c \in Calls, ServeLoad(c)
    PROVE  ConsoleInv'
<1> DEFINE value == Value("api", call[c].key.view, api)
<1>1. call[c].kind = "load" /\ Request(call[c]) /\ LoadInv(call[c], acked, location)
  BY DEF ServeLoad, Sent, ConsoleInv, RequestsInv
<1>2. \A x \in Calls : AckInv(call[x], api')
  BY DEF ServeLoad, ConsoleInv, RequestsInv
<1>3. value.source = "api" /\ ~Forgets(value, acked)
  BY FreshForgetsNothing DEF ConsoleInv, AckedInv
<1>4. CASE call' = [call EXCEPT ![c].outcome = "ok", ![c].value = value]
  <2> HIDE DEF value
  <2> DEFINE r == [call[c] EXCEPT !.outcome = "ok", !.value = value]
  <2>1. call' = [call EXCEPT ![c] = r]
    BY <1>4 DEF ConsoleInv, RequestsInv
  <2>2. Request(r) /\ r.kind = "load" /\ r.key = call[c].key /\ r.superseded = call[c].superseded
        /\ r.value = value
    <3> DEFINE ok == [call[c] EXCEPT !.outcome = "ok"]
    <3>1. Request(ok) /\ ok.kind = "load" /\ ok.key = call[c].key
          /\ ok.superseded = call[c].superseded
      BY <1>1 DEF Request, NoCall
    <3>2. r = [ok EXCEPT !.value = value]
      OBVIOUS
    <3> HIDE DEF ok, r
    <3> QED
      BY <3>1, <3>2 DEF Request, NoCall
  <2> HIDE DEF r
  <2>3. LoadInv(r, acked, location) /\ AckInv(r, api')
    BY <1>1, <1>3, <2>2 DEF LoadInv, AckInv
  <2>4. RequestsInv'
    BY <1>2, <2>1, <2>2, <2>3, OneRequest DEF ServeLoad, ConsoleInv
  <2> QED
    BY <2>4 DEF ServeLoad, ConsoleInv, CacheInv, ShownInv, AckedInv
<1>5. ASSUME NEW outcome \in {"unavailable", "error"}, call' = [call EXCEPT ![c].outcome = outcome]
      PROVE  ConsoleInv'
  <2> DEFINE r == [call[c] EXCEPT !.outcome = outcome]
  <2>1. call' = [call EXCEPT ![c] = r]
    BY <1>5
  <2>2. Request(r) /\ r.kind = "load" /\ r.key = call[c].key /\ r.superseded = call[c].superseded
        /\ r.outcome # "ok"
    BY <1>1 DEF Request, NoCall
  <2> HIDE DEF r
  <2>3. LoadInv(r, acked, location) /\ AckInv(r, api')
    BY <1>1, <2>2 DEF LoadInv, AckInv
  <2>4. RequestsInv'
    BY <1>2, <2>1, <2>2, <2>3, OneRequest DEF ServeLoad, ConsoleInv
  <2> QED
    BY <2>4 DEF ServeLoad, ConsoleInv, CacheInv, ShownInv, AckedInv
<1> QED
  BY <1>4, <1>5 DEF ServeLoad

\* An ACK that is answered with ok has closed its alert.
LEMMA ServeAckKeeps ==
    ASSUME ConsoleInv, NEW c \in Calls, ServeAck(c)
    PROVE  ConsoleInv'
<1>1. call[c].kind = "ack" /\ Request(call[c])
  BY DEF ServeAck, Sent, ConsoleInv, RequestsInv
<1>2. ASSUME NEW outcome, call' = [call EXCEPT ![c].outcome = outcome],
             outcome = "ok" => call[c].alert \in DOMAIN api' /\ api'[call[c].alert] # "open",
             \A x \in Calls : AckInv(call[x], api')
      PROVE  RequestsInv'
  <2> DEFINE r == [call[c] EXCEPT !.outcome = outcome]
  <2>1. call' = [call EXCEPT ![c] = r]
    BY <1>2
  <2>2. Request(r) /\ r.kind = "ack" /\ r.alert = call[c].alert /\ r.outcome = outcome
    BY <1>1 DEF Request, NoCall
  <2> HIDE DEF r
  <2>3. LoadInv(r, acked, location) /\ AckInv(r, api')
    BY <1>2, <2>2 DEF LoadInv, AckInv
  <2> QED
    BY <1>2, <2>1, <2>2, <2>3, OneRequest DEF ServeAck, ConsoleInv
<1>3. CASE /\ call[c].alert \in DOMAIN api
           /\ api' = [api EXCEPT ![call[c].alert] = IF @ = "open" THEN "acked" ELSE @]
           /\ \E outcome \in {"ok", "error"} : call' = [call EXCEPT ![c].outcome = outcome]
  <2>1. /\ DOMAIN api' = DOMAIN api /\ api'[call[c].alert] # "open"
        /\ \A other \in DOMAIN api : api[other] # "open" => api'[other] # "open"
        /\ \A x \in Calls : AckInv(call[x], api')
    BY <1>3, OnlyMoreAcked DEF ConsoleInv, RequestsInv
  <2>2. RequestsInv'
    BY <1>2, <1>3, <2>1
  <2>3. AckedInv'
    BY <2>1 DEF ServeAck, ConsoleInv, AckedInv
  <2> QED
    BY <2>2, <2>3 DEF ServeAck, ConsoleInv, CacheInv, ShownInv
<1>4. CASE /\ UNCHANGED api
           /\ \E outcome \in {"unavailable", "error"} : call' = [call EXCEPT ![c].outcome = outcome]
  <2>1. \A x \in Calls : AckInv(call[x], api')
    BY <1>4 DEF ConsoleInv, RequestsInv
  <2>2. RequestsInv'
    BY <1>2, <1>4, <2>1
  <2> QED
    BY <1>4, <2>2 DEF ServeAck, ConsoleInv, CacheInv, ShownInv, AckedInv
<1> QED
  BY <1>3, <1>4 DEF ServeAck

\* A create that is answered touches no load and no ACK.
LEMMA ServeCreateKeeps ==
    ASSUME ConsoleInv, NEW c \in Calls, ServeCreate(c)
    PROVE  ConsoleInv'
<1>1. call[c].kind = "create" /\ Request(call[c])
  BY DEF ServeCreate, Sent, ConsoleInv, RequestsInv
<1>2. \A x \in Calls : AckInv(call[x], api')
  BY DEF ServeCreate, ConsoleInv, RequestsInv
<1>3. PICK outcome : \/ call' = [call EXCEPT ![c].outcome = outcome, ![c].session = sessions']
                     \/ call' = [call EXCEPT ![c].outcome = outcome]
  BY DEF ServeCreate
<1>4. PICK r : call' = [call EXCEPT ![c] = r] /\ Request(r) /\ r.kind = "create"
  <2> DEFINE once == [call[c] EXCEPT !.outcome = outcome]
             twice == [once EXCEPT !.session = sessions']
  <2>1. Request(once) /\ once.kind = "create"
    BY <1>1 DEF Request, NoCall
  <2>2. CASE call' = [call EXCEPT ![c].outcome = outcome]
    <3>1. call' = [call EXCEPT ![c] = once]
      BY <2>2
    <3> QED
      BY <2>1, <3>1, Zenon
  <2>3. CASE call' = [call EXCEPT ![c].outcome = outcome, ![c].session = sessions']
    <3>1. call' = [call EXCEPT ![c] = twice]
      BY <2>3 DEF ConsoleInv, RequestsInv
    <3> HIDE DEF once
    <3>2. Request(twice) /\ twice.kind = "create"
      BY <2>1 DEF Request, NoCall
    <3> QED
      BY <3>1, <3>2, Zenon
  <2> QED
    BY <1>3, <2>2, <2>3
<1>5. LoadInv(r, acked, location) /\ AckInv(r, api')
  BY <1>4 DEF LoadInv, AckInv
<1>6. RequestsInv'
  BY <1>2, <1>4, <1>5, OneRequest DEF ServeCreate, ConsoleInv
<1> QED
  BY <1>6 DEF ServeCreate, ConsoleInv, CacheInv, ShownInv, AckedInv

\* Other users only close alerts.
LEMMA ProgressKeeps ==
    ASSUME ConsoleInv, NEW alert \in DOMAIN api, Progress(alert)
    PROVE  ConsoleInv'
<1>1. api' = [api EXCEPT ![alert] = IF @ = "open" THEN "acked" ELSE @]
  BY DEF Progress
<1>2. /\ DOMAIN api' = DOMAIN api
      /\ \A other \in DOMAIN api : api[other] # "open" => api'[other] # "open"
      /\ \A x \in Calls : AckInv(call[x], api')
  BY <1>1, OnlyMoreAcked DEF ConsoleInv, RequestsInv
<1> QED
  BY <1>2 DEF Progress, ConsoleInv, RequestsInv, CacheInv, ShownInv, AckedInv

\* What an entry loses in time left the clock gains.
LEMMA TickKeeps ==
    ASSUME ConsoleInv, Tick
    PROVE  ConsoleInv'
<1>1. sinceMock' \in Nat /\ sinceMock' <= sinceMock + 1
  BY ConsoleBoundsAssumption DEF Tick, AtMost, ConsoleInv
<1>2. CacheInv'
  <2> SUFFICES ASSUME NEW key \in DOMAIN cache
               PROVE  Entry(cache'[key]) /\ EntryInv(cache'[key], acked, sinceMock')
    BY DEF Tick, CacheInv
  <2>1. Entry(cache[key]) /\ EntryInv(cache[key], acked, sinceMock)
    BY DEF ConsoleInv, CacheInv
  <2> DEFINE e == cache'[key]
  <2>2. e = [cache[key] EXCEPT !.left = IF @ > 0 THEN @ - 1 ELSE 0]
    BY DEF Tick
  <2> HIDE DEF e
  <2>3. /\ Entry(e) /\ e.value = cache[key].value /\ e.late = cache[key].late
        /\ e.left = IF cache[key].left > 0 THEN cache[key].left - 1 ELSE 0
    BY <2>1, <2>2, ConsoleBoundsAssumption DEF Entry
  <2>4. EntryInv(e, acked, sinceMock')
    BY <1>1, <2>1, <2>3, ConsoleBoundsAssumption DEF EntryInv, Entry, ConsoleInv
  <2> QED
    BY <2>3, <2>4 DEF e
<1> QED
  BY <1>1, <1>2 DEF Tick, ConsoleInv, RequestsInv, ShownInv, AckedInv

\* A value goes into the cache for the time to live.
LEMMA StoreKeeps ==
    ASSUME CacheInv, NEW c \in Calls, NEW value, Store(c, value),
           call[c].late \in BOOLEAN, Forgets(value, acked) => call[c].late,
           sinceMock \in Nat, sinceMock' \in {0, sinceMock},
           value.source = "mock" => sinceMock' = 0,
           UNCHANGED acked
    PROVE  CacheInv'
<1> SUFFICES ASSUME NEW key \in DOMAIN cache \cup {call[c].key}
             PROVE  Entry(cache'[key]) /\ EntryInv(cache'[key], acked, sinceMock')
  BY DEF Store, CacheInv
<1>1. CASE key = call[c].key
  <2> DEFINE e == [value |-> value, left |-> TTL, late |-> call[c].late]
  <2>1. cache'[key] = e
    BY <1>1 DEF Store
  <2>2. e.value = value /\ e.left = TTL /\ e.late = call[c].late
    OBVIOUS
  <2>3. Entry(e)
    BY ConsoleBoundsAssumption DEF Entry
  <2> HIDE DEF e
  <2>4. EntryInv(e, acked, sinceMock')
    BY <2>2, ConsoleBoundsAssumption DEF EntryInv
  <2> QED
    BY <2>1, <2>3, <2>4
<1>2. CASE key # call[c].key
  <2>1. cache'[key] = cache[key] /\ Entry(cache[key]) /\ EntryInv(cache[key], acked, sinceMock)
    BY <1>2 DEF Store, CacheInv
  <2> QED
    BY <2>1, ConsoleBoundsAssumption DEF Entry, EntryInv
<1> QED
  BY <1>1, <1>2

\* What a waiting load is, for its three continuations.
LEMMA WaitingLoad ==
    ASSUME ConsoleInv, NEW c \in Calls, call[c].kind = "load"
    PROVE  /\ call[c].late \in BOOLEAN /\ call[c].superseded \in BOOLEAN
           /\ ~call[c].superseded => call[c].key = Key(location)
           /\ call[c].outcome = "ok" =>
                call[c].value.source = "api" /\ (Forgets(call[c].value, acked) => call[c].late)
BY DEF ConsoleInv, RequestsInv, Request, NoCall, LoadInv

\* A load brings its answer, and its marks, to the cache and the page.
LEMMA LoadReturnsKeeps ==
    ASSUME ConsoleInv, NEW c \in Calls, LoadReturns(c)
    PROVE  ConsoleInv'
<1>1. call[c].kind = "load" /\ call[c].outcome = "ok"
  BY DEF LoadReturns, Answered
<1>2. RequestsInv'
  BY RequestDone DEF LoadReturns, ConsoleInv
<1>3. CacheInv'
  BY <1>1, WaitingLoad, StoreKeeps DEF LoadReturns, ConsoleInv
<1>4. ShownInv'
  <2> DEFINE load == call[c]
             p == Shown(load.key, load.value, "api", FALSE, load.late, load.superseded)
  <2>1. /\ load.late \in BOOLEAN /\ load.superseded \in BOOLEAN
        /\ ~load.superseded => load.key = Key(location)
        /\ load.value.source = "api" /\ (Forgets(load.value, acked) => load.late)
    BY <1>1, WaitingLoad
  <2>2. Page(p) /\ PageInv(p, acked, location)
    BY <2>1 DEF Shown, Page, PageInv
  <2> QED
    BY <2>2 DEF LoadReturns, ShownInv
<1> QED
  BY <1>2, <1>3, <1>4 DEF LoadReturns, ConsoleInv, AckedInv

\* A load that falls back brings a mock entry of age 0.
LEMMA LoadFallsBackKeeps ==
    ASSUME ConsoleInv, NEW c \in Calls, LoadFallsBack(c)
    PROVE  ConsoleInv'
<1> DEFINE load == call[c]
           value == Value("mock", load.key.view, mock)
<1>1. load.kind = "load"
  BY DEF LoadFallsBack, Answered
<1>2. /\ load.late \in BOOLEAN /\ load.superseded \in BOOLEAN
      /\ ~load.superseded => load.key = Key(location)
  BY <1>1, WaitingLoad
<1>3. value.source = "mock" /\ ~Forgets(value, acked)
  BY DEF Value, Forgets
<1>4. RequestsInv'
  BY RequestDone DEF LoadFallsBack, ConsoleInv
<1>5. CacheInv'
  <2>1. CASE MockKnows(load.key)
    <3> HIDE DEF value
    <3>1. Store(c, value) /\ sinceMock' = 0 /\ UNCHANGED acked
      BY <2>1 DEF LoadFallsBack, value
    <3> QED
      BY <1>2, <1>3, <3>1, StoreKeeps DEF ConsoleInv
  <2>2. CASE ~MockKnows(load.key)
    BY <2>2, ConsoleBoundsAssumption
    DEF LoadFallsBack, ConsoleInv, CacheInv, Entry, EntryInv
  <2> QED
    BY <2>1, <2>2
<1>6. ShownInv'
  <2> DEFINE p == MockPage(load.key, mock, load.superseded)
  <2>1. CASE MockKnows(load.key)
    <3>1. p = Shown(load.key, value, "mock", FALSE, FALSE, load.superseded)
      BY <2>1 DEF MockPage
    <3> HIDE DEF value
    <3>2. Page(p) /\ PageInv(p, acked, location)
      BY <1>2, <1>3, <3>1 DEF Shown, Page, PageInv
    <3> QED
      BY <3>2 DEF LoadFallsBack, ShownInv
  <2>2. CASE ~MockKnows(load.key)
    <3>1. p = Failed(load.key, load.superseded)
      BY <2>2 DEF MockPage
    <3>2. Page(p) /\ PageInv(p, acked, location)
      BY <1>2, <3>1 DEF Failed, Page, PageInv
    <3> QED
      BY <3>2 DEF LoadFallsBack, ShownInv
  <2> QED
    BY <2>1, <2>2
<1> QED
  BY <1>4, <1>5, <1>6 DEF LoadFallsBack, ConsoleInv, AckedInv

\* A load that fails shows so for its own location, or is superseded.
LEMMA LoadFailsKeeps ==
    ASSUME ConsoleInv, NEW c \in Calls, LoadFails(c)
    PROVE  ConsoleInv'
<1>1. call[c].kind = "load"
  BY DEF LoadFails, Answered
<1>2. RequestsInv'
  BY RequestDone DEF LoadFails, ConsoleInv
<1>3. ShownInv'
  <2> DEFINE p == Failed(call[c].key, call[c].superseded)
  <2>1. Page(p) /\ PageInv(p, acked, location)
    BY <1>1, WaitingLoad DEF Failed, Page, PageInv
  <2> QED
    BY <2>1 DEF LoadFails, ShownInv
<1> QED
  BY <1>2, <1>3 DEF LoadFails, ConsoleInv, CacheInv, AckedInv

\* A confirmed ACK empties the cache, and what still waits is late.
LEMMA AckReturnsKeeps ==
    ASSUME ConsoleInv, NEW c \in Calls, AckReturns(c)
    PROVE  ConsoleInv'
<1>1. AckedInv'
  BY DEF AckReturns, Answered, ConsoleInv, RequestsInv, AckInv, AckedInv
<1> QED
  BY <1>1, ClearingRender DEF AckReturns

\* So does an ACK that falls back to the mock store.
LEMMA AckFallsBackKeeps ==
    ASSUME ConsoleInv, NEW c \in Calls, AckFallsBack(c)
    PROVE  ConsoleInv'
<1>1. AckedInv'
  BY DEF AckFallsBack, ConsoleInv, AckedInv
<1> QED
  BY <1>1, ClearingRender DEF AckFallsBack

\* A page whose button is enabled again is the same page.
LEMMA SamePage ==
    ASSUME ShownInv, NEW buttons,
           \/ shown' = shown
           \/ shown.page = "shown" /\ shown' = [shown EXCEPT !.acking = buttons]
           \/ shown.page = "home" /\ shown' = [shown EXCEPT !.creating = buttons],
           UNCHANGED <<acked, location>>
    PROVE  ShownInv'
<1>1. CASE shown' = shown
  BY <1>1 DEF ShownInv
<1>2. CASE shown.page = "shown" /\ shown' = [shown EXCEPT !.acking = buttons]
  BY <1>2 DEF ShownInv, Page, PageInv
<1>3. CASE shown.page = "home" /\ shown' = [shown EXCEPT !.creating = buttons]
  BY <1>3 DEF ShownInv, Page, PageInv
<1> QED
  BY <1>1, <1>2, <1>3

\* An ACK that fails only enables its button.
LEMMA AckFailsKeeps ==
    ASSUME ConsoleInv, NEW c \in Calls, AckFails(c)
    PROVE  ConsoleInv'
<1>1. RequestsInv'
  BY RequestDone DEF AckFails, ConsoleInv
<1>2. ShownInv'
  BY SamePage DEF AckFails, ConsoleInv
<1> QED
  BY <1>1, <1>2 DEF AckFails, ConsoleInv, CacheInv, AckedInv

\* So does a create that fails.
LEMMA CreateFailsKeeps ==
    ASSUME ConsoleInv, NEW c \in Calls, CreateFails(c)
    PROVE  ConsoleInv'
<1>1. RequestsInv'
  BY RequestDone DEF CreateFails, ConsoleInv
<1>2. ShownInv'
  BY SamePage DEF CreateFails, ConsoleInv
<1> QED
  BY <1>1, <1>2 DEF CreateFails, ConsoleInv, CacheInv, AckedInv

\* A create that returns renders another location.
LEMMA CreateReturnsKeeps ==
    ASSUME ConsoleInv, NEW c \in Calls, CreateReturns(c)
    PROVE  ConsoleInv'
BY PlainRender DEF CreateReturns

\* Every step keeps the invariant.
LEMMA NextKeeps ==
    ASSUME ConsoleInv, [Next]_vars
    PROVE  ConsoleInv'
<1>1. ASSUME NEW c \in Calls, User(c) PROVE ConsoleInv'
  BY <1>1, PlainRender, ClickAckKeeps, ClickCreateKeeps DEF User, Navigate, Back
<1>2. ASSUME NEW c \in Calls, Serve(c) PROVE ConsoleInv'
  BY <1>2, ServeLoadKeeps, ServeAckKeeps, ServeCreateKeeps DEF Serve
<1>3. ASSUME NEW c \in Calls, Continue(c) PROVE ConsoleInv'
  BY <1>3, LoadReturnsKeeps, LoadFallsBackKeeps, LoadFailsKeeps, AckReturnsKeeps,
     AckFallsBackKeeps, AckFailsKeeps, CreateReturnsKeeps, CreateFailsKeeps DEF Continue
<1>4. ASSUME UNCHANGED vars PROVE ConsoleInv'
  BY <1>4 DEF vars, ConsoleInv, RequestsInv, CacheInv, ShownInv, AckedInv
<1> QED
  BY <1>1, <1>2, <1>3, <1>4, ProgressKeeps, TickKeeps DEF Next

-----------------------------------------------------------------------------
(* Theorems *)

\* The invariant the properties of the console follow from: what waits, what is
\* cached and what is shown know the ACKs confirmed before them unless marked.
THEOREM ConsoleInvariant == Spec => []ConsoleInv
<1>1. Init => ConsoleInv
  BY InitEstablishes
<1>2. ConsoleInv /\ [Next]_vars => ConsoleInv'
  BY NextKeeps
<1> QED
  BY <1>1, <1>2, PTL DEF Spec

\* After a confirmed ACK nothing of the API shows the alert open, but what a
\* load brought that waited while the cache was cleared.
THEOREM AcksAreForgottenOnlyByLateLoads == Spec => []AckIsForgottenOnlyByLateLoad
<1>1. ConsoleInv => AckIsForgottenOnlyByLateLoad
  BY DEF ConsoleInv, CacheInv, EntryInv, ShownInv, PageInv, Forgets, AckIsForgottenOnlyByLateLoad
<1> QED
  BY <1>1, ConsoleInvariant, PTL

\* Only a page made from the cache may have a label that is not its source.
THEOREM LabelsAreTrueUnlessCached == Spec => []LabelIsTrueUnlessCached
<1>1. ConsoleInv => LabelIsTrueUnlessCached
  BY DEF ConsoleInv, ShownInv, PageInv, LabelIsTrueUnlessCached
<1> QED
  BY <1>1, ConsoleInvariant, PTL

\* Only a superseded load may put a page where the location is not.
THEOREM PagesAreTheLocationUnlessSuperseded == Spec => []PageIsTheLocationUnlessSuperseded
<1>1. ConsoleInv => PageIsTheLocationUnlessSuperseded
  BY DEF ConsoleInv, ShownInv, PageInv, PageIsTheLocationUnlessSuperseded
<1> QED
  BY <1>1, ConsoleInvariant, PTL

-----------------------------------------------------------------------------
(* The mock store is left behind *)

\* A mock page that appears is young.
YoungMock ==
    (/\ Override(location') = "none" /\ shown'.page = "shown" /\ shown'.value.source = "mock"
     /\ shown.page = "shown" => shown # [shown' EXCEPT !.acking = shown.acking])
    => sinceMock' < TTL

\* A page made at once is of an entry whose time is not over.
LEMMA RenderIsYoung ==
    ASSUME NEW c \in Calls, NEW loc, NEW calls, NEW cached, NEW store, NEW label,
           Render(c, loc, calls, cached, store, label),
           \A key \in DOMAIN cached : Entry(cached[key]) /\ EntryInv(cached[key], acked, sinceMock),
           sinceMock \in Nat, UNCHANGED sinceMock
    PROVE  YoungMock
<1>1. location' = loc /\ shown' = PageAtOnce(loc, cached, store, label)
  BY DEF Render
<1> SUFFICES ASSUME Override(loc) = "none", shown'.page = "shown", shown'.value.source = "mock"
             PROVE  sinceMock < TTL
  BY <1>1 DEF YoungMock
<1>2. /\ Key(loc) \in DOMAIN cached /\ cached[Key(loc)].left > 0
      /\ shown'.value = cached[Key(loc)].value
  BY <1>1, AtOnce
<1>3. Entry(cached[Key(loc)]) /\ EntryInv(cached[Key(loc)], acked, sinceMock)
  BY <1>2
<1> QED
  BY <1>2, <1>3, ConsoleBoundsAssumption DEF Entry, EntryInv

\* A page after an ACK is made from no entry.
LEMMA ClearingIsYoung ==
    ASSUME ConsoleInv, NEW c \in Calls, NEW loc, NEW calls, NEW store, NEW label,
           Render(c, loc, calls, <<>>, store, label), UNCHANGED sinceMock
    PROVE  YoungMock
<1>1. \A key \in DOMAIN <<>> : FALSE
  OBVIOUS
<1> QED
  BY <1>1, RenderIsYoung DEF ConsoleInv

\* The buttons of a page are no part of what appears.
LEMMA ButtonsAreNoPage ==
    ASSUME ShownInv, NEW buttons, shown.page = "shown",
           shown' = [shown EXCEPT !.acking = buttons]
    PROVE  YoungMock
<1>1. shown = [page |-> "shown", key |-> shown.key, value |-> shown.value, label |-> shown.label,
               hit |-> shown.hit, late |-> shown.late, superseded |-> shown.superseded,
               acking |-> shown.acking]
  BY DEF ShownInv, Page
<1>2. shown = [shown' EXCEPT !.acking = shown.acking]
  BY <1>1
<1> QED
  BY <1>2 DEF YoungMock

\* Every step shows young mock pages only.
LEMMA NextIsYoung ==
    ASSUME ConsoleInv, [Next]_vars
    PROVE  [YoungMock]_shown
<1>1. ASSUME NEW c \in Calls, NEW loc, Render(c, loc, call, cache, mock, mode), UNCHANGED sinceMock
      PROVE  YoungMock
  BY <1>1, RenderIsYoung DEF ConsoleInv, CacheInv
<1>2. ASSUME NEW c \in Calls, User(c) PROVE [YoungMock]_shown
  <2>1. ASSUME NEW alert, ClickAck(c, alert) PROVE [YoungMock]_shown
    <3>1. CASE Render(c, location, Late(call), <<>>, mock', "mock")
      BY <2>1, <3>1, ClearingIsYoung DEF ClickAck
    <3>2. CASE UNCHANGED shown
      BY <3>2
    <3>3. CASE shown' = [shown EXCEPT !.acking = @ \cup {c}]
      BY <2>1, <3>3, ButtonsAreNoPage DEF ClickAck, ConsoleInv
    <3> QED
      BY <2>1, <3>1, <3>2, <3>3 DEF ClickAck
  <2>2. ASSUME ClickCreate(c) PROVE YoungMock
    BY <2>2 DEF ClickCreate, YoungMock, ConsoleInv, ShownInv, Page
  <2> QED
    BY <1>1, <1>2, <2>1, <2>2 DEF User, Navigate, Back
<1>3. ASSUME NEW c \in Calls, Serve(c) PROVE UNCHANGED shown
  BY <1>3 DEF Serve, ServeLoad, ServeAck, ServeCreate
<1>4. ASSUME NEW c \in Calls, Continue(c) PROVE [YoungMock]_shown
  <2>1. ASSUME LoadReturns(c) PROVE YoungMock
    <3>1. call[c].value.source = "api"
      BY <2>1, WaitingLoad DEF LoadReturns, Answered
    <3> QED
      BY <2>1, <3>1 DEF LoadReturns, Shown, YoungMock
  <2>2. ASSUME LoadFallsBack(c) PROVE YoungMock
    BY <2>2, ConsoleBoundsAssumption DEF LoadFallsBack, YoungMock
  <2>3. ASSUME LoadFails(c) PROVE YoungMock
    BY <2>3 DEF LoadFails, Failed, YoungMock
  <2>4. ASSUME AckReturns(c) \/ AckFallsBack(c) PROVE YoungMock
    BY <2>4, ClearingIsYoung DEF AckReturns, AckFallsBack
  <2>5. ASSUME AckFails(c) PROVE [YoungMock]_shown
    BY <2>5, ButtonsAreNoPage DEF AckFails, ConsoleInv
  <2>6. ASSUME CreateReturns(c) PROVE YoungMock
    BY <1>1, <2>6 DEF CreateReturns
  <2>7. ASSUME CreateFails(c) PROVE [YoungMock]_shown
    BY <2>7 DEF CreateFails, YoungMock, ConsoleInv, ShownInv, Page
  <2> QED
    BY <1>4, <2>1, <2>2, <2>3, <2>4, <2>5, <2>6, <2>7 DEF Continue
<1>5. ASSUME (\E alert \in DOMAIN api : Progress(alert)) \/ Tick \/ UNCHANGED vars
      PROVE  UNCHANGED shown
  BY <1>5 DEF Progress, Tick, vars
<1> QED
  BY <1>2, <1>3, <1>4, <1>5 DEF Next

\* A page with content of the mock store that the location did not ask for
\* appears only within the time to live after a load found no API.
THEOREM TheMockStoreIsLeftBehind == Spec => MockIsLeftBehind
<1>1. ConsoleInv /\ [Next]_vars => [YoungMock]_shown
  BY NextIsYoung
<1>2. Spec => [][YoungMock]_shown
  BY <1>1, ConsoleInvariant, PTL DEF Spec
<1> QED
  BY <1>2 DEF MockIsLeftBehind, YoungMock

-----------------------------------------------------------------------------
(* Type correctness *)

\* A key of a list is a normal query.
Asked(key) ==
    key.view \in ListViews =>
        IsNormal(key.view, key.arg) /\ key.arg = [f \in DOMAIN key.arg |-> key.arg[f]]

Place(loc) ==
    /\ loc.view \in ListViews \cup {"home", "session", "overview", "detail"}
    /\ loc.view \in ListViews => IsRaw(loc.params)

\* Values, said of the constants.
Answers ==
    [source : {"api"}, status : {<<>>} \cup [Ids("api", "alerts") -> Statuses]]
    \cup [source : {"mock"}, status : {<<>>} \cup [DOMAIN MockStatus -> Statuses]]

RequestType(x) ==
    x.kind = "load" => Asked(x.key) /\ (x.outcome = "ok" => x.value \in Answers)

PageType(p) ==
    /\ p.page \in {"shown", "failed"} => Asked(p.key)
    /\ p.page = "shown" => p.value \in Answers

StoresType ==
    api \in [Ids("api", "alerts") -> Statuses] /\ mock \in [DOMAIN MockStatus -> Statuses]
RequestsType == \A c \in Calls : RequestType(call[c])
CacheType == \A key \in DOMAIN cache : Asked(key) /\ cache[key].value \in Answers
TypeInv ==
    /\ StoresType /\ Place(location) /\ first \in Typed /\ mode \in {"api", "mock"}
    /\ moves \in 0..MaxMoves /\ sessions \in Nat
    /\ RequestsType /\ CacheType /\ PageType(shown)

\* What a location asks for is a normal query, whatever was typed.
LEMMA PlacesAsk ==
    ASSUME NEW loc, Place(loc)
    PROVE  Asked(Key(loc))
<1> SUFFICES ASSUME loc.view \in ListViews
             PROVE  /\ IsNormal(loc.view, Key(loc).arg)
                    /\ Key(loc).arg = [f \in DOMAIN Key(loc).arg |-> Key(loc).arg[f]]
  BY DEF Asked, Key
<1>1. Key(loc).arg = NormalizeQuery(loc.view, loc.params)
  BY DEF Key
<1>2. NormalizeQuery(loc.view, loc.params)
        = [f \in DOMAIN NormalizeQuery(loc.view, loc.params) |->
             NormalizeQuery(loc.view, loc.params)[f]]
  BY DEF NormalizeQuery
<1> QED
  BY <1>1, <1>2, Normalized DEF Place

\* A normal query may be asked for again, on its page or on another.
LEMMA NormalIsRaw ==
    ASSUME NEW view \in ListViews, NEW query, IsNormal(view, query)
    PROVE  IsRaw(query) /\ \A n \in Int : IsRaw([query EXCEPT !.page = n])
<1>1. \A f \in FilterFields(view) : f \notin {"page", "pageSize"}
  BY FieldsAssumption DEF FilterFields
<1>2. query.page \in Int /\ query.pageSize \in Int
  BY PageSizeAssumption DEF IsNormal
<1>3. IsRaw(query)
  BY <1>1, <1>2 DEF IsRaw, IsNormal
<1>4. ASSUME NEW n \in Int PROVE IsRaw([query EXCEPT !.page = n])
  <2>1. /\ DOMAIN [query EXCEPT !.page = n] = DOMAIN query
        /\ \A f \in DOMAIN query :
             [query EXCEPT !.page = n][f] = IF f = "page" THEN n ELSE query[f]
    BY DEF IsNormal
  <2> QED
    BY <1>3, <2>1 DEF IsRaw
<1> QED
  BY <1>3, <1>4

\* A list page of the console has a URL that can be read.
LEMMA ListPlaces ==
    ASSUME NEW view \in ListViews, NEW raw, IsRaw(raw)
    PROVE  Place(ListAt(view, raw))
<1> DEFINE query == NormalizeQuery(view, raw)
<1>1. IsNormal(view, query)
  BY Normalized
<1>2. query = [f \in DOMAIN query |-> query[f]]
  BY DEF NormalizeQuery
<1> HIDE DEF query
<1>3. IsRaw(BuildQueryString(query))
  BY <1>1, <1>2, NormalSurvivesTheUrl
<1> QED
  BY <1>3 DEF Place, ListAt, At, query

\* What the user types is a place.
LEMMA TypedPlaces == \A loc \in Typed : Place(loc)
BY LocationsAssumption DEF Place

\* So every button leads to a place.
LEMMA ButtonsLeadToPlaces ==
    ASSUME NEW p, PageType(p), Place(location), NEW loc \in Targets(p)
    PROVE  Place(loc)
<1>1. ASSUME loc \in Menu PROVE Place(loc)
  <2>1. PICK view \in {"home", "overview", "runs", "alerts"} : loc = At(view, <<>>)
    BY <1>1 DEF Menu
  <2>2. IsRaw(<<>>)
    BY DEF IsRaw
  <2> QED
    BY <2>1, <2>2, LocationsAssumption DEF At, Place
<1>2. ASSUME p.page = "shown", p.key.view \in ListViews,
             loc \in FormTargets(p.key.view) \cup PagerTargets(p) \cup RowTargets(p)
      PROVE  Place(loc)
  <2>1. IsNormal(p.key.view, p.key.arg)
    BY <1>2 DEF PageType, Asked
  <2>2. CASE loc \in FormTargets(p.key.view)
    BY <1>2, <2>2, ListPlaces, LocationsAssumption DEF FormTargets
  <2>3. CASE loc \in PagerTargets(p)
    <3>1. PICK query \in PagerQueries(p.key, Rows(p).total) : loc = ListAt(p.key.view, query)
      BY <2>3 DEF PagerTargets
    <3>2. PICK n \in Int : query = [p.key.arg EXCEPT !.page = n]
      BY DEF PagerQueries
    <3> QED
      BY <1>2, <2>1, <3>1, <3>2, NormalIsRaw, ListPlaces
  <2>4. CASE loc \in RowTargets(p)
    BY <2>4, LocationsAssumption DEF RowTargets, At, Place
  <2> QED
    BY <1>2, <2>2, <2>3, <2>4
<1>3. ASSUME p.page = "failed", p.key.view \in ListViews, loc = ListAt(p.key.view, p.key.arg)
      PROVE  Place(loc)
  <2>1. IsNormal(p.key.view, p.key.arg)
    BY <1>3 DEF PageType, Asked
  <2>2. IsRaw(p.key.arg)
    BY <1>3, <2>1, NormalIsRaw
  <2> QED
    BY <1>3, <2>2, ListPlaces
<1>4. \/ loc \in Menu \/ loc = At("overview", <<>>) \/ loc = location
      \/ /\ p.page = "shown" /\ p.key.view \in ListViews
         /\ loc \in FormTargets(p.key.view) \cup PagerTargets(p) \cup RowTargets(p)
      \/ p.page = "failed" /\ p.key.view \in ListViews /\ loc = ListAt(p.key.view, p.key.arg)
  BY DEF Targets
<1>5. Place(At("overview", <<>>))
  BY LocationsAssumption DEF At, Place
<1> QED
  BY <1>1, <1>2, <1>3, <1>4, <1>5

\* A page made at once is about what its location asks for.
LEMMA AtOnceTyped ==
    ASSUME NEW loc, NEW cached, NEW store, NEW label, NEW p, Place(loc),
           \A key \in DOMAIN cached : Asked(key) /\ cached[key].value \in Answers,
           store \in [DOMAIN MockStatus -> Statuses],
           \A key \in DOMAIN cached : Entry(cached[key]),
           p = PageAtOnce(loc, cached, store, label)
    PROVE  PageType(p)
<1>1. Asked(p.key)
  BY AtOnce, PlacesAsk
<1>2. ASSUME p.page = "shown" PROVE p.value \in Answers
  <2>1. CASE InConsole(loc) /\ Override(loc) = "on" /\ MockKnows(Key(loc))
    <3>1. p = Shown(Key(loc), Value("mock", Key(loc).view, store), "mock", FALSE, FALSE, FALSE)
      BY <2>1 DEF PageAtOnce, InConsole, MockPage
    <3> QED
      BY <3>1 DEF Shown, Value, Answers
  <2>2. CASE InConsole(loc) /\ Override(loc) = "on" /\ ~MockKnows(Key(loc))
    <3>1. p = Failed(Key(loc), FALSE)
      BY <2>2 DEF PageAtOnce, InConsole, MockPage
    <3> QED
      BY <1>2, <3>1 DEF Failed
  <2>3. CASE InConsole(loc) /\ Override(loc) # "on"
    BY <1>2, <2>3, AtOnce
  <2>4. CASE ~InConsole(loc)
    BY <1>2, <2>4 DEF PageAtOnce, InConsole
  <2> QED
    BY <2>1, <2>2, <2>3, <2>4
<1> QED
  BY <1>1, <1>2 DEF PageType

\* Marking a load does not change what it is for or what it brings.
LEMMA MarkingTyped ==
    ASSUME NEW calls, NEW x \in Calls, Request(calls[x]), RequestType(calls[x])
    PROVE  RequestType(Late(calls)[x]) /\ RequestType(Superseded(calls)[x])
<1>1. CASE calls[x].kind = "load"
  <2>1. calls[x] = [kind |-> "load", outcome |-> calls[x].outcome, key |-> calls[x].key,
                    value |-> calls[x].value, late |-> calls[x].late,
                    superseded |-> calls[x].superseded]
    BY <1>1 DEF Request, NoCall
  <2>2. Late(calls)[x] = [calls[x] EXCEPT !.late = TRUE]
    BY <1>1 DEF Late
  <2>3. Superseded(calls)[x] = [calls[x] EXCEPT !.superseded = TRUE]
    BY <1>1 DEF Superseded
  <2> QED
    BY <1>1, <2>1, <2>2, <2>3 DEF RequestType
<1>2. CASE calls[x].kind # "load"
  BY <1>2 DEF Late, Superseded, RequestType
<1> QED
  BY <1>1, <1>2

\* What a render leaves of the types, for every action that renders.
LEMMA RenderTyped ==
    ASSUME NEW c \in Calls, NEW loc, NEW calls, NEW cached, NEW store, NEW label,
           Render(c, loc, calls, cached, store, label), Place(loc),
           \A x \in Calls : Request(calls[x]) /\ RequestType(calls[x]),
           \A key \in DOMAIN cached : Asked(key) /\ cached[key].value \in Answers,
           \A key \in DOMAIN cached : Entry(cached[key]),
           store \in [DOMAIN MockStatus -> Statuses], label \in {"api", "mock"}
    PROVE  Place(location') /\ mode' \in {"api", "mock"} /\ RequestsType' /\ CacheType' /\ PageType(shown')
<1>1. /\ location' = loc /\ cache' = cached /\ mode' \in {"api", "mock"}
      /\ shown' = PageAtOnce(loc, cached, store, label)
      /\ call' = [Superseded(calls) EXCEPT ![c] =
                    IF shown'.page = "loading" THEN Load(Key(loc)) ELSE NoCall]
  BY DEF Render
<1>2. PageType(shown')
  BY <1>1, AtOnceTyped
<1>3. ASSUME NEW x \in Calls PROVE RequestType(call'[x])
  <2>1. CASE x = c
    <3>1. call'[x] = Load(Key(loc)) \/ call'[x] = NoCall
      BY <1>1, <2>1 DEF Superseded
    <3>2. RequestType(NoCall)
      BY DEF RequestType, NoCall
    <3>3. Load(Key(loc)).key = Key(loc) /\ Load(Key(loc)).outcome = "none"
      BY DEF Load
    <3> QED
      BY <3>1, <3>2, <3>3, PlacesAsk DEF RequestType
  <2>2. CASE x # c
    <3>1. call'[x] = Superseded(calls)[x]
      BY <1>1, <2>2 DEF Superseded
    <3> QED
      BY <3>1, MarkingTyped
  <2> QED
    BY <2>1, <2>2
<1> QED
  BY <1>1, <1>2, <1>3 DEF RequestsType, CacheType

\* One request is sent, answered or done with.
LEMMA OneRequestTyped ==
    ASSUME RequestsInv, RequestsType, NEW c \in Calls, NEW r, call' = [call EXCEPT ![c] = r],
           RequestType(r)
    PROVE  RequestsType'
BY DEF RequestsInv, RequestsType

\* A request done with has no type to keep.
LEMMA DoneTyped ==
    ASSUME RequestsInv, RequestsType, NEW c \in Calls, call' = [call EXCEPT ![c] = NoCall]
    PROVE  RequestsType'
<1>1. RequestType(NoCall)
  BY DEF RequestType, NoCall
<1> QED
  BY <1>1, OneRequestTyped

\* A typed value goes into the cache under a key that was asked for.
LEMMA StoreTyped ==
    ASSUME CacheType, NEW c \in Calls, NEW value \in Answers, Asked(call[c].key), Store(c, value)
    PROVE  CacheType'
BY DEF CacheType, Store

\* The page keeps its type when a button is disabled or enabled again.
LEMMA ButtonsTyped ==
    ASSUME Page(shown), PageType(shown), NEW buttons,
           \/ shown' = shown
           \/ shown.page = "shown" /\ shown' = [shown EXCEPT !.acking = buttons]
           \/ shown.page = "home" /\ shown' = [shown EXCEPT !.creating = buttons]
    PROVE  PageType(shown')
<1>1. CASE shown.page = "shown" /\ shown' = [shown EXCEPT !.acking = buttons]
  BY <1>1 DEF Page, PageType
<1>2. CASE shown.page = "home" /\ shown' = [shown EXCEPT !.creating = buttons]
  BY <1>2 DEF Page, PageType
<1> QED
  BY <1>1, <1>2

\* An ACK of the mock store keeps its type.
LEMMA MockTyped ==
    ASSUME NEW store, store \in [DOMAIN MockStatus -> Statuses], NEW alert
    PROVE  [store EXCEPT ![alert] = IF @ = "open" THEN "acked" ELSE @]
             \in [DOMAIN MockStatus -> Statuses]
BY DEF Statuses

\* What the user does keeps the types.
LEMMA UserTyped ==
    ASSUME ConsoleInv, TypeInv, NEW c \in Calls, User(c)
    PROVE  TypeInv'
<1>1. /\ \A x \in Calls : Request(call[x]) /\ RequestType(call[x])
      /\ \A key \in DOMAIN cache : Asked(key) /\ cache[key].value \in Answers
      /\ \A key \in DOMAIN cache : Entry(cache[key])
      /\ mock \in [DOMAIN MockStatus -> Statuses] /\ mode \in {"api", "mock"}
  BY DEF ConsoleInv, RequestsInv, CacheInv, TypeInv, RequestsType, CacheType, StoresType
<1>2. ASSUME Move PROVE moves' \in 0..MaxMoves
  BY <1>2, ConsoleBoundsAssumption DEF Move, TypeInv
<1>3. ASSUME NEW loc \in Targets(shown), Navigate(c, loc) PROVE TypeInv'
  <2>1. Place(loc)
    BY ButtonsLeadToPlaces DEF TypeInv
  <2>2. Place(location') /\ mode' \in {"api", "mock"} /\ RequestsType' /\ CacheType' /\ PageType(shown')
    BY <1>1, <1>3, <2>1, RenderTyped DEF Navigate
  <2> QED
    BY <1>2, <1>3, <2>2 DEF Navigate, TypeInv, StoresType
<1>4. CASE Back(c)
  <2>1. Place(first)
    BY TypedPlaces DEF TypeInv
  <2>2. Place(location') /\ mode' \in {"api", "mock"} /\ RequestsType' /\ CacheType' /\ PageType(shown')
    BY <1>1, <1>4, <2>1, RenderTyped DEF Back
  <2> QED
    BY <1>2, <1>4, <2>2 DEF Back, TypeInv, StoresType
<1>5. ASSUME NEW alert, ClickAck(c, alert) PROVE TypeInv'
  <2>1. moves' \in 0..MaxMoves /\ UNCHANGED <<api, sessions, first, acked>>
    BY <1>2, <1>5 DEF ClickAck
  <2>2. CASE /\ mock' = [mock EXCEPT ![alert] = IF @ = "open" THEN "acked" ELSE @]
             /\ Render(c, location, Late(call), <<>>, mock', "mock")
    <3>1. \A x \in Calls : Request(Late(call)[x]) /\ RequestType(Late(call)[x])
      BY <1>1, Marking, MarkingTyped
    <3>2. \A key \in DOMAIN <<>> : FALSE
      OBVIOUS
    <3>3. mock' \in [DOMAIN MockStatus -> Statuses]
      BY <1>1, <2>2, MockTyped
    <3>4. Place(location') /\ mode' \in {"api", "mock"} /\ RequestsType' /\ CacheType' /\ PageType(shown')
      BY <2>2, <3>1, <3>2, <3>3, RenderTyped DEF TypeInv
    <3> QED
      BY <2>1, <3>3, <3>4 DEF TypeInv, StoresType
  <2>3. CASE mode' = "mock" /\ UNCHANGED <<mock, location, cache, call, shown>>
    BY <2>1, <2>3 DEF TypeInv, StoresType, RequestsType, CacheType
  <2>4. CASE /\ call' = [call EXCEPT ![c] = [kind |-> "ack", outcome |-> "none", alert |-> alert]]
             /\ shown' = [shown EXCEPT !.acking = @ \cup {c}]
             /\ UNCHANGED <<mock, location, mode, cache>>
    <3> DEFINE r == [kind |-> "ack", outcome |-> "none", alert |-> alert]
    <3>1. RequestType(r)
      BY DEF RequestType
    <3>2. RequestsType'
      BY <2>4, <3>1, OneRequestTyped DEF ConsoleInv, TypeInv
    <3>3. PageType(shown')
      BY <1>5, <2>4, ButtonsTyped DEF ClickAck, ConsoleInv, ShownInv, TypeInv
    <3> QED
      BY <2>1, <2>4, <3>2, <3>3 DEF TypeInv, StoresType, CacheType
  <2> QED
    BY <1>5, <2>2, <2>3, <2>4 DEF ClickAck
<1>6. CASE ClickCreate(c)
  <2> DEFINE r == [kind |-> "create", outcome |-> "none", session |-> 0]
  <2>1. RequestType(r)
    BY DEF RequestType
  <2>2. RequestsType'
    BY <1>6, <2>1, OneRequestTyped DEF ClickCreate, ConsoleInv, TypeInv
  <2>3. PageType(shown')
    BY <1>6, ButtonsTyped DEF ClickCreate, ConsoleInv, ShownInv, TypeInv
  <2> QED
    BY <1>2, <1>6, <2>2, <2>3 DEF ClickCreate, TypeInv, StoresType, CacheType
<1> QED
  BY <1>3, <1>4, <1>5, <1>6 DEF User

\* The answers of the APIs are typed.
LEMMA ServeTyped ==
    ASSUME ConsoleInv, TypeInv, NEW c \in Calls, Serve(c)
    PROVE  TypeInv'
<1>1. Request(call[c]) /\ RequestType(call[c])
  BY DEF ConsoleInv, RequestsInv, TypeInv, RequestsType
<1>2. CASE ServeLoad(c)
  <2> DEFINE value == Value("api", call[c].key.view, api)
  <2>1. value \in Answers
    BY DEF Value, Answers, TypeInv, StoresType
  <2>2. call[c].kind = "load" /\ Asked(call[c].key)
    BY <1>1, <1>2 DEF ServeLoad, Sent, RequestType
  <2>3. RequestsType'
    <3>1. CASE call' = [call EXCEPT ![c].outcome = "ok", ![c].value = value]
      <4> HIDE DEF value
      <4> DEFINE ok == [call[c] EXCEPT !.outcome = "ok"]
                 r == [ok EXCEPT !.value = value]
      <4>1. call' = [call EXCEPT ![c] = r]
        BY <3>1 DEF ConsoleInv, RequestsInv
      <4>2. Request(ok) /\ ok.kind = "load" /\ ok.key = call[c].key
        BY <1>1, <2>2 DEF Request, NoCall
      <4> HIDE DEF ok
      <4>3. r.key = call[c].key /\ r.value = value
        BY <4>2 DEF Request, NoCall
      <4> HIDE DEF r
      <4>4. RequestType(r)
        BY <2>1, <2>2, <4>3 DEF RequestType
      <4> QED
        BY <4>1, <4>4, OneRequestTyped DEF ConsoleInv, TypeInv
    <3>2. ASSUME NEW outcome \in {"unavailable", "error"}, call' = [call EXCEPT ![c].outcome = outcome]
          PROVE  RequestsType'
      <4> DEFINE r == [call[c] EXCEPT !.outcome = outcome]
      <4>1. call' = [call EXCEPT ![c] = r]
        BY <3>2
      <4>2. r.key = call[c].key /\ r.outcome # "ok"
        BY <1>1, <2>2 DEF Request, NoCall
      <4> HIDE DEF r
      <4>3. RequestType(r)
        BY <2>2, <4>2 DEF RequestType
      <4> QED
        BY <4>1, <4>3, OneRequestTyped DEF ConsoleInv, TypeInv
    <3> QED
      BY <1>2, <3>1, <3>2 DEF ServeLoad
  <2> QED
    BY <1>2, <2>3 DEF ServeLoad, TypeInv, StoresType, CacheType
<1>3. CASE ServeAck(c)
  <2>1. PICK outcome : call' = [call EXCEPT ![c].outcome = outcome]
    BY <1>3 DEF ServeAck
  <2>2. RequestsType'
    <3> DEFINE r == [call[c] EXCEPT !.outcome = outcome]
    <3>1. call' = [call EXCEPT ![c] = r]
      BY <2>1
    <3>2. r.kind = "ack"
      BY <1>1, <1>3 DEF ServeAck, Sent, Request, NoCall
    <3> HIDE DEF r
    <3>3. RequestType(r)
      BY <3>2 DEF RequestType
    <3> QED
      BY <3>1, <3>3, OneRequestTyped DEF ConsoleInv, TypeInv
  <2>3. api' \in [Ids("api", "alerts") -> Statuses]
    BY <1>3 DEF ServeAck, Statuses, TypeInv, StoresType
  <2> QED
    BY <1>3, <2>2, <2>3 DEF ServeAck, TypeInv, StoresType, CacheType
<1>4. CASE ServeCreate(c)
  <2>1. PICK outcome : \/ call' = [call EXCEPT ![c].outcome = outcome, ![c].session = sessions']
                       \/ call' = [call EXCEPT ![c].outcome = outcome]
    BY <1>4 DEF ServeCreate
  <2>2. call[c].kind = "create"
    BY <1>4 DEF ServeCreate, Sent
  <2>3. RequestsType'
    <3> DEFINE once == [call[c] EXCEPT !.outcome = outcome]
               twice == [once EXCEPT !.session = sessions']
    <3>1. Request(once) /\ once.kind = "create"
      BY <1>1, <2>2 DEF Request, NoCall
    <3>2. CASE call' = [call EXCEPT ![c].outcome = outcome]
      <4>1. call' = [call EXCEPT ![c] = once]
        BY <3>2
      <4> HIDE DEF once
      <4>2. RequestType(once)
        BY <3>1 DEF RequestType
      <4> QED
        BY <4>1, <4>2, OneRequestTyped DEF ConsoleInv, TypeInv
    <3>3. CASE call' = [call EXCEPT ![c].outcome = outcome, ![c].session = sessions']
      <4>1. call' = [call EXCEPT ![c] = twice]
        BY <3>3 DEF ConsoleInv, RequestsInv
      <4> HIDE DEF once
      <4>2. twice.kind = "create"
        BY <3>1 DEF Request, NoCall
      <4> HIDE DEF twice
      <4>3. RequestType(twice)
        BY <4>2 DEF RequestType
      <4> QED
        BY <4>1, <4>3, OneRequestTyped DEF ConsoleInv, TypeInv
    <3> QED
      BY <2>1, <3>2, <3>3
  <2>4. sessions' \in Nat
    BY <1>4 DEF ServeCreate, TypeInv
  <2> QED
    BY <1>4, <2>3, <2>4 DEF ServeCreate, TypeInv, StoresType, CacheType
<1> QED
  BY <1>2, <1>3, <1>4 DEF Serve

\* So are the cache and the page when a load has come back.
LEMMA LoadsTyped ==
    ASSUME ConsoleInv, TypeInv, NEW c \in Calls, LoadReturns(c) \/ LoadFallsBack(c) \/ LoadFails(c)
    PROVE  TypeInv'
<1> DEFINE load == call[c]
<1>1. load.kind = "load" /\ Asked(load.key) /\ (load.outcome = "ok" => load.value \in Answers)
  BY DEF LoadReturns, LoadFallsBack, LoadFails, Answered, TypeInv, RequestsType, RequestType
<1>2. RequestsType'
  BY DoneTyped DEF LoadReturns, LoadFallsBack, LoadFails, ConsoleInv, TypeInv
<1>3. CASE LoadReturns(c)
  <2>1. load.value \in Answers /\ Store(c, load.value)
    BY <1>1, <1>3 DEF LoadReturns
  <2>2. CacheType'
    BY <1>1, <2>1, StoreTyped DEF TypeInv
  <2>3. shown' = Shown(load.key, load.value, "api", FALSE, load.late, load.superseded)
    BY <1>3 DEF LoadReturns
  <2>4. PageType(shown')
    BY <1>1, <2>1, <2>3 DEF PageType, Shown
  <2> QED
    BY <1>2, <1>3, <2>2, <2>4 DEF LoadReturns, TypeInv, StoresType
<1>4. CASE LoadFallsBack(c)
  <2> DEFINE value == Value("mock", load.key.view, mock)
             p == MockPage(load.key, mock, load.superseded)
  <2>1. value \in Answers
    BY DEF Value, Answers, TypeInv, StoresType
  <2> HIDE DEF value
  <2>2. CASE MockKnows(load.key)
    <3>1. Store(c, value)
      BY <1>4, <2>2 DEF LoadFallsBack, value
    <3>2. p = Shown(load.key, value, "mock", FALSE, FALSE, load.superseded)
      BY <2>2 DEF MockPage, value
    <3>3. PageType(p)
      BY <1>1, <2>1, <3>2 DEF PageType, Shown
    <3>4. CacheType'
      BY <1>1, <2>1, <3>1, StoreTyped DEF TypeInv
    <3> QED
      BY <1>2, <1>4, <3>3, <3>4 DEF LoadFallsBack, TypeInv, StoresType
  <2>3. CASE ~MockKnows(load.key)
    <3>1. p = Failed(load.key, load.superseded)
      BY <2>3 DEF MockPage
    <3>2. PageType(p)
      BY <1>1, <3>1 DEF PageType, Failed
    <3> QED
      BY <1>2, <1>4, <2>3, <3>2 DEF LoadFallsBack, TypeInv, StoresType, CacheType
  <2> QED
    BY <2>2, <2>3
<1>5. CASE LoadFails(c)
  <2>1. shown' = Failed(load.key, load.superseded)
    BY <1>5 DEF LoadFails
  <2>2. PageType(shown')
    BY <1>1, <2>1 DEF PageType, Failed
  <2> QED
    BY <1>2, <1>5, <2>2 DEF LoadFails, TypeInv, StoresType, CacheType
<1> QED
  BY <1>3, <1>4, <1>5

\* So is what an ACK or a create that came back leaves.
LEMMA ContinueTyped ==
    ASSUME ConsoleInv, TypeInv, NEW c \in Calls, Continue(c)
    PROVE  TypeInv'
<1>1. /\ \A x \in Calls : Request(call[x]) /\ RequestType(call[x])
      /\ \A key \in DOMAIN cache : Asked(key) /\ cache[key].value \in Answers
      /\ \A key \in DOMAIN cache : Entry(cache[key])
      /\ mock \in [DOMAIN MockStatus -> Statuses] /\ mode \in {"api", "mock"}
  BY DEF ConsoleInv, RequestsInv, CacheInv, TypeInv, RequestsType, CacheType, StoresType
<1>2. \A x \in Calls : Request(Late(call)[x]) /\ RequestType(Late(call)[x])
  BY <1>1, Marking, MarkingTyped
<1>3. \A key \in DOMAIN <<>> : FALSE
  OBVIOUS
<1>4. CASE AckReturns(c)
  <2>1. Place(location') /\ mode' \in {"api", "mock"} /\ RequestsType' /\ CacheType' /\ PageType(shown')
    BY <1>1, <1>2, <1>3, <1>4, RenderTyped DEF AckReturns, TypeInv
  <2> QED
    BY <1>4, <2>1 DEF AckReturns, TypeInv, StoresType
<1>5. CASE AckFallsBack(c)
  <2>1. mock' \in [DOMAIN MockStatus -> Statuses]
    BY <1>1, <1>5, MockTyped DEF AckFallsBack
  <2>2. Place(location') /\ mode' \in {"api", "mock"} /\ RequestsType' /\ CacheType' /\ PageType(shown')
    BY <1>2, <1>3, <1>5, <2>1, RenderTyped DEF AckFallsBack, TypeInv
  <2> QED
    BY <1>5, <2>1, <2>2 DEF AckFallsBack, TypeInv, StoresType
<1>6. CASE AckFails(c)
  <2>1. RequestsType'
    BY <1>6, DoneTyped DEF AckFails, ConsoleInv, TypeInv
  <2>2. PageType(shown')
    BY <1>6, ButtonsTyped DEF AckFails, ConsoleInv, ShownInv, TypeInv
  <2>3. mode' \in {"api", "mock"}
    BY <1>1, <1>6 DEF AckFails
  <2> QED
    BY <1>6, <2>1, <2>2, <2>3 DEF AckFails, TypeInv, StoresType, CacheType
<1>7. CASE CreateReturns(c)
  <2>1. Place(At("session", call[c].session))
    BY LocationsAssumption DEF At, Place
  <2>2. Place(location') /\ mode' \in {"api", "mock"} /\ RequestsType' /\ CacheType' /\ PageType(shown')
    BY <1>1, <1>7, <2>1, RenderTyped DEF CreateReturns
  <2> QED
    BY <1>7, <2>2 DEF CreateReturns, TypeInv, StoresType
<1>8. CASE CreateFails(c)
  <2>1. RequestsType'
    BY <1>8, DoneTyped DEF CreateFails, ConsoleInv, TypeInv
  <2>2. PageType(shown')
    BY <1>8, ButtonsTyped DEF CreateFails, ConsoleInv, ShownInv, TypeInv
  <2> QED
    BY <1>8, <2>1, <2>2 DEF CreateFails, TypeInv, StoresType, CacheType
<1> QED
  BY <1>4, <1>5, <1>6, <1>7, <1>8, LoadsTyped DEF Continue

\* A document just loaded is typed.
LEMMA InitTyped ==
    ASSUME Init PROVE TypeInv
<1>1. StoresType
  BY MockAssumption DEF Init, StoresType, Statuses
<1>2. Place(location) /\ first \in Typed
  BY TypedPlaces DEF Init
<1>3. \A key \in DOMAIN <<>> : FALSE
  OBVIOUS
<1>4. MockStatus \in [DOMAIN MockStatus -> Statuses]
  BY MockAssumption DEF Statuses
<1>5. PageType(shown)
  BY <1>2, <1>3, <1>4, AtOnceTyped DEF Init
<1>6. ASSUME NEW c \in Calls PROVE RequestType(call[c])
  <2>1. call[c] = Load(Key(location)) \/ call[c] = NoCall
    BY DEF Init
  <2>2. RequestType(NoCall)
    BY DEF RequestType, NoCall
  <2>3. Load(Key(location)).key = Key(location) /\ Load(Key(location)).outcome = "none"
    BY DEF Load
  <2> QED
    BY <1>2, <2>1, <2>2, <2>3, PlacesAsk DEF RequestType
<1> QED
  BY <1>1, <1>2, <1>3, <1>5, <1>6, ConsoleBoundsAssumption
  DEF Init, TypeInv, RequestsType, CacheType

\* Time and other users change no type.
LEMMA OthersTyped ==
    ASSUME TypeInv, Tick \/ \E alert \in DOMAIN api : Progress(alert)
    PROVE  TypeInv'
<1>1. CASE Tick
  <2>1. CacheType'
    <3> SUFFICES ASSUME NEW key \in DOMAIN cache
                 PROVE  Asked(key) /\ cache'[key].value \in Answers
      BY <1>1 DEF Tick, CacheType
    <3>1. Asked(key) /\ cache[key].value \in Answers
      BY DEF TypeInv, CacheType
    <3>2. cache'[key] = [cache[key] EXCEPT !.left = IF @ > 0 THEN @ - 1 ELSE 0]
      BY <1>1 DEF Tick
    <3>3. cache'[key].value = cache[key].value
      BY <3>2
    <3> QED
      BY <3>1, <3>3
  <2> QED
    BY <1>1, <2>1 DEF Tick, TypeInv, StoresType, RequestsType
<1>2. CASE \E alert \in DOMAIN api : Progress(alert)
  <2>1. api' \in [Ids("api", "alerts") -> Statuses]
    BY <1>2 DEF Progress, TypeInv, StoresType, Statuses
  <2> QED
    BY <1>2, <2>1 DEF Progress, TypeInv, StoresType, RequestsType, CacheType
<1> QED
  BY <1>1, <1>2

\* Every reachable state of the console is well typed, and satisfies ConsoleInv.
LEMMA ConsoleTypeInvariant == Spec => [](ConsoleInv /\ TypeInv)
<1>1. Init => TypeInv
  BY InitTyped
<1>2. ConsoleInv /\ TypeInv /\ [Next]_vars => TypeInv'
  <2> SUFFICES ASSUME ConsoleInv, TypeInv, [Next]_vars PROVE TypeInv'
    OBVIOUS
  <2>1. ASSUME UNCHANGED vars PROVE TypeInv'
    BY <2>1 DEF vars, TypeInv, StoresType, RequestsType, CacheType
  <2> QED
    BY <2>1, UserTyped, ServeTyped, ContinueTyped, OthersTyped DEF Next
<1> QED
  BY <1>1, <1>2, ConsoleInvariant, PTL DEF Spec

\* Every variable keeps its type, and every query that is asked for, cached or
\* shown is one its URL is read back as.
THEOREM ConsoleTypes == Spec => []TypeOK
<1>1. ConsoleInv /\ TypeInv => TypeOK
  <2> SUFFICES ASSUME ConsoleInv, TypeInv PROVE TypeOK
    OBVIOUS
  <2>1. Values = Answers
    BY DEF Values, Answers, TypeInv, StoresType
  <2>2. \A key : Asked(key) => (key.view \in ListViews =>
            key.arg = NormalizeQuery(key.view, BuildQueryString(key.arg)))
    BY NormalSurvivesTheUrl DEF Asked
  <2>3. \A key \in DOMAIN cache :
          /\ Asked(key) /\ cache[key].value \in Answers
          /\ cache[key].left \in 0..TTL /\ cache[key].late \in BOOLEAN
    BY DEF ConsoleInv, CacheInv, Entry, TypeInv, CacheType
  <2>4. \A c \in Calls : call[c].kind = "load" => Asked(call[c].key)
    BY DEF TypeInv, RequestsType, RequestType
  <2>5. shown.page = "shown" => Asked(shown.key) /\ shown.value \in Answers
    BY DEF TypeInv, PageType
  <2>6. acked \subseteq DOMAIN api
    BY DEF ConsoleInv, AckedInv
  <2> QED
    BY <2>1, <2>2, <2>3, <2>4, <2>5, <2>6 DEF TypeOK, TypeInv, StoresType, Place
<1> QED
  BY <1>1, ConsoleTypeInvariant, PTL

-----------------------------------------------------------------------------
(* The pager *)

\* A list page has a normal query and the rows of a store.
LEMMA ListPageFacts ==
    ASSUME TypeInv, shown.page = "shown", shown.key.view \in ListViews
    PROVE  /\ IsNormal(shown.key.view, shown.key.arg)
           /\ shown.key.arg = [f \in DOMAIN shown.key.arg |-> shown.key.arg[f]]
           /\ StoredRows(Items[shown.value.source][shown.key.view])
<1>1. Asked(shown.key) /\ shown.value \in Answers
  BY DEF TypeInv, PageType
<1>2. shown.value.source \in {"api", "mock"}
  BY <1>1 DEF Answers
<1>3. StoredRows(Items[shown.value.source][shown.key.view])
  BY <1>2, ItemsAssumption DEF StoredRows
<1> QED BY <1>1, <1>3 DEF Asked

\* However long the lists are, whatever was typed, filtered or kept in a URL:
\* the pages the pager leads to hold every matching row once and in order, and
\* only a page number beyond the end shows none of them (renderPlatformRuns,
\* renderPlatformAlerts).
THEOREM ThePagerListsEveryRow == Spec => []PagerListsEveryRow
<1>1. TypeInv => PagerListsEveryRow
  <2> SUFFICES ASSUME TypeInv, shown.page = "shown", shown.key.view \in ListViews
               PROVE  PagerListsEveryRow
    BY DEF PagerListsEveryRow
  <2> DEFINE view == shown.key.view
             query == shown.key.arg
             items == Items[shown.value.source][view]
             all == Matching(view, items, query)
             size == query.pageSize
             at(n) == ApplyFilter(view, items, BuildQueryString([query EXCEPT !.page = n]))
  <2>1. /\ IsNormal(view, query) /\ query = [f \in DOMAIN query |-> query[f]]
        /\ StoredRows(items)
    BY ListPageFacts
  <2>2. size \in Nat \ {0} /\ query.page \in Nat \ {0}
    BY <2>1, PageSizeAssumption DEF IsNormal
  <2>3. Rows(shown) = ApplyFilter(view, items, query)
    BY DEF Rows
  <2> HIDE DEF view, query, items
  <2>4. PICK S : all \in Seq(S) /\ \A i, j \in DOMAIN all : all[i] = all[j] => i = j
    BY <2>1, MatchingIsDistinct
  <2>5. Len(all) \in Nat
    BY <2>4
  <2>6. view \in ListViews
    BY DEF view
  <2>7. ASSUME NEW n \in Nat \ {0}
        PROVE  at(n).items = PageRows(all, size, n)
    BY <2>1, <2>6, PageAsked
  <2>8. Rows(shown).items = PageRows(all, size, query.page)
    <3>1. NormalizeQuery(view, query) = query
      BY <2>1, <2>6, NormalIsItsOwn
    <3>2. ApplyFilter(view, items, query).items = PageRows(all, size, query.page)
      BY <3>1 DEF ApplyFilter, PageRows
    <3> QED BY <2>3, <3>2
  <2> HIDE DEF all, size, at
  <2>9. ASSUME NEW i \in DOMAIN all, NEW n \in 1..TotalPages(Len(all), query)
        PROVE  (\E j \in DOMAIN at(n).items : at(n).items[j] = all[i])
                 <=> (i - 1) \div size = n - 1
    <3>1. n \in Nat \ {0}
      OBVIOUS
    <3>2. (\E j \in DOMAIN PageRows(all, size, n) : PageRows(all, size, n)[j] = all[i])
            <=> (i - 1) \div size = n - 1
      BY <2>2, <2>4, <3>1, PageOfList
    <3> QED BY <2>7, <3>1, <3>2
  <2>10. ASSUME Rows(shown).items = <<>>, all # <<>>
         PROVE  query.page > TotalPages(Len(all), query)
    <3>1. Len(all) # 0 /\ Len(all) <= (query.page - 1) * size
      <4>1. Len(all) # 0
        BY <2>4, <2>10
      <4>2. Len(all) <= (query.page - 1) * size
        BY <2>2, <2>4, <2>8, <2>10, PageOfList
      <4> QED BY <4>1, <4>2
    <3>2. TotalPages(Len(all), query) = (Len(all) + size - 1) \div size
      BY <3>1 DEF TotalPages, size
    <3>3. (Len(all) + size - 1) \div size \in Int
      BY <2>2, <2>5, Quotient, Len(all) + size - 1 \in Nat
    <3>4. SUFFICES ASSUME query.page <= (Len(all) + size - 1) \div size PROVE FALSE
      BY <2>2, <3>2, <3>3
    <3>5. (query.page - 1) * size < Len(all)
      BY <2>2, <2>5, <3>1, <3>4, PageWithinTotal
    <3> QED BY <2>2, <2>5, <3>1, <3>5
  <2> QED
    BY <2>9, <2>10 DEF PagerListsEveryRow, view, query, items, all, size, at
<1> QED
  BY <1>1, ConsoleTypeInvariant, PTL
=============================================================================
