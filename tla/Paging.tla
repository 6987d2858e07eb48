------------------------------- MODULE Paging -------------------------------
(***************************************************************************)
(* Walking a paged list with GetOpenOrders and SearchPositions             *)
(* (polymarket/polymarket.go).  The server cuts the list into pages of a   *)
(* fixed size as it is when a page is asked for; a cursor is the number of *)
(* items before its page.  Both APIs mark the ends differently:            *)
(* GetOpenOrders starts at MA== and ends when the server answers LTE=; for *)
(* SearchPositions the empty string is both the first page, as an          *)
(* argument, and the end, as a result.                                     *)
(*                                                                         *)
(* The caller repeats calls that fail, and pages on with the cursor that   *)
(* SearchPositions writes back.  What changes the lists meanwhile is up to *)
(* the module that extends this one.                                       *)
(***************************************************************************)
EXTENDS Integers, Sequences, SequencesExt

CONSTANTS
  PageSizes,  \* page sizes of the server
  MaxFails    \* bound: failed requests

ASSUME PagesAssumption == MaxFails \in Nat /\ PageSizes \subseteq Nat \ {0} /\ PageSizes # {}

VARIABLES
  lists,            \* lists[api]: the items on the server
  pageSize,         \* items per page
  api,              \* the list that is walked, "orders" or "positions"
  onlyFirstPage,    \* the argument
  nextCursor,       \* the caller's cursor, passed by reference
  walk,             \* "before", "caller", "loop", "sent", "done" or "refused"
  cursor,           \* the local cursor of the call
  request,          \* parameters of the request under way
  items,            \* what the call has collected
  collected,        \* what the caller has
  fails,            \* failed requests
  expected,         \* history: what there was to collect when the walk began
  changed, shrank   \* history: the list was changed, or lost an item, since

arguments == <<pageSize, api, onlyFirstPage>>
walkHistory == <<expected, changed, shrank>>
callVars == <<nextCursor, cursor, request, items, collected, fails>>
walkVars == <<arguments, walk, callVars, walkHistory>>

Apis == {"orders", "positions"}
FirstCursor == 0     \* MA==
LastCursor == -1     \* LTE=
NoCursor == -2    \* ""
NoRequest == [cursor |-> NoCursor, anchor |-> FALSE, filters |-> FALSE]

list == lists[api]
OneOrdersPage == api = "orders" /\ onlyFirstPage
Walking == walk \in {"caller", "loop", "sent"}

WalkInit ==
  /\ pageSize \in PageSizes
  /\ api = "orders" /\ onlyFirstPage = FALSE
  /\ nextCursor = FirstCursor /\ walk = "before" /\ cursor = FirstCursor /\ request = NoRequest
  /\ items = <<>> /\ collected = <<>> /\ fails = 0
  /\ expected = <<>> /\ changed = FALSE /\ shrank = FALSE

-----------------------------------------------------------------------------
(***************************************************************************)
(* A caller starts at the beginning (a nil cursor, MA== or the empty       *)
(* string) or at a page it knows, and asks for all pages or for one.       *)
(* SearchPositions says where a single page ends; GetOpenOrders keeps that *)
(* to itself, and has a single page only at the beginning.  It refuses to  *)
(* work without credentials.                                               *)
(***************************************************************************)
StartsAt(a) ==
  {IF a = "orders" THEN FirstCursor ELSE NoCursor} \cup {k \in 1..Len(lists[a]) - 1 : k % pageSize = 0}

FirstPage(s) == SubSeq(s, 1, Min({pageSize, Len(s)}))

AskedFor(a, only, k) ==
  IF a = "orders" /\ only THEN IF k = FirstCursor THEN FirstPage(lists[a]) ELSE <<>>
  ELSE SubSeq(lists[a], IF k = NoCursor THEN 1 ELSE k + 1, Len(lists[a]))

BeginWalk(hasCLOBAuth) ==
  /\ walk = "before"
  /\ \E a \in Apis, only \in BOOLEAN :
       /\ api' = a /\ onlyFirstPage' = only
       /\ \E k \in StartsAt(a) : nextCursor' = k /\ expected' = AskedFor(a, only, k)
       /\ walk' = IF a = "orders" /\ ~hasCLOBAuth THEN "refused" ELSE "caller"
  /\ UNCHANGED <<pageSize, cursor, request, items, collected, fails, changed, shrank>>

Call ==
  /\ walk = "caller"
  /\ cursor' = nextCursor /\ items' = <<>>
  /\ walk' = "loop"
  /\ UNCHANGED <<arguments, nextCursor, request, collected, fails, walkHistory>>

(***************************************************************************)
(* The loop of GetOpenOrders is entered unless the last answer was LTE=,   *)
(* and for a single page only at MA==; that of SearchPositions always.     *)
(***************************************************************************)
MorePages_UntilEmpty == api = "positions" \/ cursor # NoCursor

MorePages == api = "positions" \/ (cursor # LastCursor /\ (cursor = FirstCursor \/ ~onlyFirstPage))

(***************************************************************************)
(* GetOpenOrders sends its parameters with every page, SearchPositions the *)
(* anchor with every page and the filters with the first one only.         *)
(***************************************************************************)
Params_AllFilters == [cursor |-> cursor, anchor |-> TRUE, filters |-> TRUE]

Params ==
  [cursor |-> cursor, anchor |-> TRUE, filters |-> api = "orders" \/ cursor = NoCursor]

Send ==
  /\ walk = "loop" /\ MorePages
  /\ request' = Params
  /\ walk' = "sent"
  /\ UNCHANGED <<arguments, nextCursor, cursor, items, collected, fails, walkHistory>>

(***************************************************************************)
(* The server: positions with a cursor and filters at once are not found,  *)
(* and need the anchor.                                                    *)
(***************************************************************************)
Offset(r) == IF r.cursor \in {FirstCursor, NoCursor} THEN 0 ELSE IF r.cursor = LastCursor THEN Len(list) ELSE r.cursor

Found(r) == r.anchor /\ (api = "positions" /\ r.cursor # NoCursor => ~r.filters)

Page(r) == IF Found(r) THEN SubSeq(list, Offset(r) + 1, Min({Offset(r) + pageSize, Len(list)})) ELSE <<>>

NextOf(r) ==
  IF Found(r) /\ Offset(r) + pageSize < Len(list) THEN Offset(r) + pageSize
  ELSE IF api = "orders" THEN LastCursor ELSE NoCursor

(***************************************************************************)
(* GetOpenOrders returns a copy of what it collected; SearchPositions      *)
(* writes the cursor back.                                                 *)
(***************************************************************************)
Finish(all, c) ==
  /\ collected' = collected \o all
  /\ nextCursor' = IF api = "positions" THEN c ELSE nextCursor
  /\ walk' = IF api = "positions" /\ onlyFirstPage /\ c # NoCursor THEN "caller" ELSE "done"
  /\ items' = <<>>
  /\ UNCHANGED <<arguments, fails, walkHistory>>

Answered ==
  LET next == NextOf(request) IN
  /\ walk = "sent"
  /\ cursor' = next /\ request' = NoRequest
  /\ IF api = "positions" /\ (next = NoCursor \/ onlyFirstPage)
       THEN Finish(items \o Page(request), next)
       ELSE /\ items' = items \o Page(request)
            /\ walk' = "loop"
            /\ UNCHANGED <<arguments, nextCursor, collected, fails, walkHistory>>

LoopEnds ==
  /\ walk = "loop" /\ ~MorePages
  /\ Finish(items, cursor)
  /\ UNCHANGED <<cursor, request>>

(***************************************************************************)
(* A failed request or an item that cannot be decoded ends the call        *)
(* without a result; the caller's cursor is left alone.                    *)
(***************************************************************************)
RequestFails ==
  /\ walk = "sent" /\ fails < MaxFails
  /\ fails' = fails + 1
  /\ items' = <<>> /\ request' = NoRequest
  /\ walk' = "caller"
  /\ UNCHANGED <<arguments, nextCursor, cursor, collected, walkHistory>>

WalkStep == Call \/ Send \/ Answered \/ LoopEnds \/ RequestFails

(***************************************************************************)
(* The lists change.                                                       *)
(***************************************************************************)
ListsBecome(new) ==
  /\ lists' = new
  /\ changed' = (changed \/ (Walking /\ new[api] # list))
  /\ shrank' = (shrank \/ (Walking /\ ~(ToSet(list) \subseteq ToSet(new[api]))))
  /\ UNCHANGED <<arguments, walk, callVars, expected>>

-----------------------------------------------------------------------------
(***************************************************************************)
(* When the caller has finished it has every item from its first cursor    *)
(* on, once and in order, whatever failed and whether it fetched all pages *)
(* in one call or one page at a time; of a single page of open orders it   *)
(* has that page.  Orders that are added meanwhile make it miss none when  *)
(* it wants all; only a list that loses items can (GetOpenOrders,          *)
(* SearchPositions).                                                       *)
(***************************************************************************)
WalkComplete ==
  walk = "done" =>
    /\ ~changed => collected = expected
    /\ ~shrank /\ ~OneOrdersPage => ToSet(expected) \subseteq ToSet(collected)
=============================================================================
