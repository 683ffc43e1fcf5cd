------------------------------- MODULE Paging -------------------------------
(***************************************************************************)
(* Offset paging (PageCursor in crates/analogconnectd/src/conversations.rs *)
(* and its use by the list handlers of lib.rs), and a client that walks a  *)
(* list by following next_cursor.  A cursor is an offset: the daemon keeps *)
(* nothing between two pages, and the list may change in between.          *)
(*                                                                         *)
(* The walk is the client (external); steady and departed are history.     *)
(* A request that is refused before the list is read changes nothing and   *)
(* is left out, but for the cursor that is too large for its list.         *)
(***************************************************************************)
EXTENDS Integers, Sequences, FiniteSets, SequencesExt

CONSTANTS
  MaxPageSize,      \* MAX_PAGE_SIZE
  MaxCursorOffset,  \* MAX_CURSOR_OFFSET: what a cursor can hold
  MaxOffset,        \* u16::MAX: the offset search_names_page and messages_for take
  MaxDeparted       \* bound: departures are counted up to here

ASSUME PagingAssumption ==
  /\ MaxPageSize \in Nat \ {0} /\ MaxCursorOffset \in Nat \ {0}
  /\ MaxOffset \in Nat /\ MaxDeparted \in Nat \ {0}

VARIABLE walk

\* state:    "none", "open" while there is a next page, "complete" after the
\*           last page; a walk whose cursor or id is refused is over: "none"
\* offset:   of the cursor for the next page
\* seen:     the items of the pages so far
\* steady:   the items that were in the list when the walk began and have not
\*           left it or changed their place among the others since; of them,
\*           once the walk is complete, those it missed
\* departed: how many items have left or gone down the list since
NoWalk == [state |-> "none", offset |-> 0, seen |-> {}, steady |-> {}, departed |-> 0]

-----------------------------------------------------------------------------
\* page_limit
Limits == 1..MaxPageSize

\* The rows of a list: the members of a set in an order, which is given as the
\* pairs of those that come before each other.
Ordered(members, order) ==
  LET places == {<<Cardinality({y \in members : <<y, x>> \in order}) + 1, x>> : x \in members}
  IN  [i \in 1..Cardinality(members) |-> (CHOOSE p \in places : p[1] = i)[2]]

Least(a, b) == IF a < b THEN a ELSE b

\* The rows start..end of a page.
Slice(rows, offset, limit) ==
  SubSeq(rows, Least(offset, Len(rows)) + 1, Least(offset + limit, Len(rows)))

\* Seeded fault: the row that was fetched to see whether there are more is
\* counted too.
AdvancePastPage(offset, count) == Least(offset + count + 1, MaxCursorOffset)

\* PageCursor::advance
Advance(offset, count) == Least(offset + count, MaxCursorOffset)

-----------------------------------------------------------------------------
\* The first page of a walk is read from a list.
Begun(rows) == [NoWalk EXCEPT !.state = "open", !.steady = ToSet(rows)]

\* The client has a page; no next_cursor ends the walk.  Of a walk that is
\* complete only what it missed is kept, and what departed if there is any.
Turned(w, items, more) ==
  LET seen   == w.seen \cup ToSet(items)
      missed == w.steady \ seen
  IN  IF more
      THEN [w EXCEPT !.seen = seen, !.offset = Advance(@, Len(items))]
      ELSE [NoWalk EXCEPT !.state = "complete", !.steady = missed,
                          !.departed = IF missed = {} THEN 0 ELSE w.departed]

\* The list changes while a walk is open.
Disturbed(w, moved, gone) ==
  IF w.state = "open"
  THEN [w EXCEPT !.steady = @ \ moved, !.departed = Least(@ + gone, MaxDeparted)]
  ELSE w

-----------------------------------------------------------------------------
\* A walk that has come to the end of a list that changed under it has shown
\* every item that stayed where it was, except at most one for every item that
\* left the list or went down in it meanwhile: rows that are inserted, and the
\* daemon's restart, never make it skip any.
MissedAtMostDeparted ==
  walk.state = "complete" => Cardinality(walk.steady) <= walk.departed
=============================================================================
