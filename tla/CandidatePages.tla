--------------------------- MODULE CandidatePages ---------------------------
(***************************************************************************)
(* The candidate window: the page table of decoding_info.cpp, the page and *)
(* the cursor of candidate_view.cpp, and SCIM's lookup table, which turns  *)
(* its pages on its own.                                                   *)
(*                                                                         *)
(* Everything is one record c; an operator is one function of the classes, *)
(* from the record before the call to the record after it.                 *)
(*   total, cached   m_total_choices_num, size of m_candidates_list        *)
(*   start           m_page_start; start[p + 1] is where page p begins     *)
(*   page, cand      m_page_no, m_cand_in_page                             *)
(*   size            m_page_size                                           *)
(*   table, lit      SCIM's lookup table: where its page begins, and the   *)
(*                   candidate it highlights                               *)
(* Pages and candidates are counted from 0, as in the code.                *)
(***************************************************************************)
EXTENDS Integers, Sequences

CONSTANTS
    FetchMax,   \* MAX_PAGE_SIZE_DISPLAY: candidates fetched at a time
    TableSize   \* page size of SCIM's table, and of the view at first: 9

ASSUME PagesAssumption ==
    /\ TableSize \in Nat \ {0}
    /\ FetchMax \in Nat /\ FetchMax > TableSize

Smaller(a, b) == IF a < b THEN a ELSE b

(* Before the first show_page there is no page; reset_candidates and show_page
   have run when the first candidate appears. *)
NoPages == [total |-> 0, cached |-> 0, start |-> <<0>>,
            page |-> -1, cand |-> 0, size |-> TableSize, table |-> 0, lit |-> 0]

ResetCandidates(c) == [c EXCEPT !.total = 0, !.cached = 0, !.start = <<0>>]

GetCandidatesForCache(c) ==
    [c EXCEPT !.cached = @ + Smaller(c.total - @, FetchMax)]

-----------------------------------------------------------------------------
PageReady(c, p) == p >= 0 /\ Len(c.start) > p + 1

CurrentPageSize(c, p) == IF PageReady(c, p) THEN c.start[p + 2] - c.start[p + 1] ELSE 0

CurrentPageStart(c, p) == IF Len(c.start) < p + 1 THEN c.total ELSE c.start[p + 1]

PreparePageNoFetch(c, p) == c          \* variant: shows what is there

PreparePageIfEmpty(c, p) ==            \* variant: fetches when nothing is left
    IF Len(c.start) = p + 1 /\ c.cached = c.start[p + 1] THEN GetCandidatesForCache(c) ELSE c

(* prepare_page fetches when the page's end is unknown and less than
   FetchMax candidates are there for it ... *)
PreparePage(c, p) ==
    IF Len(c.start) = p + 1 /\ c.cached - c.start[p + 1] < FetchMax
    THEN GetCandidatesForCache(c) ELSE c

(* ... and answers whether there is anything to show. *)
HasPage(c, p) ==
    Len(c.start) > p /\ (PageReady(c, p) \/ c.start[p + 1] < PreparePage(c, p).cached)

(* calculate_page: the pages up to p, of `size` candidates each, the last one
   as far as candidates have been fetched. *)
CalculatePage(c, p) ==
    LET known == Len(c.start)
    IN  [c EXCEPT !.start = @ \o [k \in 1..p + 2 - known |->
                                     Smaller(c.start[known] + k * c.size, c.cached)]]

(* show_page: the cursor stays where it was in the page, unless the page is
   shorter by more than one. *)
ShowPage(c, p, cand) ==
    LET shown == CalculatePage(c, p)
        n     == CurrentPageSize(shown, p)
    IN  [shown EXCEPT !.page = p, !.cand = IF n < cand THEN n - 1 ELSE cand]

-----------------------------------------------------------------------------
(* SCIM's table: pages of TableSize over number_of_candidates(), with a cursor
   of its own that pulls the page along. *)
TablePageDown(c) ==
    IF c.table + TableSize < c.total
    THEN [c EXCEPT !.table = @ + TableSize, !.lit = Smaller(@ + TableSize, c.total - 1)]
    ELSE c

TablePageUp(c) ==
    IF c.table > 0 THEN [c EXCEPT !.table = @ - TableSize, !.lit = @ - TableSize] ELSE c

TableCursorUp(c) ==
    IF c.lit = 0 THEN c
    ELSE [c EXCEPT !.lit = @ - 1, !.table = IF c.lit = @ THEN @ - TableSize ELSE @]

TableCursorDown(c) ==
    IF c.lit + 1 >= c.total THEN c
    ELSE [c EXCEPT !.lit = @ + 1,
                   !.table = IF c.lit + 1 = @ + TableSize THEN @ + TableSize ELSE @]

TableClear(c) == [c EXCEPT !.table = 0, !.lit = 0]

PageUp(c) == IF c.page = 0 THEN c ELSE TablePageUp(ShowPage(c, c.page - 1, c.cand))

PageDown(c) ==
    LET ready == PreparePage(c, c.page + 1)
    IN  IF HasPage(c, c.page + 1)
        THEN TablePageDown(ShowPage(ready, c.page + 1, c.cand)) ELSE ready

(* cursor_left and cursor_right: within the page, else to the next page. *)
CursorLeft(c) ==
    IF c.cand > 0 THEN TableCursorUp(ShowPage(c, c.page, c.cand - 1)) ELSE PageUp(c)

CursorRight(c) ==
    IF c.cand + 1 < CurrentPageSize(c, c.page)
    THEN TableCursorDown(ShowPage(c, c.page, c.cand + 1)) ELSE PageDown(c)

ShowCandidates(c) == ShowPage(TableClear(c), 0, 0)

ActiveCandidate(c) == CurrentPageStart(c, c.page) + c.cand
=============================================================================
