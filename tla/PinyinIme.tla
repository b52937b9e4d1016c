----------------------------- MODULE PinyinIme -----------------------------
(***************************************************************************)
(* The input method: the key handlers of pinyin_ime.cpp over the surface,  *)
(* cursor and candidates of decoding_info.cpp, and the two views.          *)
(*                                                                         *)
(* The decoder is asked through PinyinDecoderService.  Its answers are     *)
(* taken from matrixsearch.cpp as sets: any segmentation it may return,    *)
(* with the fixed prefix it keeps.  The surface is its length; spelling k  *)
(* starts at starts[k], and the last element is where decoding stopped.    *)
(***************************************************************************)
EXTENDS CandidatePages, SequencesExt

CONSTANTS
    PyMax,      \* PY_STRING_MAX: the surface stays shorter by one
    MaxSpl,     \* spellings that search accepts: 9
    Counts,     \* bound of the model: how many candidates the decoder may offer
    PageSizes   \* page sizes the panel may ask for

ASSUME ImeAssumption ==
    /\ PyMax \in Nat /\ PyMax > 1
    /\ MaxSpl \in Nat \ {0} /\ Counts \subseteq Nat \ {0} /\ Counts # {}
    /\ PageSizes \subseteq 1..FetchMax

VARIABLES
    state,      \* m_ime_state
    mode,       \* m_input_mode
    status,     \* m_status of the composing view
    dec,        \* the decoder's string: len, starts, fixed, total
    info,       \* DecodingInfo: len, decoded, starts, fixed, cursor, finish, del
    cands,      \* the candidate window, see CandidatePages
    committed   \* the pieces of the surface that the last event committed

vars == <<state, mode, status, dec, info, cands, committed>>

NoDeletion == [pos |-> -1, inspl |-> FALSE]          \* m_pos_del_spl < 0
Blank == [len |-> 0, decoded |-> 0, starts |-> <<0>>, fixed |-> 0,
          cursor |-> 0, finish |-> FALSE, del |-> NoDeletion]
NoString == [len |-> 0, starts |-> <<0>>, fixed |-> 0, total |-> 0]

Spellings(d) == Len(d.starts) - 1
FixedEnd(d) == d.starts[d.fixed + 1]                 \* where the fixed part ends

-----------------------------------------------------------------------------
(* The decoder's answers. *)

(* A segmentation: 0, and then ever later places in the string. *)
Increasing(s) == \A i, j \in 1..Len(s) : i < j => s[i] < s[j]
AllStarts == {<<0>> \o s : s \in {t \in SeqOf(1..PyMax, PyMax) : Increasing(t)}}

(* prepare_candidates: nothing without a decoded string, the sentence alone
   once everything is fixed. *)
Totals(s, fixed) == IF s = <<0>> THEN {0} ELSE IF Len(s) - 1 = fixed THEN {1} ELSE Counts

(* add_char until a character does not fit: a string of len characters of
   which at least `least` decode, continuing the fixed spellings of prefix. *)
Decode(len, prefix, least) ==
    UNION {{[len |-> len, starts |-> s, fixed |-> Len(prefix) - 1, total |-> t] :
              t \in Totals(s, Len(prefix) - 1)} :
           s \in {x \in AllStarts : IsPrefix(prefix, x) /\ Last(x) \in least..len}}

(* search drops letters while there are too many spellings. *)
Truncate(d) ==
    IF Spellings(d) <= MaxSpl THEN {d}
    ELSE {x \in Decode(Last(d.starts) - 1, SubSeq(d.starts, 1, d.fixed + 1), 0) :
            Last(x.starts) = x.len /\ Spellings(x) = MaxSpl}

(* Where fixed lemmas may end after the string is cut at `cut`. *)
KeptFixed(d, cut, clear) ==
    IF d.fixed = 0 \/ cut > FixedEnd(d) \/ (cut = FixedEnd(d) /\ ~clear) THEN {d.fixed}
    ELSE {f \in 0..d.fixed - 1 : d.starts[f + 1] <= cut}

(* search: the string now has len characters and differs from the decoder's
   own at position `at`, or later when a letter repeats. *)
Search(d, len, at) ==
    LET decoded == Last(d.starts)
        Found(cut, f) == Decode(len, SubSeq(d.starts, 1, f + 1),
                                IF f = d.fixed THEN cut ELSE d.starts[f + 1])
    IN  UNION {UNION {UNION {Truncate(x) : x \in Found(cut, f)} :
                        f \in KeptFixed(d, cut, cut # decoded)} :
               cut \in Smaller(at, decoded)..decoded}

(* delsearch at a character. *)
DelChar(d, pos, clear) ==
    LET decoded == Last(d.starts)
        kept    == SubSeq(d.starts, 1, d.fixed + 1)
    IN  IF pos >= decoded
        THEN Decode(d.len - 1, kept, decoded)
        ELSE IF d.fixed > 0 /\ pos < FixedEnd(d) THEN {d}
        ELSE UNION {Decode(d.len - 1, SubSeq(d.starts, 1, f + 1), pos) :
                      f \in KeptFixed(d, pos, clear)}

(* delsearch of spelling number pos, which the callers find in the fixed part;
   what stays fixed is merged into one composing phrase. *)
DelSpelling(d, pos) ==
    LET width  == d.starts[pos + 2] - d.starts[pos + 1]
        merged == [k \in 1..d.fixed |->
                      IF k <= pos + 1 THEN d.starts[k] ELSE d.starts[k + 1] - width]
    IN  Decode(d.len - width, merged, Last(merged))

DelSearch(d, del, clear) ==
    IF del.inspl THEN DelSpelling(d, del.pos) ELSE DelChar(d, del.pos, clear)

(* choose: candidate 0 fixes the sentence, another one some more spellings. *)
Choose(d, id) ==
    IF d.starts = <<0>> THEN {d}
    ELSE IF id = 0 THEN {[d EXCEPT !.fixed = Spellings(d), !.total = 1]}
    ELSE UNION {{x \in Decode(d.len, SubSeq(d.starts, 1, f + 1), Last(d.starts)) :
                   Last(x.starts) = Last(d.starts)} : f \in d.fixed + 1..Spellings(d)}

-----------------------------------------------------------------------------
(* DecodingInfo, from the record before a call to the record after it. *)

IsSplStrFull(i) == i.len >= PyMax - 1

AddSplChar(i) == [i EXCEPT !.len = @ + 1, !.cursor = @ + 1]
AddFirstSplChar(i) == AddSplChar([i EXCEPT !.len = 0, !.decoded = 0, !.cursor = 0])

(* The fixed spelling that the cursor is in or behind. *)
FixedAtCursor(i) ==
    {p \in 0..i.fixed - 1 : i.starts[p + 1] < i.cursor /\ i.cursor <= i.starts[p + 2]}

MarkSpelling(i, p) ==
    [i EXCEPT !.del = [pos |-> p, inspl |-> TRUE], !.cursor = i.starts[p + 1]]

MarkChar(i, pos) == [i EXCEPT !.del = [pos |-> pos, inspl |-> FALSE], !.cursor = Smaller(@, pos)]

(* The spelling, or the character when no spelling is marked by now. *)
PrepareDelete(i, pos) ==
    IF FixedAtCursor(i) # {} THEN MarkSpelling(i, CHOOSE p \in FixedAtCursor(i) : TRUE)
    ELSE IF i.del.pos < 0 THEN MarkChar(i, pos) ELSE i

PrepareDeleteCharOnly(i) ==            \* variant: no whole spellings
    IF i.cursor > 0 THEN MarkChar(i, i.cursor - 1) ELSE i

PrepareDeleteBeforeCursor(i) == IF i.cursor > 0 THEN PrepareDelete(i, i.cursor - 1) ELSE i
PrepareDeleteAfterCursor(i) == IF i.cursor < i.len THEN PrepareDelete(i, i.cursor) ELSE i

UpdateKeepsDeletion(i, d) ==           \* variant: forgets the reset
    [i EXCEPT !.len = d.len, !.decoded = Last(d.starts), !.starts = d.starts,
              !.fixed = d.fixed, !.cursor = Smaller(@, d.len),
              !.finish = (Spellings(d) = d.fixed)]

(* update_for_search; the marked deletion has been done. *)
UpdateForSearch(i, d) ==
    [i EXCEPT !.len = d.len, !.decoded = Last(d.starts), !.starts = d.starts,
              !.fixed = d.fixed, !.cursor = Smaller(@, d.len),
              !.finish = (Spellings(d) = d.fixed), !.del = NoDeletion]

(* reset_candidates, then page 0 unless the selection is finished. *)
Offer(c, d, finish) ==
    LET fresh == [ResetCandidates(c) EXCEPT !.total = d.total]
    IN  IF finish THEN fresh ELSE PreparePage(fresh, 0)

ComposingLength(i) == i.fixed + i.len - FixedEnd(i)

CanDoPredictionDecoded(i) == i.finish          \* variant: forgets the rest

CanDoPrediction(i) == ComposingLength(i) = i.fixed

ResetInfo(i) == [Blank EXCEPT !.starts = i.starts, !.del = i.del]

(* move_cursor: over a whole spelling from a boundary; at 0 the unsigned
   cursor wraps and is clamped to the end. *)
MoveLeft(i) ==
    LET at == {k \in 1..Len(i.starts) : i.starts[k] = i.cursor}
    IN  IF i.cursor = 0 THEN [i EXCEPT !.cursor = i.len]
        ELSE IF at = {} THEN [i EXCEPT !.cursor = @ - 1]
        ELSE [i EXCEPT !.cursor = i.starts[(CHOOSE k \in at : TRUE) - 1]]

MoveRight(i) ==
    LET at == {k \in 1..i.fixed : i.starts[k] = i.cursor}
    IN  IF at = {} THEN [i EXCEPT !.cursor = Smaller(@ + 1, i.len)]
        ELSE [i EXCEPT !.cursor = i.starts[(CHOOSE k \in at : TRUE) + 1]]

(* The composing string on display, with a space between two spellings, and
   the cursor's place in it. *)
DisplayLength(i) ==
    LET spaces == {k \in i.fixed + 1..Spellings(i) : k # 1 /\ i.starts[k] < i.decoded}
    IN  ComposingLength(i) + Cardinality(spaces)

CursorPosInCmps(i) ==
    LET passed == Cardinality({k \in 1..i.fixed : i.cursor >= i.starts[k + 1]})
    IN  i.cursor - i.starts[passed + 1] + passed

CursorPosAllSpaces(i) ==               \* variant: counts the space before the first
    CursorPosInCmps(i) + Cardinality({k \in i.fixed + 1..Spellings(i) : i.starts[k] < i.cursor})

CursorPosInCmpsDisplay(i) ==
    LET spaces == Cardinality({k \in i.fixed + 1..Spellings(i) : i.starts[k] < i.cursor})
    IN  CursorPosInCmps(i) + IF spaces > 0 /\ i.fixed = 0 THEN spaces - 1 ELSE spaces

-----------------------------------------------------------------------------
(* The handlers' common endings. *)

Edge(i, s) == [i EXCEPT !.cursor = IF s = "INPUT" THEN i.len ELSE Smaller(@, i.len)]

StatusForOldState(s) == IF state = "INPUT" THEN "SHOW_PINYIN" ELSE "EDIT_PINYIN"   \* variant

StatusFor(s) == IF s = "INPUT" THEN "SHOW_PINYIN" ELSE "EDIT_PINYIN"

(* show_candidate_window(true) in state s. *)
ShowCandidateWindow(s, i, c) ==
    /\ state' = s
    /\ status' = StatusFor(s)
    /\ info' = Edge(i, s)
    /\ cands' = ShowCandidates(c)

ResetToIdleState(i) ==
    /\ state' = "IDLE"
    /\ status' = "SHOW_PINYIN"
    /\ info' = ResetInfo(i)
    /\ cands' = ShowCandidates(ResetCandidates(cands))

(* The state after an answer that does not end the input. *)
NextState(i) ==
    CASE state = "IDLE" -> IF i.decoded = 0 THEN "COMPOSING" ELSE "INPUT"
      [] i.finish       -> "COMPOSING"
      [] OTHER          -> state

(* choose_and_update in Chinese mode, from the info i that the handler left
   and one of the decoder's answers.  PREDICT is entered and left within one
   call: the candidates are reset before they are counted. *)
ChooseAndUpdate(i, answers, chosen) ==
    \E d \in answers : \E after \in {UpdateForSearch(i, d)} :
        /\ dec' = d
        /\ \/ /\ ComposingLength(after) = 0
              /\ ResetToIdleState(after)
              /\ committed' = <<>>
           \/ /\ ComposingLength(after) > 0
              /\ chosen /\ CanDoPrediction(after)
              /\ committed' = <<<<0, after.decoded>>>>
              /\ ResetToIdleState(after)
           \/ /\ ComposingLength(after) > 0
              /\ ~(chosen /\ CanDoPrediction(after))
              /\ ShowCandidateWindow(NextState(after), after, Offer(cands, d, after.finish))
              /\ committed' = <<>>
        /\ UNCHANGED mode

(* choose_decoding_candidate(-1): a search, with one of the answers `found`, or
   the deletion that is marked. *)
SearchOrDelete(i, found) ==
    ChooseAndUpdate(i,
        IF i.del.pos < 0 THEN found ELSE DelSearch(dec, i.del, state # "COMPOSING"), FALSE)
-----------------------------------------------------------------------------
(* The keys, one action per handler branch that changes state. *)

Typing == state \in {"INPUT", "COMPOSING"}

(* process_state_idle: a letter begins a new string. *)
IdleLetter ==
    /\ mode = "CHINESE" /\ state = "IDLE"
    /\ \E i \in {AddFirstSplChar(info)} : ChooseAndUpdate(i, Search(NoString, 1, 0), FALSE)

(* process_surface_change: a letter or separator at the cursor. *)
Insert ==
    /\ Typing /\ ~IsSplStrFull(info)
    /\ \E i \in {AddSplChar(info)} : SearchOrDelete(i, Search(dec, i.len, info.cursor))

(* With nothing to delete the unchanged string is searched again. *)
Backspace ==
    /\ Typing
    /\ \E i \in {PrepareDeleteBeforeCursor(info)} : SearchOrDelete(i, {dec})

Delete ==
    /\ state = "COMPOSING" /\ ~IsSplStrFull(info)
    /\ \E i \in {PrepareDeleteAfterCursor(info)} : SearchOrDelete(i, {dec})

(* The digit keys and the panel: the k-th candidate of the current page. *)
ChooseCandidateInPage(k) ==
    /\ Typing
    /\ k < CurrentPageSize(cands, cands.page)
    /\ ChooseAndUpdate(info, Choose(dec, CurrentPageStart(cands, cands.page) + k), TRUE)

(* The space bar chooses the active candidate. *)
ChooseCandidate ==
    /\ Typing
    /\ ChooseAndUpdate(info, Choose(dec, ActiveCandidate(cands)), TRUE)

(* Return commits the composing string as it is. *)
Return ==
    /\ Typing
    /\ committed' = <<<<0, info.len>>>>
    /\ ResetToIdleState(info)
    /\ UNCHANGED <<mode, dec>>

(* input_comma_period: get_current_full_sent is the fixed part and then
   candidate 0.  Only the candidates are reset. *)
InputCommaPeriod ==
    /\ state = "INPUT"
    /\ committed' = <<<<0, FixedEnd(info)>>, <<0, info.decoded>>>>
    /\ state' = "IDLE"
    /\ cands' = ShowCandidates(ResetCandidates(cands))
    /\ UNCHANGED <<mode, status, dec, info>>

(* Left and Home turn from the candidates to the composing string. *)
EditComposing(i) ==
    /\ state = "INPUT"
    /\ state' = "COMPOSING"
    /\ status' = StatusFor("COMPOSING")
    /\ info' = i
    /\ committed' = <<>>
    /\ UNCHANGED <<mode, dec, cands>>

InputLeft == EditComposing(Edge(info, "COMPOSING"))
InputHome == EditComposing([info EXCEPT !.cursor = 0])

ComposeDownAlways ==                   \* variant: drops the guard
    /\ state = "COMPOSING"
    /\ ShowCandidateWindow("INPUT", info, cands)
    /\ committed' = <<>>
    /\ UNCHANGED <<mode, dec>>

(* Down returns to the candidates, unless everything is fixed. *)
ComposeDown ==
    /\ state = "COMPOSING" /\ ~info.finish
    /\ ShowCandidateWindow("INPUT", info, cands)
    /\ committed' = <<>>
    /\ UNCHANGED <<mode, dec>>

ComposeMove(i) ==
    /\ state = "COMPOSING"
    /\ info' = i
    /\ committed' = <<>>
    /\ UNCHANGED <<state, mode, status, dec, cands>>

ComposeLeft == ComposeMove(MoveLeft(info))
ComposeRight == ComposeMove(MoveRight(info))
ComposeHome == ComposeMove([info EXCEPT !.cursor = 0])
ComposeEnd == ComposeMove([info EXCEPT !.cursor = info.len])

(* The candidate window: Up, Down and the page keys, and the panel's page
   buttons while it is shown. *)
TurnCandidates(c) ==
    /\ cands' = c
    /\ committed' = <<>>
    /\ UNCHANGED <<state, mode, status, dec, info>>

CandidateUp == state = "INPUT" /\ TurnCandidates(CursorLeft(cands))
CandidateDown == state = "INPUT" /\ TurnCandidates(CursorRight(cands))
CandidatePageUp == Typing /\ TurnCandidates(PageUp(cands))
CandidatePageDown == Typing /\ TurnCandidates(PageDown(cands))
SetCandidatePageSize(n) == TurnCandidates([cands EXCEPT !.size = n])

(* reset() returns at once in IDLE, whatever is on the surface. *)
Reset ==
    /\ \/ Typing /\ ResetToIdleState(info)
       \/ state = "IDLE" /\ UNCHANGED <<state, status, info, cands>>
    /\ committed' = <<>>
    /\ UNCHANGED dec

Escape == info.len > 0 /\ Reset /\ UNCHANGED mode

(* The engine's reset: a reload of the configuration or the client's wish. *)
EngineReset == Reset /\ UNCHANGED mode

(* The mode switch key and the panel's status button. *)
TriggerInputMode ==
    /\ mode' = IF mode = "CHINESE" THEN "ENGLISH" ELSE "CHINESE"
    /\ Reset

Init ==
    /\ state = "IDLE"
    /\ mode = "CHINESE"
    /\ status = "SHOW_PINYIN"
    /\ dec = NoString
    /\ info = Blank
    /\ cands = NoPages
    /\ committed = <<>>

Edit == IdleLetter \/ Insert \/ Backspace \/ Delete
Choosing == ChooseCandidate \/ \E k \in 0..FetchMax - 1 : ChooseCandidateInPage(k)
Moving == InputLeft \/ InputHome \/ ComposeDown \/ ComposeLeft \/ ComposeRight
             \/ ComposeHome \/ ComposeEnd
Turning == CandidateUp \/ CandidateDown \/ CandidatePageUp \/ CandidatePageDown
              \/ \E n \in PageSizes : SetCandidatePageSize(n)
Leaving == Return \/ InputCommaPeriod \/ Escape \/ EngineReset \/ TriggerInputMode

Next == Edit \/ Choosing \/ Moving \/ Turning \/ Leaving

Spec == Init /\ [][Next]_vars

-----------------------------------------------------------------------------
(* The sets the variables stay in, and what the handlers must leave behind:
   the two cursors are in bounds, no deletion is pending, and DecodingInfo's
   copies are the decoder's own while something is typed. *)
TypeOK ==
    /\ state \in {"IDLE", "INPUT", "COMPOSING"}
    /\ mode \in {"CHINESE", "ENGLISH"}
    /\ status \in {"SHOW_PINYIN", "EDIT_PINYIN"}
    /\ info.len \in 0..PyMax - 1 /\ info.cursor \in 0..info.len
    /\ info.del = NoDeletion
    /\ info.starts \in AllStarts /\ info.fixed \in 0..Spellings(info)
    /\ Typing => /\ info.len = dec.len /\ info.starts = dec.starts /\ info.fixed = dec.fixed
                 /\ cands.total = dec.total
    /\ cands.cached \in 0..cands.total
    /\ cands.lit >= cands.table /\ cands.table >= 0

(* The composing view edits exactly in the composing state, and while
   candidates are offered the cursor is at the end of the string, as
   composing_view.h:71 promises of the two classes' separate states. *)
StatusMatchesState ==
    /\ state = "COMPOSING" <=> status = "EDIT_PINYIN"
    /\ state = "INPUT" => info.cursor = info.len

(* While candidates are offered there is one: get_current_full_sent indexes
   m_candidates_list without a test (pinyin_ime.cpp:219, decoding_info.cpp:167). *)
InputHasCandidates == state = "INPUT" => cands.cached > 0 /\ ~info.finish

(* Pages are fetched and cut separately (prepare_page, calculate_page), over
   page sizes that change in between: still only the last page may be shorter
   than any size in use. *)
PagesFull ==
    \A p \in 1..Len(cands.start) - 1 :
        /\ cands.start[p] <= cands.start[p + 1] /\ cands.start[p + 1] <= cands.total
        /\ ~info.finish /\ cands.start[p + 1] < cands.total
               => \E n \in PageSizes \union {TableSize} :
                     cands.start[p + 1] - cands.start[p] = n

(* With the cursor behind the last letter the caret is behind the displayed
   string: update_for_search puts the spaces into the string, and
   get_cursor_pos_in_cmps_display counts them on its own. *)
CaretAtEnd ==
    Typing /\ info.cursor = info.len => CursorPosInCmpsDisplay(info) = DisplayLength(info)

(* Backspace takes a letter or a fixed spelling away from before the cursor,
   and what is behind the cursor is at most cut, never pulled over it: the
   marked position, the cursor and the decoder's deletion agree. *)
BackspaceDeletes ==
    [][Backspace /\ info.cursor > 0 =>
          /\ info'.len < info.len
          /\ info'.len > 0 => /\ info'.cursor < info.cursor
                              /\ info.cursor - info'.cursor <= info.len - info'.len]_vars

(* Whatever ends with a clean surface commits the whole of it once, in
   particular a choice: the rest that did not decode is not dropped. *)
CommitWhole ==
    [][committed' # <<>> /\ info'.len = 0 => committed' = <<<<0, info.len>>>>]_vars

(* A page that does not end the candidates has a successor, although the next
   page is only fetched when it is asked for. *)
PageDownShowsMore ==
    Typing /\ ~info.finish /\ CurrentPageStart(cands, cands.page + 1) < cands.total
        => PageDown(cands).page = cands.page + 1

-----------------------------------------------------------------------------
(* Statements of comments and help texts that the code does not keep. *)

(* "the candidate index in the lookup table", pinyin_ime.cpp:374: the active
   candidate, which the space bar chooses, is one of the table's. *)
ActiveInTable == state = "INPUT" => ActiveCandidate(cands) < cands.total

=============================================================================
