------------------------------ MODULE SplParser ------------------------------
(***************************************************************************)
(* SpellingParser::splstr_to_idxs (share/splparser.cpp) as a process: one  *)
(* step per turn of its loop, for any string a caller may hand it.         *)
(***************************************************************************)
EXTENDS SpellingTrie

CONSTANTS
    MaxTyped,    \* length of the strings
    MaxIdxs      \* max_size: the syllables the caller has room for

ASSUME ParserAssumption == MaxTyped \in Nat /\ MaxIdxs \in Nat \ {0}

VARIABLE parse   \* the string, the position, the node and what was found

Strings == UNION {[1..n -> Letters \union {Splitter}] : n \in 1..MaxTyped}

Init == parse \in {ParseOf(s) : s \in Strings}

Next == Running(parse) /\ parse' = ParseStep(parse, MaxIdxs)

Spec == Init /\ [][Next]_parse /\ WF_parse(Next)

-----------------------------------------------------------------------------

(* Behind `from` the string spells w, and has separators alone from there on. *)
Spells(w, from, to) ==
    /\ from + Len(w) <= to
    /\ SubSeq(parse.str, from + 1, from + Len(w)) = w
    /\ \A i \in from + Len(w) + 1..to : parse.str[i] \notin Letters

(* No letter is lost or read twice: each id spells the letters between its
   start and the next one, and the node spells those behind the last start.
   A syllable only ends where no spelling goes on with the next letter: the
   parser is greedy, "xian" is never split as xi and an. *)
SpelledAsTyped ==
    /\ Len(parse.starts) = Len(parse.ids) + 1 /\ Len(parse.ids) <= MaxIdxs
    /\ parse.starts[1] = 0
    /\ parse.node = SubSeq(parse.str, Last(parse.starts) + 1, parse.pos)
    /\ \A k \in DOMAIN parse.ids :
          LET next == parse.starts[k + 1]
          IN  /\ Spells(SpellingStr(parse.ids[k]), parse.starts[k], next)
              /\ next < Len(parse.str) /\ parse.str[next] # Splitter /\ parse.str[next + 1] # Splitter
                 => Append(SpellingStr(parse.ids[k]), parse.str[next + 1]) \notin Nodes

(* The builder asserts it of every spelling of a lemma, and stores what the
   parser says: a spelling parses to one id that stands for it.  And half and
   full ids agree both ways: a half id found stands for exactly the spellings
   that begin with its letters, and half_full_compatible says so. *)
IdsStandForTyped ==
    /\ ~Running(parse) /\ parse.str \in Spellings =>
          LET r == ParseEnd(parse, MaxIdxs)
          IN  /\ Len(r.ids) = 1 /\ r.starts = <<0, Len(parse.str)>>
              /\ \E id \in Matches(r.ids[1]) : SpellingStr(id) = parse.str
    /\ \A id \in Range(parse.ids) :
          /\ Matches(id) # {}
          /\ IsHalfId(id) => \A full \in FullIds :
                /\ full \in Matches(id) <=> IsPrefix(SpellingStr(id), SpellingStr(full))
                /\ HalfFullCompatible(id, full) <=> full \in Matches(id)

(* The loop ends, although two of its branches go on without advancing: the
   walk that fails from a node starts again from the root on the same letter. *)
ParserStops == <>~Running(parse)
=============================================================================
