--------------------------- MODULE MCDictBuilder ---------------------------
(* Instances of DictBuilder: the spellings a, an, na and no, a the letter
   alone; Hanzi are numbers, 3 and the word 1 3 have two spellings each. *)
EXTENDS DictBuilder

MCAlphabet == <<"a", "n", "o">>
MCHalfNames == <<<<"a">>, <<"n">>>>
MCSpellingBuf == <<<<"a">>, <<"a", "n">>, <<"n", "a">>, <<"n", "o">>>>

A == 3
An == 4
Na == 5
No == 6

Line(hz, spl, freq) == [hz |-> hz, spl |-> spl, freq |-> freq, gbk |-> 0, ok |-> TRUE]

Singles ==
    <<Line(<<3>>, <<No>>, 40), Line(<<2>>, <<An>>, 70), Line(<<1>>, <<A>>, 80), Line(<<3>>, <<Na>>, 50)>>

(* Left out: too rare, too long, a Hanzi that is not valid (or, without a list,
   a GBK mark), one token too many. *)
Rest ==
    <<Line(<<1, 1>>, <<A, A>>, 10), Line(<<1, 1, 1, 1, 1>>, <<A, A, A, A, A>>, 99),
      [Line(<<1, 9>>, <<A, Na>>, 99) EXCEPT !.gbk = 1], [Line(<<2, 2>>, <<An, An>>, 99) EXCEPT !.ok = FALSE]>>

Words ==
    <<Line(<<1, 3>>, <<A, Na>>, 90), Line(<<1, 3>>, <<A, No>>, 60), Line(<<1, 2>>, <<A, An>>, 60),
      Line(<<1, 3, 2>>, <<A, Na, An>>, 75), Line(<<2, 4, 2>>, <<An, Na, A>>, 65)>>

List(lines) == [lines |-> lines, valid |-> {1, 2, 3, 4}]

(* All of it; few words, in another order, without a list of Hanzi; no words;
   several lemmas of one Hanzi and one spelling, two of the same frequency, and
   two lines that are alike. *)
MCFiles ==
    {List(Singles \o Words \o Rest),
     [lines |-> Rest \o Tail(Words) \o Singles, valid |-> {}],
     List(Singles),
     List(<<Line(<<4>>, <<Na>>, 50), Line(<<2>>, <<Na>>, 30), Line(<<4>>, <<Na>>, 50)>> \o Singles)}
=============================================================================
