--------------------------- MODULE MCMatrixSearch ---------------------------
(* Instances of MatrixSearch: four spellings, na, a, o and ao, so that three
   letters are one to three syllables; lemmas of one and two syllables. *)
EXTENDS MatrixSearch

MCAlphabet == <<"a", "n", "o">>
MCHalfNames == <<<<"a">>, <<"n">>, <<"o">>>>
MCSpellingBuf == <<<<"a">>, <<"a", "o">>, <<"n", "a">>, <<"o">>>>

(* The ids of a, ao, na and o. *)
A == 4
Ao == 5
Na == 6
O == 7

Word(str, spl, psb, user) == [str |-> str, spl |-> spl, psb |-> psb, user |-> user]

System ==
    <<Word(<<"na1">>, <<Na>>, 3, FALSE), Word(<<"a1">>, <<A>>, 2, FALSE),
      Word(<<"o1">>, <<O>>, 3, FALSE), Word(<<"ao1">>, <<Ao>>, 4, FALSE),
      Word(<<"na2">>, <<Na>>, 5, FALSE), Word(<<"a1", "na1">>, <<A, Na>>, 4, FALSE)>>

(* A learned lemma beside one of the system dictionary. *)
MCLex == Append(System, Word(<<"a1", "na3">>, <<A, Na>>, 3, TRUE))

(* A good long lemma, behind whose first syllable "nao" is better cut n ao. *)
MCLexLong ==
    <<Word(<<"na1">>, <<Na>>, 3, FALSE), Word(<<"a1">>, <<A>>, 2, FALSE),
      Word(<<"o1">>, <<O>>, 3, FALSE), Word(<<"ao1">>, <<Ao>>, 2, FALSE),
      Word(<<"na2", "o1">>, <<Na, O>>, 9, FALSE),
      Word(<<"a1", "na1", "o1">>, <<A, Na, O>>, 1, FALSE)>>
=============================================================================
