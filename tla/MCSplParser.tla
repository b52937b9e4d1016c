---------------------------- MODULE MCSplParser ----------------------------
(* Spellings with an initial that is a prefix of another one (c and ch), with
   one-letter Yunmus (a and o) and with a node that ends nothing (ho).  The
   Yunmus are not enabled as initials, as im_enable_ym_as_szm(false) leaves it. *)
EXTENDS SplParser

MCAlphabet == <<"a", "c", "h", "o", "u">>
MCHalfNames == <<<<"a">>, <<"c">>, <<"c", "h">>, <<"h">>, <<"o">>, <<"u">>>>
MCSpellingBuf ==
    <<<<"a">>, <<"c", "a">>, <<"c", "u">>, <<"c", "h", "a">>, <<"c", "h", "u">>,
      <<"h", "o", "u">>, <<"o">>, <<"o", "u">>>>
=============================================================================
