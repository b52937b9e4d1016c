--------------------------- MODULE MCUserDictFile ---------------------------
(* Two objects on one file, two lemmas of two syllables: header 2 * 256 (the
   flag byte and the length), two spelling ids, two Hanzi. *)
EXTENDS UserDictFile

MCLemmas == {<<512, 33, 40, 901, 902>>, <<512, 33, 41, 901, 903>>}
=============================================================================
