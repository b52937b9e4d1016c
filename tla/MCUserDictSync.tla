--------------------------- MODULE MCUserDictSync ---------------------------
(* Instances of UserDictSync.  All lemmas have two syllables, so that a slot
   is exactly a byte offset; two of them share their initials. *)
EXTENDS UserDictSync, TLC

MCSplInitial == 1 :> 1 @@ 2 :> 2 @@ 11 :> 1 @@ 12 :> 1 @@ 21 :> 2
MCHalfToFull == 1 :> {11, 12} @@ 2 :> {21}

MCLemmas == {[spl |-> <<11, 21>>, str |-> <<2, 3>>],
             [spl |-> <<12, 21>>, str |-> <<1, 3>>],
             [spl |-> <<21, 11>>, str |-> <<3, 2>>],
             [spl |-> <<11, 12>>, str |-> <<2, 1>>]}

MCLimit == [count |-> 3, ratio |-> 67]
=============================================================================
