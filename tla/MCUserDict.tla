----------------------------- MODULE MCUserDict -----------------------------
(* Instances of UserDict for TLC.  Initials 1 and 2 are half ids; 11 and 12
   are full ids with initial 1, 21 is the full id with initial 2. *)
EXTENDS UserDict, TLC

MCSplInitial == 1 :> 1 @@ 2 :> 2 @@ 11 :> 1 @@ 12 :> 1 @@ 21 :> 2
MCHalfToFull == 1 :> {11, 12} @@ 2 :> {21}

(* Two lemmas with the same initials, and a longer one that begins with the
   second of them. *)
MCLemmas == {[spl |-> <<11, 21>>, str |-> <<2, 3>>],
             [spl |-> <<12, 21>>, str |-> <<1, 3>>],
             [spl |-> <<12, 21, 11>>, str |-> <<1, 3, 2>>]}

MCQueries == {<<1, 2>>, <<11, 21>>, <<2, 2>>, <<1>>}

=============================================================================
