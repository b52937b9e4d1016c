----------------------------- MODULE LemmaStore -----------------------------
(***************************************************************************)
(* What the user dictionary promises to the decoder (include/atomdictbase.h *)
(* and the class comments of include/userdict.h), without index, cache,    *)
(* ids or file layout: a store of scores in memory and a saved copy of it. *)
(* One call touches one word; the saved copy is always a store that was in *)
(* memory as a whole; a restart goes back to the saved copy.               *)
(***************************************************************************)
EXTENDS Integers

CONSTANTS Word, ScoreOf

NoScore == -1

VARIABLES store, saved

storeVars == <<store, saved>>

StoreTypeOK ==
    /\ store \in [Word -> ScoreOf \cup {NoScore}]
    /\ saved \in [Word -> ScoreOf \cup {NoScore}]

Init ==
    /\ store = [w \in Word |-> NoScore]
    /\ saved = store

(* put_lemma and update_lemma.  A put that finds no room saves first. *)
Write(w) ==
    /\ \E s \in ScoreOf : store' = [store EXCEPT ![w] = s]
    /\ saved' \in {saved, store}

(* remove_lemma *)
Forget(w) ==
    /\ store' = [store EXCEPT ![w] = NoScore]
    /\ UNCHANGED saved

(* flush_cache and close_dict *)
Save ==
    /\ saved' = store
    /\ UNCHANGED store

Crash ==
    /\ store' = saved
    /\ UNCHANGED saved

Next == (\E w \in Word : Write(w) \/ Forget(w)) \/ Save \/ Crash

Spec == Init /\ [][Next]_storeVars
=============================================================================
