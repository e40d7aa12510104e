--------------------------------- MODULE Feed ---------------------------------
(***************************************************************************)
(* What L0 as a whole promises to L1 about the contents: L1 learns of an   *)
(* item only texts that are public, and no text while an earlier one is    *)
(* still due; each text stays due until L1 has it, or until a relay run    *)
(* without a consumer has taken it, the only way in which L1 misses one.   *)
(* Neither crawls, nor the outbox and its ids, nor relay runs appear:      *)
(* Platform implements this module.                                        *)
(***************************************************************************)
EXTENDS ContentHistory

VARIABLES
    learned,    \* of each item, the texts L1 has been handed, by version
    printed,    \* of each item, the versions taken by a run without a consumer
    due         \* of each item, the versions that are still to be handed over

feedVars == <<told, text, learned, printed, due>>

FeedInit ==
    /\ Init
    /\ learned = [i \in Contents |-> <<>>]
    /\ printed = [i \in Contents |-> {}]
    /\ due = [i \in Contents |-> {}]

(* A crawl is committed: whatever it tells is due.                         *)
Publish ==
    /\ Tell
    /\ due' = [i \in Contents |->
                  due[i] \cup (Len(told[i]) + 1 .. Len(told'[i]))]
    /\ UNCHANGED <<learned, printed>>

(* No version of an item before the v-th is due that L1 does not have, and *)
(* it gets that one.                                                       *)
Learn(i, v) ==
    /\ due[i] \cap (1 .. v - 1) \subseteq DOMAIN learned[i]
    /\ learned' = [learned EXCEPT ![i] =
                      [w \in DOMAIN learned[i] \cup {v} |-> told[i][w]]]
    /\ UNCHANGED <<told, text, printed, due>>

(* A run without a consumer takes it.                                      *)
Divert(i, v) ==
    /\ printed' = [printed EXCEPT ![i] = @ \cup {v}]
    /\ UNCHANGED <<told, text, learned, due>>

(* Versions L1 has, or such a run has taken, are not handed over again.    *)
Settle ==
    /\ due' \in [Contents -> SUBSET Nat]
    /\ \A i \in Contents :
          /\ due'[i] \subseteq due[i]
          /\ due[i] \subseteq due'[i] \cup DOMAIN learned[i] \cup printed[i]
    /\ UNCHANGED <<told, text, learned, printed>>

FeedNext ==
    \/ Publish \/ Settle
    \/ \E i \in Contents : \E v \in 1 .. Len(told[i]) : Learn(i, v) \/ Divert(i, v)

FeedSpec == FeedInit /\ [][FeedNext]_feedVars
=============================================================================
