---------------------------- MODULE ContentHistory ----------------------------
(***************************************************************************)
(* What the canonical layer promises about the text of its items: L1 is    *)
(* told of every text an item ever had, each as one version more than the  *)
(* last, in the same step in which the item shows it.  What was told is    *)
(* never changed or taken back, and no version repeats the one before it.  *)
(* Crawls, transactions, raw documents and ways to classify do not appear: *)
(* Ingest implements this module.                                          *)
(***************************************************************************)
EXTENDS Naturals, Sequences

CONSTANTS
    Contents,   \* the items
    Texts,
    NoText      \* the text of an item that does not exist yet

VARIABLES
    told,       \* of each item, the texts L1 is told of, by version
    text        \* of each item, the text it shows

Init ==
    /\ told = [i \in Contents |-> <<>>]
    /\ text = [i \in Contents |-> NoText]

(* A history goes on after the texts it has, with another one each time.   *)
Extends(old, new) ==
    /\ Len(old) <= Len(new)
    /\ \A v \in 1 .. Len(old) : new[v] = old[v]
    /\ \A v \in 1 .. Len(new) - 1 : v >= Len(old) => new[v + 1] # new[v]

Shown(history) == IF history = <<>> THEN NoText ELSE history[Len(history)]

(* A crawl is committed: new items, and new texts of others.               *)
Tell ==
    /\ told' \in [Contents -> Seq(Texts)]
    /\ \A i \in Contents : Extends(told[i], told'[i])
    /\ text' = [i \in Contents |-> Shown(told'[i])]

Spec == Init /\ [][Tell]_<<told, text>>
=============================================================================
