----------------------------- MODULE MCParoxysm -----------------------------
(***************************************************************************)
(* Two words: a nick, and a pattern that ILIKE matches with it as well as  *)
(* with itself.  One channel beside direct messages, an admin and a user.  *)
(***************************************************************************)
EXTENDS Paroxysm

MCAlike == [w \in Words |-> IF w = "b%" THEN {"bob", "b%"} ELSE {w}]
MCLowered == [w \in Words |-> w]

Hi == [phrase |-> "hi"]
See(w) == [see |-> w]
learn(g, w, t) == [do |-> "learn", gen |-> g, subj |-> w, val |-> t]
move(g, w, i, j) == [do |-> "move", gen |-> g, subj |-> w, idx |-> i, to |-> j]
count(g, w, n) == [do |-> "count", gen |-> g, subj |-> w, by |-> n]
from(nick, chan, cmds) == {[nick |-> nick, chan |-> chan, cmd |-> c] : c \in cmds}

MCMessages ==
    from("bob", "#tvl", {[do |-> "say", text |-> "lo"], learn(FALSE, "bob", Hi), learn(FALSE, "b%", See("bob")),
                         count(FALSE, "b%", 1), move(FALSE, "bob", 1, 2),
                         move(FALSE, "bob", 2, -1), move(FALSE, "bob", 3, -1),
                         [do |-> "quote", gen |-> FALSE, subj |-> "bob"]})
    \cup from("ada", Direct, {learn(TRUE, "bob", Hi)})
    \cup from("bob", Direct, {learn(TRUE, "bob", Hi), count(FALSE, "bob", -1)})
=============================================================================
