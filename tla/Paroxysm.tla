------------------------------ MODULE Paroxysm ------------------------------
(***************************************************************************)
(* The IRC bot paroxysm (src/fun/paroxysm): keywords and their numbered    *)
(* entries in a Postgres database, the last message of every nick in       *)
(* memory, and one handler at a time that answers a message.               *)
(*                                                                         *)
(* The bot uses no transaction: every statement of a handler commits by    *)
(* itself, any of them may fail and end the handler, and the process may   *)
(* stop between any two.  One action is one statement that writes,         *)
(* together with the reads and checks that come before it; the process is  *)
(* the only user of its database, so that a read sees what the last write  *)
(* left.  A keyword is its name and channel, which the database keeps      *)
(* unique, in place of its number.  The author and the time of an entry    *)
(* are left out, but for whether a number was taught today.                *)
(***************************************************************************)
EXTENDS Integers, Sequences, FiniteSets, FiniteSetsExt, SequencesExt

CONSTANTS
    Nicks,          \* who writes to the bot
    Admins,         \* the nicks of the configuration's admins
    Channels,       \* the channels the bot has joined
    Direct,         \* the target of a message sent to the bot alone
    General,        \* the channel "*" of the keywords that every channel sees
    Words,          \* subjects of commands and names of keywords
    Alike,          \* word -> the names it matches as a pattern of ILIKE
    Lowered,        \* word -> the nick it is in lower case
    RECURSION_LIMIT,
    Messages,       \* what users write, the queries left aside
    MaxCount,       \* bound on the numbers counted to
    MaxEntries      \* bound on the entries ever inserted

ASSUME WordsAssumption ==
    /\ Admins \subseteq Nicks
    /\ Direct \notin Channels /\ General \notin Channels \cup {Direct}
    /\ Alike \in [Words -> SUBSET Words]
    /\ DOMAIN Lowered = Words
    /\ RECURSION_LIMIT \in Nat

VARIABLES
    keywords,       \* rows of keywords: [name, chan]
    entries,        \* rows of entries: id -> [of, idx, text, today]
    nextId,         \* the sequence behind entries.id
    lastMsgs,       \* App.last_msgs: chan -> nick -> the last message, if any
    task,           \* the handler that runs: its command and KeywordDetails
    said,           \* the entry the last notice showed, with its number
    shifted         \* history: keywords with a deletion or an unfinished swap

stored == <<keywords, entries, nextId>>
vars == <<keywords, entries, nextId, lastMsgs, task, said, shifted>>

Idle == [at |-> "idle"]
Task(at, nick, chan, cmd, kw, list) ==
    [at |-> at, by |-> nick, in |-> chan, cmd |-> cmd, kw |-> kw, list |-> list,
     moves |-> <<>>]
Silence == [at |-> 0]
Unknown == [kw |-> "unknown"]       \* get returns None
Halt == [kw |-> "halt"]             \* get gives up on a chain of aliases

\* The texts taught, and the four commands that change something, as the
\* regular expressions of main.rs take them apart; "gen" is the "!" that asks
\* for a general entry, which Quote's has not.  What is no command is Talk.
Texts == [phrase : STRING] \cup [see : Words] \cup [number : Int]
Learn == [do : {"learn"}, gen : BOOLEAN, subj : Words, val : Texts]
Quote == [do : {"quote"}, gen : {FALSE}, subj : Words]
MoveTo == [do : {"move"}, gen : BOOLEAN, subj : Words, idx : Nat, to : Int]
Talk == [do : {"say"}, text : STRING]
Counting == [do : {"count"}, gen : BOOLEAN, subj : Words, by : {1, -1}]

ASSUME MessagesAssumption ==
    \A m \in Messages :
        /\ m.nick \in Nicks /\ m.chan \in Channels \cup {Direct}
        /\ m.cmd \in Learn \cup Quote \cup MoveTo \cup Counting \cup Talk

-----------------------------------------------------------------------------
(* keyword.rs: looking up a keyword *)

EntriesOf(k) == {e \in DOMAIN entries : entries[e].of = k}

\* get_entries sorts by idx; the database orders equal ones as it likes.
get_entries(k) ==
    {s \in SetToSeqs(EntriesOf(k)) :
        \A i, j \in DOMAIN s : i < j => entries[s[i]].idx <= entries[s[j]].idx}

IsAlias(s) == s # <<>> /\ DOMAIN entries[s[1]].text = {"see"}

Hits(w, c) == {k \in keywords : k.name \in Alike[w] /\ k.chan \in {c, General}}

\* One call of get_inner: `first` without an order takes any matching keyword,
\* and an alias leads to what the next call finds for the word it names.
get_inner(w, c, count, next) ==
    LET found(k, s) ==
            IF ~ IsAlias(s) THEN {[kw |-> k, list |-> s]}
            ELSE IF count > RECURSION_LIMIT THEN {Halt}
            ELSE next[entries[s[1]].text.see]
    IN  IF Hits(w, c) = {} THEN {Unknown}
        ELSE UNION {UNION {found(k, s) : s \in get_entries(k)} : k \in Hits(w, c)}

get(word, c) ==
    LET calls[count \in 0 .. RECURSION_LIMIT + 1] ==
            [w \in Words |->
                get_inner(w, c, count, IF count > RECURSION_LIMIT THEN <<>>
                                       ELSE calls[count + 1])]
    IN  calls[0][word]

MayChange_Asked(nick, k, learn_chan) == learn_chan = General => nick \in Admins

\* The check that keyword_from_captures makes of the keyword it has found.
MayChange(nick, k, learn_chan) == k.chan = General => nick \in Admins

-----------------------------------------------------------------------------
(* The handlers.  A handler that ends with an error reports it to the nick. *)

Ends == task' = Idle /\ said' = Silence

\* A message that is no command is kept as its author's last one.
Say(nick, chan, cmd) ==
    /\ task = Idle
    /\ cmd.do = "say"
    /\ lastMsgs' = [lastMsgs EXCEPT ![chan][nick] = cmd.text]
    /\ said' = Silence
    /\ UNCHANGED <<stored, task, shifted>>

\* keyword_from_captures up to its first write: a command by direct message
\* must be about general entries, and the keyword found must be the nick's to
\* change.
Receive(nick, chan, cmd) ==
    LET learn_chan == IF cmd.gen THEN General ELSE chan
    IN  /\ task = Idle
        /\ cmd.do # "say"
        /\ chan = Direct => learn_chan = General
        /\ \E found \in get(cmd.subj, learn_chan) :
              \/ /\ found = Unknown
                 /\ task' = Task("create", nick, chan, cmd,
                                 [name |-> cmd.subj, chan |-> learn_chan], <<>>)
              \/ /\ found \notin {Unknown, Halt}
                 /\ MayChange(nick, found.kw, learn_chan)
                 /\ task' = Task("act", nick, chan, cmd, found.kw, found.list)
        /\ said' = Silence
        /\ UNCHANGED <<stored, lastMsgs, shifted>>

\* get_or_create: the new keyword is written before the check of the admins.
\* It exists already when its first entry is an alias to nothing.
Create ==
    /\ task.at = "create"
    /\ task.kw \notin keywords
    /\ keywords' = keywords \cup {task.kw}
    /\ IF MayChange(task.by, task.kw, task.kw.chan)
       THEN task' = [task EXCEPT !.at = "act"] /\ UNCHANGED said
       ELSE Ends
    /\ UNCHANGED <<entries, nextId, lastMsgs, shifted>>

\* handle_increment: the last of today's entries that is a number.
Counters == {i \in DOMAIN task.list :
                /\ entries[task.list[i]].today
                /\ DOMAIN entries[task.list[i]].text = {"number"}}

\* What a command has learn insert, if anything.
Learnt ==
    CASE task.cmd.do = "learn" -> {task.cmd.val}
      [] task.cmd.do = "quote" ->
            LET grabbed == Lowered[task.cmd.subj]
            IN  IF grabbed \in Nicks /\ lastMsgs[task.in][grabbed] # "none"
                THEN {[phrase |-> lastMsgs[task.in][grabbed]]} ELSE {}
      [] task.cmd.do = "count" ->
            IF Counters = {} THEN {[number |-> task.cmd.by]} ELSE {}
      [] OTHER -> {}

NewIdx_Last == Len(task.list)

\* The index learn gives to a new entry.
NewIdx == Len(task.list) + 1

Insert ==
    /\ task.at = "act"
    /\ nextId <= MaxEntries
    /\ \E text \in Learnt :
          entries' = [e \in DOMAIN entries \cup {nextId} |->
                        IF e # nextId THEN entries[e]
                        ELSE [of |-> task.kw, idx |-> NewIdx, text |-> text,
                              today |-> DOMAIN text = {"number"}]]
    /\ nextId' = nextId + 1
    /\ said' = [at |-> Len(task.list) + 1, entry |-> nextId]
    /\ task' = Idle
    /\ UNCHANGED <<keywords, lastMsgs, shifted>>

\* update, for an entry counted up or down.
Count ==
    /\ task.at = "act"
    /\ task.cmd.do = "count"
    /\ Counters # {}
    /\ LET i == Max(Counters)
           n == entries[task.list[i]].text.number + task.cmd.by
       IN  /\ n \in -MaxCount .. MaxCount
           /\ entries' = [entries EXCEPT ![task.list[i]].text = [number |-> n]]
           /\ said' = [at |-> i, entry |-> task.list[i]]
    /\ task' = Idle
    /\ UNCHANGED <<keywords, nextId, lastMsgs, shifted>>

\* A set of places in the order they are gone through.
InOrder(places) ==
    {s \in SetToSeqs(places) : \A i, j \in DOMAIN s : i < j => s[i] < s[j]}

MovingBack == {i \in DOMAIN task.list : entries[task.list[i]].idx \in 0 .. task.cmd.idx - 1}
MoveBack(e) == [id |-> e, idx |-> entries[e].idx - 1]

MovesOfDelete_LastFirst ==
    {[n \in DOMAIN s |-> MoveBack(task.list[s[n]])] : s \in {Reverse(t) : t \in InOrder(MovingBack)}}

\* The moves of delete: entries from 0 up to the one deleted go back by one,
\* in the order of the list.  A negative index is a huge one once it is cast.
MovesOfDelete ==
    {[n \in DOMAIN s |-> MoveBack(task.list[s[n]])] : s \in InOrder(MovingBack)}

\* A negative target deletes the entry at the position named.
Delete ==
    LET position == Max({task.cmd.idx, 1})
    IN  /\ task.at = "act"
        /\ task.cmd.do = "move"
        /\ task.cmd.to < 0
        /\ position \in DOMAIN task.list
        /\ entries' = [e \in DOMAIN entries \ {task.list[position]} |->
                            entries[e]]
        /\ \E moves \in MovesOfDelete :
              task' = [task EXCEPT !.at = "moves", !.moves = moves]
        /\ UNCHANGED <<keywords, nextId, lastMsgs, said, shifted>>

\* The moves of swap: one for every entry with one of the two indices.  The
\* entry at place i is asked about its first index at 2i, its second at 2i + 1.
MovesOfSwap ==
    LET at(idx, side) == {2 * i + side :
                             i \in {j \in DOMAIN task.list : entries[task.list[j]].idx = idx}}
        move(place) == [id |-> task.list[place \div 2],
                        idx |-> IF place % 2 = 0 THEN task.cmd.to ELSE task.cmd.idx]
    IN  {[n \in DOMAIN s |-> move(s[n])] :
            s \in InOrder(at(task.cmd.idx, 0) \cup at(task.cmd.to, 1))}

\* Any other target swaps the two entries with these indices.
Swap ==
    /\ task.at = "act"
    /\ task.cmd.do = "move"
    /\ task.cmd.to >= 0
    /\ \E moves \in MovesOfSwap :
          /\ Len(moves) = 2
          /\ task' = [task EXCEPT !.at = "moves", !.moves = moves]
    /\ UNCHANGED <<stored, lastMsgs, said, shifted>>

\* process_moves: one statement for each; an entry deleted is not found.
Move ==
    /\ task.at = "moves"
    /\ task.moves # <<>>
    /\ LET m == Head(task.moves)
       IN  entries' = IF m.id \in DOMAIN entries
                      THEN [entries EXCEPT ![m.id].idx = m.idx] ELSE entries
    /\ task' = [task EXCEPT !.moves = Tail(@)]
    /\ UNCHANGED <<keywords, nextId, lastMsgs, said, shifted>>

\* For the history: the keyword of a deletion, or of a swap not finished.
Disturbed ==
    IF task.at = "moves" /\ (task.cmd.to < 0 \/ task.moves # <<>>)
    THEN {task.kw} ELSE {}

Moved ==
    /\ task.at = "moves"
    /\ task.moves = <<>>
    /\ Ends
    /\ shifted' = shifted \cup Disturbed
    /\ UNCHANGED <<stored, lastMsgs>>

\* handle_query, which only reads.  Without a number it takes one at random,
\* never the last.
Query(chan, subj, numbers) ==
    /\ task = Idle
    /\ \E found \in get(subj, chan) :
          /\ found \notin {Unknown, Halt}
          /\ \E at \in numbers \cup (1 .. Max({1, Len(found.list) - 1})) :
                /\ at \in DOMAIN found.list
                /\ said' = [at |-> at, entry |-> found.list[at]]
    /\ UNCHANGED <<stored, lastMsgs, task, shifted>>

\* A statement fails, or the command cannot be done: no such entry, nothing
\* to quote, no two entries to swap, a keyword that exists.
Fail ==
    /\ task # Idle
    /\ Ends
    /\ shifted' = shifted \cup Disturbed
    /\ UNCHANGED <<stored, lastMsgs>>

\* The process stops and is started again: only the database is left.
Restart ==
    /\ Ends
    /\ shifted' = shifted \cup Disturbed
    /\ lastMsgs' = [c \in Channels \cup {Direct} |-> [n \in Nicks |-> "none"]]
    /\ UNCHANGED stored

Midnight ==
    /\ \E e \in DOMAIN entries : entries[e].today
    /\ entries' = [e \in DOMAIN entries |-> [entries[e] EXCEPT !.today = FALSE]]
    /\ UNCHANGED <<keywords, nextId, lastMsgs, task, said, shifted>>

-----------------------------------------------------------------------------
Init ==
    /\ keywords = {}
    /\ entries = <<>>
    /\ nextId = 1
    /\ lastMsgs = [c \in Channels \cup {Direct} |-> [n \in Nicks |-> "none"]]
    /\ task = Idle
    /\ said = Silence
    /\ shifted = {}

Next ==
    \/ \E m \in Messages :
          Say(m.nick, m.chan, m.cmd) \/ Receive(m.nick, m.chan, m.cmd)
    \/ \E chan \in Channels \cup {Direct}, subj \in Words :
          Query(chan, subj, 1 .. MaxEntries)
    \/ Create \/ Insert \/ Count \/ Delete \/ Swap \/ Move \/ Moved
    \/ Fail \/ Restart \/ Midnight

Spec == Init /\ [][Next]_vars

-----------------------------------------------------------------------------
(* Properties *)

\* An entry is changed only by those who may: a general one by an admin's
\* command, one of a channel by a command given in that channel, however many
\* aliases lie between the command's subject and the entry.
OnlyByThoseWhoMay ==
    [][\A e \in DOMAIN entries \cup DOMAIN entries' :
          LET row == IF e \in DOMAIN entries THEN entries[e] ELSE entries'[e]
              same == /\ e \in DOMAIN entries \cap DOMAIN entries'
                      /\ entries'[e].text = entries[e].text
                      /\ entries'[e].idx = entries[e].idx
          IN  same \/ IF row.of.chan = General THEN task.by \in Admins
                      ELSE row.of.chan = task.in]_vars

\* Deleting an entry keeps the others in the order they were listed in, at
\* every moment and so also when it stops half way; and no two get the same
\* number, as long as the keyword had its numbers intact.
DeletionKeepsOrder ==
    (task.at = "moves" /\ task.cmd.to < 0) =>
        \A i, j \in DOMAIN task.list :
            LET a == task.list[i]
                b == task.list[j]
            IN  i < j /\ {a, b} \subseteq DOMAIN entries
                    => /\ entries[a].idx <= entries[b].idx
                       /\ task.kw \notin shifted
                            => entries[a].idx < entries[b].idx

\* The number a notice gives an entry is the one under which the next query
\* finds it, on every keyword that has seen no deletion and no swap broken
\* off: learning, counting, swapping and failures keep the numbers dense.
FoundAsAnnounced ==
    LET k == entries[said.entry].of
    IN  said # Silence /\ said.entry \in DOMAIN entries /\ k \notin shifted
            => /\ \A s \in get_entries(k) : s[said.at] = said.entry
               /\ {entries[e].idx : e \in EntriesOf(k)}
                    = 1 .. Cardinality(EntriesOf(k))
=============================================================================
