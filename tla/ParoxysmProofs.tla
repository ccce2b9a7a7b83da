----------------------------- MODULE ParoxysmProofs -----------------------------
(***************************************************************************)
(* Proofs about Paroxysm, for every set of nicks, channels, words and      *)
(* messages: who may change an entry, and how the numbers of the entries   *)
(* behave under learning, swapping, deleting, failures and restarts.       *)
(***************************************************************************)
EXTENDS Paroxysm, FunctionTheorems, FiniteSetTheorems, WellFoundedInduction, TLAPS

(***************************************************************************)
(* A set of numbers has a least one, and a bounded one has a greatest.     *)
(***************************************************************************)
LEMMA LeastNumber ==
  ASSUME NEW S \in SUBSET Nat, S # {}
  PROVE  \E n \in S : \A m \in S : n <= m
<1> DEFINE R == {ss \in Nat \X Nat : ss[1] < ss[2]}
<1>1. IsWellFoundedOn(R, Nat)
  BY NatLessThanWellFounded DEF OpToRel
<1>2. PICK n \in S : \A m \in S : ~ (<<m, n>> \in R)
  <2> HIDE DEF R
  <2> QED BY <1>1, WFMin
<1>3. ASSUME NEW m \in S PROVE n <= m
  <2>1. m \in Nat /\ n \in Nat /\ <<m, n>> \notin R
    BY <1>2
  <2>2. ~ (m < n)
    BY <2>1
  <2> QED BY <2>1, <2>2
<1> QED BY <1>3

(* Max finds the greatest number of a bounded set.                         *)
LEMMA MaxIsIn ==
  ASSUME NEW n \in Nat, NEW S \in SUBSET (1 .. n), S # {}
  PROVE  Max(S) \in S /\ \A m \in S : Max(S) >= m
<1> DEFINE T == {n - s : s \in S}
<1>1. \A s \in S : s \in 1 .. n
  OBVIOUS
<1>2. T \in SUBSET Nat /\ T # {}
  <2>1. \A s \in S : n - s \in Nat
    BY <1>1
  <2> QED BY <2>1
<1>3. PICK t \in T : \A u \in T : t <= u
  <2> HIDE DEF T
  <2> QED BY <1>2, LeastNumber
<1>4. PICK s \in S : t = n - s
  OBVIOUS
<1>5. ASSUME NEW m \in S PROVE s >= m
  <2>1. n - m \in T
    OBVIOUS
  <2>2. t <= n - m
    <3> HIDE DEF T
    <3> QED BY <2>1, <1>3
  <2> QED BY <2>2, <1>4, <1>1
<1>6. \E x \in S : \A y \in S : x >= y
  BY <1>5
<1> QED BY <1>6 DEF Max

(***************************************************************************)
(* A sequence of SetToSeqs(S) has every element of S in one place.         *)
(***************************************************************************)
LEMMA SeqsOfSet ==
  ASSUME NEW S, IsFiniteSet(S), NEW s \in SetToSeqs(S)
  PROVE  /\ Cardinality(S) \in Nat
         /\ s \in [1 .. Cardinality(S) -> S] /\ s \in Seq(S)
         /\ Len(s) = Cardinality(S) /\ DOMAIN s = 1 .. Cardinality(S)
         /\ \A i, j \in DOMAIN s : s[i] = s[j] => i = j
         /\ \A e \in S : \E i \in DOMAIN s : s[i] = e
<1> DEFINE n == Cardinality(S)
<1>1. n \in Nat
  BY FS_CardinalityType
<1>2. s \in [1 .. n -> S] /\ \A i, j \in 1 .. n : i # j => s[i] # s[j]
  BY DEF SetToSeqs
<1>3. s \in Injection(1 .. n, S)
  BY <1>2 DEF Injection, IsInjective
<1>4. Cardinality(1 .. n) = n
  <2> HIDE DEF n
  <2> QED BY <1>1, FS_Interval
<1>5. s \in Surjection(1 .. n, S)
  BY <1>3, <1>4, FS_Injection
<1> HIDE DEF n
<1>6. s \in Seq(S) /\ Len(s) = n /\ DOMAIN s = 1 .. n
  BY <1>1, <1>2
<1> QED BY <1>1, <1>2, <1>5, <1>6 DEF Surjection, n

-----------------------------------------------------------------------------
Places   == Channels \cup {Direct}
Keywords == [name : Words, chan : Channels \cup {General}]
Rows     == [of : Keywords, idx : Int, text : Texts, today : BOOLEAN]
Commands == Learn \cup Quote \cup MoveTo \cup Counting
Said     == STRING \cup {"none"}
Steps    == [id : Nat, idx : Int]
Tasks    == [at : {"create", "act", "moves"}, by : Nicks, in : Places, cmd : Commands,
             kw : Keywords, list : Seq(Nat), moves : Seq(Steps)]

(* The types of the variables; every entry has its keyword.                *)
Typed ==
  /\ keywords \subseteq Keywords
  /\ nextId \in Nat \ {0}
  /\ DOMAIN entries \subseteq 1 .. nextId - 1
  /\ entries \in [DOMAIN entries -> Rows]
  /\ \A e \in DOMAIN entries : entries[e].of \in keywords
  /\ lastMsgs \in [Places -> [Nicks -> Said]]
  /\ task \in {Idle} \cup Tasks

(***************************************************************************)
(* The entries of a keyword are finitely many.                             *)
(***************************************************************************)
LEMMA EntriesFinite ==
  ASSUME Typed, NEW k
  PROVE  /\ IsFiniteSet(EntriesOf(k)) /\ EntriesOf(k) \subseteq DOMAIN entries
         /\ \A e \in EntriesOf(k) : e \in Nat /\ entries[e].idx \in Int
<1>1. IsFiniteSet(1 .. nextId - 1)
  BY FS_Interval DEF Typed
<1>2. EntriesOf(k) \in SUBSET (1 .. nextId - 1)
  BY DEF Typed, EntriesOf
<1>3. IsFiniteSet(EntriesOf(k))
  BY <1>1, <1>2, FS_Subset
<1> QED BY <1>2, <1>3 DEF Typed, EntriesOf, Rows

(* What get may find for a word in a channel. *)
Lookup(c, r) ==
  \/ r = Unknown
  \/ r = Halt
  \/ /\ r.kw \in keywords /\ r.kw.chan \in {c, General}
     /\ r.list \in get_entries(r.kw)

(***************************************************************************)
(* An alias names a word.                                                  *)
(***************************************************************************)
LEMMA AliasNamesWord ==
  ASSUME Typed, NEW k, NEW s \in get_entries(k), IsAlias(s)
  PROVE  entries[s[1]].text.see \in Words
<1>1. s \in SetToSeqs(EntriesOf(k))
  BY DEF get_entries
<1>2. s \in Seq(EntriesOf(k)) /\ s # <<>>
  BY <1>1, EntriesFinite, SeqsOfSet DEF IsAlias
<1>3. s[1] \in DOMAIN entries
  BY <1>2, EntriesFinite
<1>4. entries[s[1]].text \in Texts
  BY <1>3 DEF Typed, Rows
<1> QED BY <1>4 DEF IsAlias, Texts

(***************************************************************************)
(* One call of get_inner finds a keyword of the channel or of all, if the  *)
(* next one does.                                                          *)
(***************************************************************************)
LEMMA CallFinds ==
  ASSUME Typed, NEW w, NEW c, NEW count, NEW next,
         count > RECURSION_LIMIT \/ \A v \in Words : \A r \in next[v] : Lookup(c, r),
         NEW r \in get_inner(w, c, count, next)
  PROVE  Lookup(c, r)
<1>1. CASE Hits(w, c) = {}
  BY <1>1 DEF get_inner, Lookup
<1>2. CASE Hits(w, c) # {}
  <2>1. PICK k \in Hits(w, c) : \E s \in get_entries(k) :
          r \in IF ~ IsAlias(s) THEN {[kw |-> k, list |-> s]}
                ELSE IF count > RECURSION_LIMIT THEN {Halt}
                ELSE next[entries[s[1]].text.see]
    BY <1>2 DEF get_inner
  <2>2. PICK s \in get_entries(k) :
          r \in IF ~ IsAlias(s) THEN {[kw |-> k, list |-> s]}
                ELSE IF count > RECURSION_LIMIT THEN {Halt}
                ELSE next[entries[s[1]].text.see]
    BY <2>1
  <2>3. k \in keywords /\ k.chan \in {c, General}
    BY DEF Hits
  <2>4. CASE ~ IsAlias(s)
    BY <2>2, <2>3, <2>4 DEF Lookup
  <2>5. CASE IsAlias(s)
    BY <2>2, <2>5, AliasNamesWord DEF Lookup
  <2> QED BY <2>4, <2>5
<1> QED BY <1>1, <1>2

(* What the call numbered n gets to see when f says what the calls find.   *)
Seen(f, n) == IF n > RECURSION_LIMIT THEN <<>> ELSE f[n + 1]
Call(c, f, n) == [w \in Words |-> get_inner(w, c, n, Seen(f, n))]
Depths == 0 .. RECURSION_LIMIT + 1

(***************************************************************************)
(* The calls of get_inner are well defined: each depends on the next one   *)
(* only, and the last on none.                                             *)
(***************************************************************************)
LEMMA CallsExist ==
  ASSUME NEW c
  PROVE  \E f : f = [n \in Depths |-> Call(c, f, n)]
<1> DEFINE N == RECURSION_LIMIT + 1
           From(m, f) == /\ f = [n \in Depths |-> f[n]]
                         /\ \A n \in m .. N : f[n] = Call(c, f, n)
           Missing == {i \in 0 .. N : ~ \E f : From(N - i, f)}
<1> USE WordsAssumption
<1>1. ASSUME Missing # {} PROVE FALSE
  <2>1. PICK i \in Missing : \A j \in Missing : i <= j
    <3>1. Missing \in SUBSET Nat
      OBVIOUS
    <3> HIDE DEF Missing
    <3> QED BY <1>1, <3>1, LeastNumber
  <2>2. i \in 0 .. N /\ ~ \E f : From(N - i, f)
    OBVIOUS
  <2>3. \E f : i = 0 \/ From(N - (i - 1), f)
    <3>1. CASE i > 0
      <4>1. i - 1 \in 0 .. N /\ ~ (i <= i - 1)
        BY <2>2, <3>1
      <4>2. i - 1 \notin Missing
        BY <2>1, <4>1
      <4> QED BY <4>1, <4>2
    <3> QED BY <2>2, <3>1
  <2>4. PICK f : i = 0 \/ From(N - (i - 1), f)
    BY <2>3
  <2> DEFINE g == [n \in Depths |-> IF n = N - i THEN Call(c, f, n) ELSE f[n]]
  <2>5. \A n \in N - i .. N : Seen(g, n) = Seen(f, n)
    BY <2>2 DEF Seen, Depths
  <2>6. \A n \in N - i .. N : Call(c, g, n) = Call(c, f, n)
    BY <2>5 DEF Call
  <2>7. \A n \in N - i .. N : g[n] = Call(c, f, n)
    <3>1. ASSUME NEW n \in N - i .. N, n # N - i PROVE f[n] = Call(c, f, n) /\ n \in Depths
      <4>1. i > 0 /\ n \in N - (i - 1) .. N
        BY <2>2, <3>1
      <4> QED BY <2>2, <2>4, <4>1 DEF Depths
    <3> HIDE DEF From
    <3>2. N - i \in Depths
      BY <2>2 DEF Depths
    <3> QED BY <3>1, <3>2
  <2>8. From(N - i, g)
    <3> HIDE DEF Missing
    <3>1. g = [n \in Depths |-> g[n]]
      OBVIOUS
    <3> QED BY <2>6, <2>7, <3>1
  <2> QED BY <2>2, <2>8
<1>2. N \in 0 .. N /\ N \notin Missing
  BY <1>1
<1>3. PICK f : From(N - N, f)
  BY <1>2
<1> QED BY <1>3 DEF Depths

(***************************************************************************)
(* However many aliases it follows, get finds a keyword of the channel     *)
(* asked for or a general one, with all its entries in their order.        *)
(***************************************************************************)
LEMMA GetFinds ==
  ASSUME Typed, NEW w \in Words, NEW c, NEW r \in get(w, c)
  PROVE  Lookup(c, r)
<1> DEFINE N == RECURSION_LIMIT + 1
           F == CHOOSE f : f = [n \in Depths |-> Call(c, f, n)]
           Wrong == {i \in 0 .. N : \E v \in Words : \E q \in F[N - i][v] : ~ Lookup(c, q)}
<1> USE WordsAssumption
<1>1. F = [n \in Depths |-> Call(c, F, n)]
  BY CallsExist
<1>2. get(w, c) = F[0][w]
  BY DEF get, Call, Seen, Depths
<1> HIDE DEF F
<1>3. ASSUME Wrong # {} PROVE FALSE
  <2>1. PICK i \in Wrong : \A j \in Wrong : i <= j
    <3>1. Wrong \in SUBSET Nat
      OBVIOUS
    <3> HIDE DEF Wrong
    <3> QED BY <1>3, <3>1, LeastNumber
  <2>2. PICK v \in Words : \E q \in F[N - i][v] : ~ Lookup(c, q)
    OBVIOUS
  <2>3. PICK q \in F[N - i][v] : ~ Lookup(c, q)
    BY <2>2
  <2>4. i \in 0 .. N /\ N - i \in Depths
    BY DEF Depths
  <2>5. F[N - i][v] = get_inner(v, c, N - i, Seen(F, N - i))
    BY <1>1, <2>4 DEF Call
  <2>6. \/ N - i > RECURSION_LIMIT
        \/ \A u \in Words : \A p \in Seen(F, N - i)[u] : Lookup(c, p)
    <3>1. CASE i > 0
      <4>1. i - 1 \in 0 .. N /\ ~ (i <= i - 1) /\ N - (i - 1) = N - i + 1
        BY <2>4, <3>1
      <4>2. i - 1 \notin Wrong
        BY <2>1, <4>1
      <4>3. \A u \in Words : \A p \in F[N - i + 1][u] : Lookup(c, p)
        BY <4>1, <4>2
      <4> QED BY <4>3 DEF Seen
    <3> QED BY <2>4, <3>1
  <2> HIDE DEF N
  <2> QED BY <2>3, <2>5, <2>6, CallFinds
<1>4. N \in 0 .. N /\ N \notin Wrong
  BY <1>3
<1>5. \A v \in Words : \A q \in F[N - N][v] : Lookup(c, q)
  BY <1>4
<1> QED BY <1>2, <1>5

-----------------------------------------------------------------------------
Entitled(nick, chan, k) == IF k.chan = General THEN nick \in Admins ELSE k.chan = chan

(***************************************************************************)
(* The handler that runs knows its keyword, and from the check of the      *)
(* admins on it may change it.  Before its first write it has all the      *)
(* entries in their order, afterwards nothing it does is about an entry of *)
(* another keyword.                                                        *)
(***************************************************************************)
TaskInv ==
  /\ task.at = "create" => task.kw.chan \in {task.in, General} /\ task.list = <<>>
  /\ task.at \in {"create", "act"} => task.moves = <<>>
  /\ task.at \in {"act", "moves"} =>
       /\ task.kw \in keywords
       /\ Entitled(task.by, task.in, task.kw)
       /\ EntriesOf(task.kw) \subseteq {task.list[i] : i \in DOMAIN task.list}
  /\ task.at = "act" => task.list \in get_entries(task.kw)
  /\ task.at = "moves" =>
       /\ task.cmd \in MoveTo
       /\ \A i \in DOMAIN task.list :
            task.list[i] \in DOMAIN entries => entries[task.list[i]].of = task.kw
       /\ \A n \in DOMAIN task.moves :
            \E i \in DOMAIN task.list : task.moves[n].id = task.list[i]

(***************************************************************************)
(* The entries of a keyword that is not shifted are numbered without gaps, *)
(* once the moves that are still to be made have been.                     *)
(***************************************************************************)
Deleting == task.at = "moves" /\ task.cmd.to < 0
Pending  == IF task.at = "moves" THEN task.moves ELSE <<>>

Aims(e, idx) ==
  /\ \A n \in DOMAIN Pending : Pending[n].id = e => Pending[n].idx = idx
  /\ (\A n \in DOMAIN Pending : Pending[n].id # e) => entries[e].idx = idx

Numbering(k) == Bijection(EntriesOf(k), 1 .. Cardinality(EntriesOf(k)))

(* The entries are numbered without gaps now, or will be.                  *)
Numbered(k) == \E f \in Numbering(k) : \A e \in EntriesOf(k) : entries[e].idx = f[e]
Aimed(k)    == \E f \in Numbering(k) : \A e \in EntriesOf(k) : Aims(e, f[e])

NumbersInv == \A k \in keywords \ shifted :
                (Deleting /\ task.kw = k) \/ Aimed(k)

(* A notice was about an entry, and gave it its number. *)
SaidInv ==
  /\ task # Idle => said = Silence
  /\ said # Silence =>
       /\ said.at \in Nat \ {0} /\ said.entry \in DOMAIN entries
       /\ entries[said.entry].of \notin shifted => entries[said.entry].idx = said.at

(***************************************************************************)
(* A deletion on its way: g are the numbers from before it, the entries at *)
(* the places before c have been moved, and moves are left for those at    *)
(* the places u.                                                           *)
(***************************************************************************)
Steady(g) ==
  /\ \A i, j \in DOMAIN g : i < j => g[i] <= g[j]
  /\ task.kw \notin shifted =>
       \A i, j \in DOMAIN g : g[i] > 0 /\ (i < j => g[i] < g[j])

Goes(g, i) == g[i] \in 0 .. task.cmd.idx - 1

Progress(g, c, u) ==
  /\ \A i, j \in DOMAIN u : i < j => u[i] < u[j]
  /\ {u[n] : n \in DOMAIN u} = {i \in DOMAIN g : Goes(g, i) /\ i >= c}
  /\ \A n \in DOMAIN u :
       task.moves[n] = [id |-> task.list[u[n]], idx |-> g[u[n]] - 1]
  /\ \A i \in DOMAIN g :
       task.list[i] \in DOMAIN entries =>
         entries[task.list[i]].idx = IF Goes(g, i) /\ i < c THEN g[i] - 1 ELSE g[i]

Distinct == \A i, j \in DOMAIN task.list : task.list[i] = task.list[j] => i = j

DeletionInv ==
  Deleting =>
    /\ Distinct
    /\ \E g \in [DOMAIN task.list -> Int], c \in Nat,
          u \in [DOMAIN task.moves -> DOMAIN task.list] : Steady(g) /\ Progress(g, c, u)

-----------------------------------------------------------------------------
(***************************************************************************)
(* A list of get_entries has every entry of its keyword in one place.      *)
(***************************************************************************)
LEMMA ListOfEntries ==
  ASSUME Typed, NEW k, NEW s \in get_entries(k)
  PROVE  /\ s \in Seq(Nat) /\ s \in Seq(EntriesOf(k)) /\ DOMAIN s = 1 .. Len(s)
         /\ Len(s) = Cardinality(EntriesOf(k)) /\ Len(s) \in Nat
         /\ \A i \in DOMAIN s : s[i] \in EntriesOf(k)
         /\ \A i, j \in DOMAIN s : s[i] = s[j] => i = j
         /\ \A e \in EntriesOf(k) : \E i \in DOMAIN s : s[i] = e
         /\ \A i, j \in DOMAIN s : i < j => entries[s[i]].idx <= entries[s[j]].idx
<1>1. s \in SetToSeqs(EntriesOf(k)) /\ IsFiniteSet(EntriesOf(k)) /\ EntriesOf(k) \subseteq Nat
  BY EntriesFinite DEF get_entries
<1>2. /\ s \in Seq(EntriesOf(k)) /\ Len(s) = Cardinality(EntriesOf(k)) /\ Len(s) \in Nat
      /\ s \in [1 .. Cardinality(EntriesOf(k)) -> EntriesOf(k)]
      /\ DOMAIN s = 1 .. Cardinality(EntriesOf(k))
  BY <1>1, SeqsOfSet
<1>3. s \in Seq(Nat)
  BY <1>1, <1>2
<1>4. \A i, j \in DOMAIN s : s[i] = s[j] => i = j
  BY <1>1, SeqsOfSet
<1>5. \A e \in EntriesOf(k) : \E i \in DOMAIN s : s[i] = e
  BY <1>1, SeqsOfSet
<1>6. \A i, j \in DOMAIN s : i < j => entries[s[i]].idx <= entries[s[j]].idx
  BY DEF get_entries
<1> QED BY <1>2, <1>3, <1>4, <1>5, <1>6

(***************************************************************************)
(* What users write has the shape of a command or is talk.                 *)
(***************************************************************************)
LEMMA CommandTypes ==
  ASSUME NEW m \in Messages
  PROVE  /\ m.nick \in Nicks /\ m.chan \in Places
         /\ m.cmd.do = "say" => m.cmd \in Talk
         /\ m.cmd.do # "say" => /\ m.cmd \in Commands
                               /\ m.cmd.gen \in BOOLEAN /\ m.cmd.subj \in Words
<1>1. m.nick \in Nicks /\ m.chan \in Places
  BY MessagesAssumption DEF Places
<1>2. m.cmd \in Commands \/ m.cmd \in Talk
  BY MessagesAssumption DEF Commands
<1>3. m.cmd \in Talk => m.cmd.do = "say"
  BY DEF Talk
<1>4. m.cmd \in Commands => m.cmd.do # "say" /\ m.cmd.gen \in BOOLEAN /\ m.cmd.subj \in Words
  BY DEF Commands, Learn, Quote, MoveTo, Counting
<1> QED BY <1>1, <1>2, <1>3, <1>4

(***************************************************************************)
(* A command is taken on for a new keyword of the channel or of all, or    *)
(* for one that exists and that its nick may change.                       *)
(***************************************************************************)
LEMMA ReceiveTakes ==
  ASSUME Typed, NEW m \in Messages, Receive(m.nick, m.chan, m.cmd)
  PROVE  /\ UNCHANGED <<stored, lastMsgs, shifted>> /\ task = Idle /\ said' = Silence
         /\ m.cmd \in Commands /\ m.nick \in Nicks /\ m.chan \in Places
         /\ \/ \E k \in Keywords :
                 /\ k.chan \in {m.chan, General}
                 /\ task' = Task("create", m.nick, m.chan, m.cmd, k, <<>>)
            \/ \E k \in keywords : \E s \in get_entries(k) :
                 /\ Entitled(m.nick, m.chan, k)
                 /\ task' = Task("act", m.nick, m.chan, m.cmd, k, s)
<1> DEFINE learn_chan == IF m.cmd.gen THEN General ELSE m.chan
<1>1. /\ UNCHANGED <<stored, lastMsgs, shifted>> /\ task = Idle /\ said' = Silence
      /\ m.cmd.do # "say" /\ (m.chan = Direct => learn_chan = General)
  BY DEF Receive
<1>2. m.cmd \in Commands /\ m.cmd.subj \in Words /\ m.nick \in Nicks /\ m.chan \in Places
  BY <1>1, CommandTypes
<1>3. learn_chan \in {m.chan, General} /\ learn_chan \in Channels \cup {General}
  BY <1>1, <1>2 DEF Places
<1>4. PICK found \in get(m.cmd.subj, learn_chan) :
        \/ /\ found = Unknown
           /\ task' = Task("create", m.nick, m.chan, m.cmd,
                           [name |-> m.cmd.subj, chan |-> learn_chan], <<>>)
        \/ /\ found \notin {Unknown, Halt}
           /\ MayChange(m.nick, found.kw, learn_chan)
           /\ task' = Task("act", m.nick, m.chan, m.cmd, found.kw, found.list)
  BY DEF Receive
<1> HIDE DEF learn_chan
<1>5. CASE task' = Task("create", m.nick, m.chan, m.cmd,
                        [name |-> m.cmd.subj, chan |-> learn_chan], <<>>)
  <2>1. [name |-> m.cmd.subj, chan |-> learn_chan] \in Keywords
    BY <1>2, <1>3 DEF Keywords
  <2> QED BY <1>1, <1>2, <1>3, <1>5, <2>1
<1>6. CASE /\ found \notin {Unknown, Halt}
           /\ MayChange(m.nick, found.kw, learn_chan)
           /\ task' = Task("act", m.nick, m.chan, m.cmd, found.kw, found.list)
  <2>1. /\ found.kw \in keywords /\ found.kw.chan \in {learn_chan, General}
        /\ found.list \in get_entries(found.kw)
    BY <1>2, <1>4, <1>6, GetFinds DEF Lookup
  <2>2. Entitled(m.nick, m.chan, found.kw)
    BY <1>3, <1>6, <2>1 DEF Entitled, MayChange
  <2> QED BY <1>1, <1>2, <1>6, <2>1, <2>2
<1> QED BY <1>4, <1>5, <1>6

(***************************************************************************)
(* A set of numbers in their order.                                        *)
(***************************************************************************)
LEMMA InOrderPlaces ==
  ASSUME NEW S \in SUBSET Nat, IsFiniteSet(S), NEW s \in InOrder(S)
  PROVE  /\ Len(s) \in Nat /\ DOMAIN s = 1 .. Len(s) /\ s \in [1 .. Len(s) -> S]
         /\ \A i, j \in DOMAIN s : i < j => s[i] < s[j]
         /\ S = {s[n] : n \in DOMAIN s}
<1>1. s \in SetToSeqs(S) /\ \A i, j \in DOMAIN s : i < j => s[i] < s[j]
  BY DEF InOrder
<1>2. /\ Cardinality(S) \in Nat /\ s \in [1 .. Cardinality(S) -> S]
      /\ Len(s) = Cardinality(S) /\ DOMAIN s = 1 .. Cardinality(S)
      /\ \A e \in S : \E i \in DOMAIN s : s[i] = e
  BY <1>1, SeqsOfSet
<1> QED BY <1>1, <1>2

(***************************************************************************)
(* The moves of a deletion are about entries of its list, in their order.  *)
(***************************************************************************)
LEMMA DeleteMoves ==
  ASSUME Typed, TaskInv, task.at = "act", task.cmd \in MoveTo, NEW moves \in MovesOfDelete
  PROVE  /\ moves \in Seq(Steps)
         /\ \E u \in [DOMAIN moves -> DOMAIN task.list] :
              /\ \A i, j \in DOMAIN u : i < j => u[i] < u[j]
              /\ {u[n] : n \in DOMAIN u} = MovingBack
              /\ \A n \in DOMAIN u : moves[n] = MoveBack(task.list[u[n]])
<1>1. task.list \in get_entries(task.kw)
  BY DEF TaskInv
<1> DEFINE L == task.list
<1>2. /\ Len(L) \in Nat /\ DOMAIN L = 1 .. Len(L)
      /\ \A i \in DOMAIN L : L[i] \in EntriesOf(task.kw)
  BY <1>1, ListOfEntries
<1>3. \A i \in DOMAIN L : L[i] \in Nat /\ entries[L[i]].idx \in Int
  BY <1>2, EntriesFinite
<1>4. IsFiniteSet(MovingBack) /\ MovingBack \in SUBSET Nat /\ MovingBack \subseteq DOMAIN L
  <2>1. IsFiniteSet(1 .. Len(L)) /\ MovingBack \in SUBSET (1 .. Len(L))
    BY <1>2, FS_Interval DEF MovingBack
  <2>2. IsFiniteSet(MovingBack)
    BY <2>1, FS_Subset
  <2> QED BY <2>1, <2>2, <1>2
<1>5. PICK s \in InOrder(MovingBack) : moves = [n \in DOMAIN s |-> MoveBack(L[s[n]])]
  BY DEF MovesOfDelete
<1>6. /\ Len(s) \in Nat /\ DOMAIN s = 1 .. Len(s) /\ s \in [1 .. Len(s) -> MovingBack]
      /\ \A i, j \in DOMAIN s : i < j => s[i] < s[j]
      /\ MovingBack = {s[n] : n \in DOMAIN s}
  BY <1>4, InOrderPlaces
<1> HIDE DEF L
<1>7. \A n \in DOMAIN s : MoveBack(L[s[n]]) \in Steps
  BY <1>3, <1>4, <1>6 DEF MoveBack, Steps
<1>8. moves \in Seq(Steps)
  BY <1>5, <1>6, <1>7
<1>9. s \in [DOMAIN moves -> DOMAIN L]
  BY <1>4, <1>5, <1>6
<1> QED BY <1>5, <1>6, <1>8, <1>9 DEF L

(* A move of a swap, of the entry at place i: its first or its second side. *)
SwapMove(m, place, i) ==
  \/ /\ place = 2 * i
     /\ entries[task.list[i]].idx = task.cmd.idx
     /\ m = [id |-> task.list[i], idx |-> task.cmd.to]
  \/ /\ place = 2 * i + 1
     /\ entries[task.list[i]].idx = task.cmd.to
     /\ m = [id |-> task.list[i], idx |-> task.cmd.idx]

(***************************************************************************)
(* The moves of a swap are about entries of its list that have one of the  *)
(* two numbers.                                                            *)
(***************************************************************************)
LEMMA SwapMoves ==
  ASSUME Typed, TaskInv, task.at = "act", task.cmd \in MoveTo, NEW moves \in MovesOfSwap
  PROVE  /\ moves \in Seq(Steps)
         /\ \E u \in [DOMAIN moves -> Nat] :
              /\ \A i, j \in DOMAIN u : i < j => u[i] < u[j]
              /\ \A n \in DOMAIN u :
                   \E i \in DOMAIN task.list : SwapMove(moves[n], u[n], i)
<1>1. task.list \in get_entries(task.kw)
  BY DEF TaskInv
<1> DEFINE L == task.list
<1>2. /\ Len(L) \in Nat /\ DOMAIN L = 1 .. Len(L)
      /\ \A i \in DOMAIN L : L[i] \in EntriesOf(task.kw)
  BY <1>1, ListOfEntries
<1>3. \A i \in DOMAIN L : L[i] \in Nat /\ entries[L[i]].idx \in Int
  BY <1>2, EntriesFinite
<1> DEFINE at(idx, side) == {2 * i + side : i \in {j \in DOMAIN L : entries[L[j]].idx = idx}}
           S == at(task.cmd.idx, 0) \cup at(task.cmd.to, 1)
           move(place) == [id |-> L[place \div 2],
                           idx |-> IF place % 2 = 0 THEN task.cmd.to ELSE task.cmd.idx]
<1>4. PICK s \in InOrder(S) : moves = [n \in DOMAIN s |-> move(s[n])]
  BY DEF MovesOfSwap
<1>5. \A p \in S : \E i \in DOMAIN L :
         \/ p = 2 * i /\ entries[L[i]].idx = task.cmd.idx
         \/ p = 2 * i + 1 /\ entries[L[i]].idx = task.cmd.to
  <2> TAKE p \in S
  <2>1. CASE p \in at(task.cmd.idx, 0)
    <3>1. PICK i \in {j \in DOMAIN L : entries[L[j]].idx = task.cmd.idx} : p = 2 * i + 0
      BY <2>1
    <3>2. i \in DOMAIN L /\ entries[L[i]].idx = task.cmd.idx /\ p = 2 * i
      BY <1>2, <3>1
    <3> HIDE DEF L
    <3> QED BY <3>2
  <2>2. CASE p \in at(task.cmd.to, 1)
    <3>1. PICK i \in {j \in DOMAIN L : entries[L[j]].idx = task.cmd.to} : p = 2 * i + 1
      BY <2>2
    <3>2. i \in DOMAIN L /\ entries[L[i]].idx = task.cmd.to
      BY <3>1
    <3> HIDE DEF L
    <3> QED BY <3>1, <3>2
  <2> QED BY <2>1, <2>2
<1> HIDE DEF S
<1>6. IsFiniteSet(S) /\ S \in SUBSET Nat
  <2>1. IsFiniteSet(1 .. 2 * Len(L) + 1)
    BY <1>2, FS_Interval
  <2>2. \A p \in S : p \in 1 .. 2 * Len(L) + 1
    BY <1>2, <1>5
  <2> QED BY <1>2, <2>1, <2>2, FS_Subset
<1>7. /\ Len(s) \in Nat /\ DOMAIN s = 1 .. Len(s) /\ s \in [1 .. Len(s) -> S]
      /\ \A i, j \in DOMAIN s : i < j => s[i] < s[j]
  BY <1>6, InOrderPlaces
<1>8. task.cmd.idx \in Int /\ task.cmd.to \in Int
  BY DEF MoveTo
<1>9. \A p \in S : \E i \in DOMAIN L : SwapMove(move(p), p, i) /\ move(p) \in Steps
  <2> TAKE p \in S
  <2>1. PICK i \in DOMAIN L : \/ p = 2 * i /\ entries[L[i]].idx = task.cmd.idx
                              \/ p = 2 * i + 1 /\ entries[L[i]].idx = task.cmd.to
    BY <1>5
  <2>2. i \in Nat /\ L[i] \in Nat
    BY <1>2, <1>3
  <2>3. p \div 2 = i /\ (p = 2 * i => p % 2 = 0) /\ (p = 2 * i + 1 => p % 2 = 1)
    BY <2>1, <2>2
  <2> HIDE DEF L
  <2>4. move(p) \in Steps
    BY <1>8, <2>2, <2>3 DEF Steps
  <2>5. SwapMove(move(p), p, i)
    BY <2>1, <2>3 DEF SwapMove, L
  <2> QED BY <2>4, <2>5
<1> HIDE DEF move
<1>10. moves \in Seq(Steps)
  BY <1>4, <1>7, <1>9
<1>11. \A n \in DOMAIN s : \E i \in DOMAIN L : SwapMove(moves[n], s[n], i)
  BY <1>4, <1>7, <1>9
<1>12. s \in [DOMAIN moves -> Nat]
  BY <1>4, <1>6, <1>7
<1> QED BY <1>7, <1>10, <1>11, <1>12

-----------------------------------------------------------------------------
(***************************************************************************)
(* A handler that is past its check has a task, and so has the one that    *)
(* starts on its moves.                                                    *)
(***************************************************************************)
LEMMA TaskTypes ==
  ASSUME Typed, task.at # "idle"
  PROVE  /\ task \in Tasks /\ task # Idle
         /\ \A moves \in Seq(Steps) :
              LET t == [task EXCEPT !.at = "moves", !.moves = moves]
              IN  /\ t \in Tasks /\ t.at = "moves" /\ t.moves = moves
                  /\ t.by = task.by /\ t.in = task.in /\ t.cmd = task.cmd
                  /\ t.kw = task.kw /\ t.list = task.list
<1>1. task # Idle
  BY DEF Idle
<1>2. task \in Tasks
  BY <1>1 DEF Typed
<1> QED BY <1>1, <1>2 DEF Tasks

(* One entry more, under the number the sequence gives out.                *)
LEMMA InsertAdds ==
  ASSUME Typed, TaskInv, Insert
  PROVE  /\ nextId \notin DOMAIN entries
         /\ DOMAIN entries' = DOMAIN entries \cup {nextId}
         /\ \A e \in DOMAIN entries : entries'[e] = entries[e]
         /\ entries'[nextId] \in Rows
         /\ entries'[nextId].of = task.kw /\ entries'[nextId].idx = Len(task.list) + 1
<1>1. task \in Tasks /\ task.at = "act"
  BY TaskTypes DEF Insert
<1>2. nextId \notin DOMAIN entries
  BY DEF Typed
<1>3. Learnt \subseteq Texts
  <2> SUFFICES ASSUME NEW text \in Learnt PROVE text \in Texts
    OBVIOUS
  <2>1. task.cmd \in Commands /\ task.in \in Places
    BY <1>1 DEF Tasks
  <2>2. CASE task.cmd.do = "learn"
    <3>1. task.cmd \in Learn
      BY <2>1, <2>2 DEF Commands, Learn, Quote, MoveTo, Counting
    <3> QED BY <2>2, <3>1 DEF Learnt, Learn
  <2>3. CASE task.cmd.do = "quote"
    <3>1. PICK grabbed \in Nicks : /\ lastMsgs[task.in][grabbed] # "none"
                                  /\ text = [phrase |-> lastMsgs[task.in][grabbed]]
      BY <2>3 DEF Learnt
    <3>2. lastMsgs[task.in][grabbed] \in STRING
      BY <2>1, <3>1 DEF Typed, Said
    <3> QED BY <3>1, <3>2 DEF Texts
  <2>4. CASE task.cmd.do = "count"
    <3>1. task.cmd \in Counting
      BY <2>1, <2>4 DEF Commands, Learn, Quote, MoveTo, Counting
    <3>2. text = [number |-> task.cmd.by] /\ task.cmd.by \in Int
      BY <2>4, <3>1 DEF Learnt, Counting
    <3> QED BY <3>2 DEF Texts
  <2>5. CASE task.cmd.do \notin {"learn", "quote", "count"}
    BY <2>5 DEF Learnt
  <2> QED BY <2>2, <2>3, <2>4, <2>5
<1>4. PICK text \in Texts :
        entries' = [e \in DOMAIN entries \cup {nextId} |->
                      IF e # nextId THEN entries[e]
                      ELSE [of |-> task.kw, idx |-> NewIdx, text |-> text,
                            today |-> DOMAIN text = {"number"}]]
  BY <1>3 DEF Insert
<1> DEFINE row == [of |-> task.kw, idx |-> NewIdx, text |-> text,
                   today |-> DOMAIN text = {"number"}]
<1>5. row \in Rows /\ row.of = task.kw /\ row.idx = Len(task.list) + 1
  <2>1. task.kw \in Keywords /\ Len(task.list) + 1 \in Int
    BY <1>1 DEF Tasks
  <2>2. (DOMAIN text = {"number"}) \in BOOLEAN
    OBVIOUS
  <2> QED BY <2>1, <2>2 DEF Rows, NewIdx
<1> HIDE DEF row
<1>6. entries' = [e \in DOMAIN entries \cup {nextId} |->
                    IF e # nextId THEN entries[e] ELSE row]
  BY <1>4 DEF row
<1> QED BY <1>2, <1>5, <1>6

(* Counting changes the text of an entry of the task's keyword.            *)
LEMMA CountWrites ==
  ASSUME Typed, TaskInv, Count
  PROVE  /\ DOMAIN entries' = DOMAIN entries
         /\ entries' \in [DOMAIN entries -> Rows]
         /\ \A e \in DOMAIN entries : /\ entries'[e].of = entries[e].of
                                     /\ entries'[e].idx = entries[e].idx
         /\ \E i \in DOMAIN task.list :
              /\ task.list[i] \in EntriesOf(task.kw)
              /\ said' = [at |-> i, entry |-> task.list[i]]
              /\ \A e \in DOMAIN entries : e # task.list[i] => entries'[e] = entries[e]
<1>1. task.at = "act" /\ task.list \in get_entries(task.kw)
  BY DEF Count, TaskInv
<1>2. /\ Len(task.list) \in Nat /\ DOMAIN task.list = 1 .. Len(task.list)
      /\ \A i \in DOMAIN task.list : task.list[i] \in EntriesOf(task.kw)
  BY <1>1, ListOfEntries
<1>3. Counters \in SUBSET (1 .. Len(task.list)) /\ Counters # {}
  BY <1>2 DEF Counters, Count
<1>4. Max(Counters) \in DOMAIN task.list
  BY <1>2, <1>3, MaxIsIn
<1> DEFINE i == Max(Counters)
           d == task.list[i]
           n == entries[task.list[i]].text.number + task.cmd.by
<1>5. /\ n \in -MaxCount .. MaxCount
      /\ entries' = [entries EXCEPT ![d].text = [number |-> n]]
      /\ said' = [at |-> i, entry |-> d]
  BY DEF Count
<1>6. d \in EntriesOf(task.kw) /\ i \in DOMAIN task.list
  BY <1>2, <1>4
<1> HIDE DEF i
<1>7. d \in DOMAIN entries
  BY <1>6 DEF EntriesOf
<1> HIDE DEF d
<1>8. [number |-> n] \in Texts
  <2>1. n \in Int
    BY <1>5
  <2> HIDE DEF n
  <2> QED BY <2>1 DEF Texts
<1> HIDE DEF n
<1>9. /\ DOMAIN entries' = DOMAIN entries
      /\ \A e \in DOMAIN entries : e # d => entries'[e] = entries[e]
      /\ entries'[d] = [entries[d] EXCEPT !.text = [number |-> n]]
  BY <1>5, <1>7
<1>10. entries[d] \in Rows
  BY <1>7 DEF Typed
<1>11. /\ entries'[d] \in Rows /\ entries'[d].of = entries[d].of
       /\ entries'[d].idx = entries[d].idx
  BY <1>8, <1>9, <1>10 DEF Rows
<1>12. \A e \in DOMAIN entries : entries'[e] \in Rows
  BY <1>9, <1>11 DEF Typed
<1>13. entries' \in [DOMAIN entries -> Rows]
  <2>1. entries' = [e \in DOMAIN entries |-> entries'[e]]
    BY <1>5
  <2> QED BY <1>12, <2>1
<1> QED BY <1>5, <1>6, <1>9, <1>11, <1>13 DEF d

(* A move gives an entry of the task's keyword another number.             *)
LEMMA MoveWrites ==
  ASSUME Typed, TaskInv, Move
  PROVE  LET m == Head(task.moves) IN
         /\ m \in Steps /\ m = task.moves[1] /\ 1 \in DOMAIN task.moves
         /\ m.id \in DOMAIN entries => entries[m.id].of = task.kw
         /\ DOMAIN entries' = DOMAIN entries
         /\ entries' \in [DOMAIN entries -> Rows]
         /\ \A e \in DOMAIN entries :
              /\ entries'[e].of = entries[e].of
              /\ entries'[e].idx = IF e = m.id THEN m.idx ELSE entries[e].idx
              /\ e # m.id => entries'[e] = entries[e]
<1> DEFINE m == Head(task.moves)
<1>1. task \in Tasks /\ task.at = "moves"
  BY TaskTypes DEF Move
<1>2. task.moves \in Seq(Steps) /\ task.moves # <<>>
  BY <1>1 DEF Tasks, Move
<1>3. m \in Steps /\ m = task.moves[1] /\ 1 \in DOMAIN task.moves
  BY <1>2
<1>4. m.id \in DOMAIN entries => entries[m.id].of = task.kw
  BY <1>1, <1>3 DEF TaskInv
<1>5. entries' = IF m.id \in DOMAIN entries THEN [entries EXCEPT ![m.id].idx = m.idx] ELSE entries
  BY DEF Move
<1> HIDE DEF m
<1>6. CASE m.id \notin DOMAIN entries
  BY <1>3, <1>5, <1>6 DEF Typed, m
<1>7. CASE m.id \in DOMAIN entries
  <2>1. /\ DOMAIN entries' = DOMAIN entries
        /\ \A e \in DOMAIN entries : e # m.id => entries'[e] = entries[e]
        /\ entries'[m.id] = [entries[m.id] EXCEPT !.idx = m.idx]
    BY <1>5, <1>7
  <2>2. entries[m.id] \in Rows /\ m.idx \in Int
    BY <1>3, <1>7 DEF Typed, Steps
  <2>3. /\ entries'[m.id] \in Rows /\ entries'[m.id].of = entries[m.id].of
        /\ entries'[m.id].idx = m.idx
    BY <2>1, <2>2 DEF Rows
  <2>4. \A e \in DOMAIN entries : entries'[e] \in Rows
    BY <2>1, <2>3 DEF Typed
  <2>5. entries' = [e \in DOMAIN entries |-> entries'[e]]
    BY <1>5, <1>7
  <2>6. entries' \in [DOMAIN entries -> Rows]
    BY <2>4, <2>5
  <2> QED BY <1>3, <1>4, <2>1, <2>3, <2>6 DEF m
<1> QED BY <1>6, <1>7

(* A deletion takes one entry of the task's keyword away.                  *)
LEMMA DeleteRemoves ==
  ASSUME Typed, TaskInv, Delete
  PROVE  /\ task.cmd \in MoveTo /\ task.cmd.to < 0
         /\ \E i \in DOMAIN task.list :
              /\ task.list[i] \in EntriesOf(task.kw)
              /\ DOMAIN entries' = DOMAIN entries \ {task.list[i]}
              /\ entries' \in [DOMAIN entries' -> Rows]
              /\ \A e \in DOMAIN entries' : entries'[e] = entries[e]
         /\ \E moves \in MovesOfDelete :
              /\ moves \in Seq(Steps)
              /\ task' = [task EXCEPT !.at = "moves", !.moves = moves]
<1>1. task \in Tasks /\ task.at = "act" /\ task.list \in get_entries(task.kw)
  BY TaskTypes DEF Delete, TaskInv
<1>2. task.cmd \in MoveTo
  BY <1>1 DEF Delete, Tasks, Commands, Learn, Quote, MoveTo, Counting
<1>3. \A i \in DOMAIN task.list : task.list[i] \in EntriesOf(task.kw)
  BY <1>1, ListOfEntries
<1>4. PICK i \in DOMAIN task.list :
        entries' = [e \in DOMAIN entries \ {task.list[i]} |-> entries[e]]
  BY DEF Delete
<1>5. /\ DOMAIN entries' = DOMAIN entries \ {task.list[i]}
      /\ \A e \in DOMAIN entries' : entries'[e] = entries[e]
      /\ entries' \in [DOMAIN entries' -> Rows]
  BY <1>4 DEF Typed
<1>6. PICK moves \in MovesOfDelete : task' = [task EXCEPT !.at = "moves", !.moves = moves]
  BY DEF Delete
<1>7. moves \in Seq(Steps)
  BY <1>1, <1>2, DeleteMoves
<1>8. task.cmd.to < 0
  BY DEF Delete
<1> QED BY <1>2, <1>3, <1>5, <1>6, <1>7, <1>8

(* A swap starts with its two moves.                                       *)
LEMMA SwapStarts ==
  ASSUME Typed, TaskInv, Swap
  PROVE  /\ task.cmd \in MoveTo /\ task.cmd.to >= 0
         /\ \E moves \in MovesOfSwap :
              /\ moves \in Seq(Steps) /\ Len(moves) = 2
              /\ task' = [task EXCEPT !.at = "moves", !.moves = moves]
<1>1. task \in Tasks /\ task.at = "act"
  BY TaskTypes DEF Swap
<1>2. task.cmd \in MoveTo
  BY <1>1 DEF Swap, Tasks, Commands, Learn, Quote, MoveTo, Counting
<1>3. PICK moves \in MovesOfSwap :
        Len(moves) = 2 /\ task' = [task EXCEPT !.at = "moves", !.moves = moves]
  BY DEF Swap
<1>4. moves \in Seq(Steps)
  BY <1>1, <1>2, SwapMoves
<1>5. task.cmd.to >= 0
  BY DEF Swap
<1> QED BY <1>2, <1>3, <1>4, <1>5

-----------------------------------------------------------------------------
(* The steps, for the case splits below.                                   *)
LEMMA NextCases ==
  ASSUME [Next]_vars
  PROVE  \/ \E m \in Messages : Say(m.nick, m.chan, m.cmd)
         \/ \E m \in Messages : Receive(m.nick, m.chan, m.cmd)
         \/ \E chan \in Places, subj \in Words : Query(chan, subj, 1 .. MaxEntries)
         \/ Create \/ Insert \/ Count \/ Delete \/ Swap \/ Move \/ Moved
         \/ Fail \/ Restart \/ Midnight \/ UNCHANGED vars
  BY DEF Next, Places

(* The steps that leave the tables alone and start no task.                *)
Quiet ==
  /\ UNCHANGED stored
  /\ UNCHANGED task \/ task' = Idle

(***************************************************************************)
(* Talk, questions, the ends of handlers and restarts write nothing.       *)
(***************************************************************************)
LEMMA QuietSteps ==
  ASSUME \/ \E m \in Messages : Say(m.nick, m.chan, m.cmd)
         \/ \E chan \in Places, subj \in Words : Query(chan, subj, 1 .. MaxEntries)
         \/ Moved \/ Fail \/ Restart \/ UNCHANGED vars
  PROVE  Quiet
  BY DEF Quiet, Say, Query, Moved, Fail, Restart, Ends, vars, stored

(* Midnight changes what counts as today, and no number and no text.       *)
LEMMA MidnightKeeps ==
  ASSUME Typed, Midnight
  PROVE  /\ UNCHANGED <<keywords, nextId, lastMsgs, task, said, shifted>>
         /\ DOMAIN entries' = DOMAIN entries
         /\ entries' \in [DOMAIN entries -> Rows]
         /\ \A e \in DOMAIN entries : /\ entries'[e].of = entries[e].of
                                     /\ entries'[e].idx = entries[e].idx
                                     /\ entries'[e].text = entries[e].text
<1>1. entries' = [e \in DOMAIN entries |-> [entries[e] EXCEPT !.today = FALSE]]
  BY DEF Midnight
<1>2. \A e \in DOMAIN entries :
        LET r == [entries[e] EXCEPT !.today = FALSE]
        IN  /\ r \in Rows /\ r.of = entries[e].of /\ r.idx = entries[e].idx
            /\ r.text = entries[e].text
  BY DEF Typed, Rows
<1> QED BY <1>1, <1>2 DEF Midnight

(***************************************************************************)
(* Every step keeps the types.                                             *)
(***************************************************************************)
LEMMA TypeStep == ASSUME Typed, TaskInv, [Next]_vars PROVE Typed'
<1>1. ASSUME NEW m \in Messages, Say(m.nick, m.chan, m.cmd) PROVE Typed'
  <2>1. UNCHANGED <<stored, task>>
    BY <1>1 DEF Say
  <2>2. m.nick \in Nicks /\ m.chan \in Places /\ m.cmd \in Talk
    BY <1>1, CommandTypes DEF Say
  <2>3. m.cmd.text \in Said
    BY <2>2 DEF Talk, Said
  <2>4. lastMsgs' \in [Places -> [Nicks -> Said]]
    BY <1>1, <2>2, <2>3 DEF Say, Typed
  <2> QED BY <2>1, <2>4 DEF Typed, stored
<1>2. ASSUME NEW m \in Messages, Receive(m.nick, m.chan, m.cmd) PROVE Typed'
  <2>1. /\ UNCHANGED <<stored, lastMsgs>>
        /\ m.cmd \in Commands /\ m.nick \in Nicks /\ m.chan \in Places
    BY <1>2, ReceiveTakes
  <2>2. PICK at \in {"create", "act"}, k \in Keywords, s \in Seq(Nat) :
          task' = Task(at, m.nick, m.chan, m.cmd, k, s)
    <3>1. CASE \E k \in Keywords : task' = Task("create", m.nick, m.chan, m.cmd, k, <<>>)
      <4>1. PICK k \in Keywords : task' = Task("create", m.nick, m.chan, m.cmd, k, <<>>)
        BY <3>1
      <4>2. <<>> \in Seq(Nat) /\ "create" \in {"create", "act"}
        OBVIOUS
      <4> QED BY <4>1, <4>2
    <3>2. CASE \E k \in keywords : \E s \in get_entries(k) :
                 task' = Task("act", m.nick, m.chan, m.cmd, k, s)
      BY <3>2, ListOfEntries DEF Typed
    <3> QED BY <1>2, <3>1, <3>2, ReceiveTakes
  <2>3. task' \in Tasks
    BY <2>1, <2>2 DEF Task, Tasks
  <2> QED BY <2>1, <2>3 DEF Typed, stored
<1>3. CASE Create
  <2>1. task \in Tasks
    BY <1>3, TaskTypes DEF Create
  <2>2. /\ keywords' = keywords \cup {task.kw} /\ UNCHANGED <<entries, nextId, lastMsgs>>
        /\ task' = [task EXCEPT !.at = "act"] \/ task' = Idle
    BY <1>3 DEF Create, Ends
  <2>3. task' \in {Idle} \cup Tasks
    BY <2>1, <2>2 DEF Tasks
  <2>4. task.kw \in Keywords
    BY <2>1 DEF Tasks
  <2> QED BY <2>2, <2>3, <2>4 DEF Typed
<1>4. CASE Insert
  <2>1. nextId' = nextId + 1 /\ task' = Idle /\ UNCHANGED <<keywords, lastMsgs>>
    BY <1>4 DEF Insert
  <2>2. task.kw \in keywords
    BY <1>4 DEF Insert, TaskInv
  <2>3. \A e \in DOMAIN entries' : entries'[e] \in Rows /\ entries'[e].of \in keywords
    BY <1>4, <2>2, InsertAdds DEF Typed
  <2>4. entries' = [e \in DOMAIN entries' |-> entries'[e]]
    BY <1>4 DEF Insert
  <2>5. entries' \in [DOMAIN entries' -> Rows]
    BY <2>3, <2>4
  <2>6. DOMAIN entries' \subseteq 1 .. nextId' - 1
    BY <1>4, <2>1, InsertAdds DEF Typed
  <2> QED BY <2>1, <2>3, <2>5, <2>6 DEF Typed
<1>5. CASE Count
  <2>1. task' = Idle /\ UNCHANGED <<keywords, nextId, lastMsgs>>
    BY <1>5 DEF Count
  <2>2. /\ DOMAIN entries' = DOMAIN entries
        /\ entries' \in [DOMAIN entries -> Rows]
        /\ \A e \in DOMAIN entries : entries'[e].of = entries[e].of
    BY <1>5, CountWrites
  <2> QED BY <2>1, <2>2 DEF Typed
<1>6. CASE Delete
  <2>1. UNCHANGED <<keywords, nextId, lastMsgs>> /\ task.at = "act"
    BY <1>6 DEF Delete
  <2>2. task' \in Tasks
    BY <1>6, <2>1, DeleteRemoves, TaskTypes
  <2> QED BY <1>6, <2>1, <2>2, DeleteRemoves DEF Typed
<1>7. CASE Swap
  <2>1. UNCHANGED <<stored, lastMsgs>> /\ task.at = "act"
    BY <1>7 DEF Swap
  <2>2. task' \in Tasks
    BY <1>7, <2>1, SwapStarts, TaskTypes
  <2> QED BY <2>1, <2>2 DEF Typed, stored
<1>8. CASE Move
  <2>1. UNCHANGED <<keywords, nextId, lastMsgs>> /\ task.at = "moves" /\ task.moves # <<>>
        /\ task' = [task EXCEPT !.moves = Tail(@)]
    BY <1>8 DEF Move
  <2>2. task' \in Tasks
    <3>1. task \in Tasks
      BY <2>1, TaskTypes
    <3>2. Tail(task.moves) \in Seq(Steps)
      BY <2>1, <3>1 DEF Tasks
    <3>3. task' = [task EXCEPT !.moves = Tail(task.moves)]
      BY <2>1
    <3> HIDE DEF Steps
    <3> QED BY <3>1, <3>2, <3>3 DEF Tasks
  <2> QED BY <1>8, <2>1, <2>2, MoveWrites DEF Typed
<1>9. CASE Midnight
  BY <1>9, MidnightKeeps DEF Typed
<1>10. CASE Quiet /\ lastMsgs' \in [Places -> [Nicks -> Said]]
  BY <1>10 DEF Quiet, Typed, stored
<1>11. CASE \/ \E chan \in Places, subj \in Words : Query(chan, subj, 1 .. MaxEntries)
            \/ Moved \/ Fail \/ Restart \/ UNCHANGED vars
  <2>1. lastMsgs' \in [Places -> [Nicks -> Said]]
    <3>1. CASE Restart
      <4>1. lastMsgs' = [c \in Places |-> [n \in Nicks |-> "none"]]
        BY <3>1 DEF Restart, Places
      <4>2. "none" \in Said
        BY DEF Said
      <4> QED BY <4>1, <4>2
    <3>2. CASE ~ Restart
      BY <1>11, <3>2 DEF Query, Moved, Fail, vars, Typed
    <3> QED BY <3>1, <3>2
  <2> QED BY <1>10, <1>11, <2>1, QuietSteps
<1> QED
  BY <1>1, <1>2, <1>3, <1>4, <1>5, <1>6, <1>7, <1>8, <1>9, <1>11, NextCases

(* Nobody has a task when the handler has ended.                           *)
LEMMA IdleHasNoTask ==
  ASSUME task' = Idle
  PROVE  TaskInv'
<1>1. task'.at = "idle"
  BY DEF Idle
<1> QED BY <1>1 DEF TaskInv

(***************************************************************************)
(* Every step keeps what a handler knows of its keyword.                   *)
(***************************************************************************)
LEMMA TaskStep == ASSUME Typed, TaskInv, [Next]_vars PROVE TaskInv'
<1>1. ASSUME NEW m \in Messages, Say(m.nick, m.chan, m.cmd) PROVE TaskInv'
  BY <1>1, IdleHasNoTask DEF Say
<1>2. ASSUME NEW m \in Messages, Receive(m.nick, m.chan, m.cmd) PROVE TaskInv'
  <2>1. UNCHANGED stored
    BY <1>2, ReceiveTakes
  <2>2. ASSUME NEW k \in Keywords, k.chan \in {m.chan, General},
               task' = Task("create", m.nick, m.chan, m.cmd, k, <<>>)
        PROVE  TaskInv'
    BY <2>2 DEF TaskInv, Task
  <2>3. ASSUME NEW k \in keywords, NEW s \in get_entries(k), Entitled(m.nick, m.chan, k),
               task' = Task("act", m.nick, m.chan, m.cmd, k, s)
        PROVE  TaskInv'
    <3>1. /\ task'.at = "act" /\ task'.by = m.nick /\ task'.in = m.chan
          /\ task'.kw = k /\ task'.list = s /\ task'.moves = <<>>
      BY <2>3 DEF Task
    <3>2. EntriesOf(k) \subseteq {s[i] : i \in DOMAIN s}
      BY ListOfEntries
    <3>3. EntriesOf(task.kw)' = EntriesOf(k) /\ get_entries(task.kw)' = get_entries(k)
      BY <2>1, <3>1 DEF EntriesOf, get_entries, stored
    <3> QED BY <2>1, <2>3, <3>1, <3>2, <3>3 DEF TaskInv, stored, Entitled
  <2> QED BY <1>2, <2>2, <2>3, ReceiveTakes
<1>3. CASE Create
  <2>1. CASE task' = Idle
    BY <2>1, IdleHasNoTask
  <2>2. CASE task' # Idle
    <3>1. /\ task \in Tasks /\ task.at = "create" /\ task.kw \notin keywords
          /\ keywords' = keywords \cup {task.kw} /\ UNCHANGED entries
          /\ task' = [task EXCEPT !.at = "act"] /\ MayChange(task.by, task.kw, task.kw.chan)
      BY <1>3, <2>2, TaskTypes DEF Create, Ends
    <3>2. /\ task'.at = "act" /\ task'.by = task.by /\ task'.in = task.in
          /\ task'.kw = task.kw /\ task'.list = task.list /\ task'.moves = task.moves
      BY <3>1 DEF Tasks
    <3>3. /\ task.list = <<>> /\ task.moves = <<>> /\ task.kw.chan \in {task.in, General}
      BY <3>1 DEF TaskInv
    <3>4. Entitled(task.by, task.in, task.kw)
      BY <3>1, <3>3 DEF Entitled, MayChange
    <3>5. EntriesOf(task.kw) = {}
      BY <3>1 DEF EntriesOf, Typed
    <3>6. <<>> \in get_entries(task.kw)
      <4>1. <<>> \in SetToSeqs({})
        BY FS_EmptySet DEF SetToSeqs
      <4> QED BY <3>5, <4>1 DEF get_entries
    <3>7. EntriesOf(task.kw)' = {} /\ get_entries(task.kw)' = get_entries(task.kw)
      BY <3>1, <3>2, <3>5 DEF EntriesOf, get_entries
    <3> QED BY <3>1, <3>2, <3>3, <3>4, <3>6, <3>7 DEF TaskInv, Entitled
  <2> QED BY <2>1, <2>2
<1>4. CASE Insert \/ Count
  BY <1>4, IdleHasNoTask DEF Insert, Count
<1>5. CASE Delete
  <2>1. PICK moves \in MovesOfDelete :
          /\ moves \in Seq(Steps)
          /\ task' = [task EXCEPT !.at = "moves", !.moves = moves]
    BY <1>5, DeleteRemoves
  <2>2. /\ task.at = "act" /\ task.cmd \in MoveTo /\ task.list \in get_entries(task.kw)
        /\ UNCHANGED keywords
    BY <1>5, DeleteRemoves DEF Delete, TaskInv
  <2>3. /\ task'.at = "moves" /\ task'.moves = moves /\ task'.by = task.by
        /\ task'.in = task.in /\ task'.cmd = task.cmd /\ task'.kw = task.kw
        /\ task'.list = task.list
    BY <2>1, <2>2, TaskTypes
  <2>4. \A n \in DOMAIN moves : \E i \in DOMAIN task.list : moves[n].id = task.list[i]
    <3>1. PICK u \in [DOMAIN moves -> DOMAIN task.list] :
            \A n \in DOMAIN u : moves[n] = MoveBack(task.list[u[n]])
      BY <2>2, DeleteMoves
    <3> QED BY <3>1 DEF MoveBack
  <2>5. /\ DOMAIN entries' \subseteq DOMAIN entries
        /\ \A e \in DOMAIN entries' : entries'[e] = entries[e]
    BY <1>5, DeleteRemoves
  <2>6. \A i \in DOMAIN task.list : task.list[i] \in EntriesOf(task.kw)
    BY <2>2, ListOfEntries
  <2>7. EntriesOf(task.kw)' \subseteq EntriesOf(task.kw)
    BY <2>3, <2>5 DEF EntriesOf
  <2> QED BY <2>2, <2>3, <2>4, <2>5, <2>6, <2>7 DEF TaskInv, EntriesOf, Entitled
<1>6. CASE Swap
  <2>1. PICK moves \in MovesOfSwap :
          /\ moves \in Seq(Steps)
          /\ task' = [task EXCEPT !.at = "moves", !.moves = moves]
    BY <1>6, SwapStarts
  <2>2. /\ task.at = "act" /\ task.cmd \in MoveTo /\ task.list \in get_entries(task.kw)
        /\ UNCHANGED <<keywords, entries>>
    BY <1>6, SwapStarts DEF Swap, TaskInv, stored
  <2>3. /\ task'.at = "moves" /\ task'.moves = moves /\ task'.by = task.by
        /\ task'.in = task.in /\ task'.cmd = task.cmd /\ task'.kw = task.kw
        /\ task'.list = task.list
    BY <2>1, <2>2, TaskTypes
  <2>4. \A n \in DOMAIN moves : \E i \in DOMAIN task.list : moves[n].id = task.list[i]
    <3>1. PICK u \in [DOMAIN moves -> Nat] :
            \A n \in DOMAIN u : \E i \in DOMAIN task.list : SwapMove(moves[n], u[n], i)
      BY <2>2, SwapMoves
    <3> QED BY <3>1 DEF SwapMove
  <2>5. \A i \in DOMAIN task.list : task.list[i] \in EntriesOf(task.kw)
    BY <2>2, ListOfEntries
  <2>6. EntriesOf(task.kw)' = EntriesOf(task.kw)
    BY <2>2, <2>3 DEF EntriesOf
  <2> QED BY <2>2, <2>3, <2>4, <2>5, <2>6 DEF TaskInv, EntriesOf, Entitled
<1>7. CASE Move
  <2>1. /\ task \in Tasks /\ task.at = "moves" /\ task.moves # <<>> /\ UNCHANGED keywords
        /\ task' = [task EXCEPT !.moves = Tail(task.moves)]
    BY <1>7, TaskTypes DEF Move
  <2>2. /\ task'.at = "moves" /\ task'.moves = Tail(task.moves) /\ task'.by = task.by
        /\ task'.in = task.in /\ task'.cmd = task.cmd /\ task'.kw = task.kw
        /\ task'.list = task.list
    BY <2>1 DEF Tasks
  <2>3. task.moves \in Seq(Steps)
    BY <2>1 DEF Tasks
  <2>4. \A n \in DOMAIN Tail(task.moves) :
          n + 1 \in DOMAIN task.moves /\ Tail(task.moves)[n] = task.moves[n + 1]
    BY <2>1, <2>3
  <2>5. /\ DOMAIN entries' = DOMAIN entries
        /\ \A e \in DOMAIN entries : entries'[e].of = entries[e].of
    BY <1>7, MoveWrites
  <2>6. EntriesOf(task.kw)' = EntriesOf(task.kw)
    BY <2>2, <2>5 DEF EntriesOf
  <2> QED BY <2>1, <2>2, <2>4, <2>5, <2>6 DEF TaskInv, Entitled
<1>8. CASE Midnight
  <2>1. /\ UNCHANGED <<keywords, task>> /\ DOMAIN entries' = DOMAIN entries
        /\ \A e \in DOMAIN entries : /\ entries'[e].of = entries[e].of
                                    /\ entries'[e].idx = entries[e].idx
    BY <1>8, MidnightKeeps
  <2>2. EntriesOf(task.kw)' = EntriesOf(task.kw)
    BY <2>1 DEF EntriesOf
  <2>3. ASSUME task.at = "act" PROVE task.list \in get_entries(task.kw)'
    <3>1. task.list \in get_entries(task.kw)
      BY <2>3 DEF TaskInv
    <3>2. \A i \in DOMAIN task.list : task.list[i] \in DOMAIN entries
      BY <3>1, ListOfEntries DEF EntriesOf
    <3> QED BY <2>1, <2>2, <3>1, <3>2 DEF get_entries
  <2> QED BY <2>1, <2>2, <2>3 DEF TaskInv, Entitled
<1>9. CASE Quiet
  <2>1. CASE UNCHANGED task
    BY <1>9, <2>1 DEF Quiet, stored, TaskInv, EntriesOf, get_entries, Entitled
  <2> QED BY <1>9, <2>1, IdleHasNoTask DEF Quiet
<1> QED
  BY <1>1, <1>2, <1>3, <1>4, <1>5, <1>6, <1>7, <1>8, <1>9, NextCases, QuietSteps

(* Types and tasks as one invariant.                                       *)
LEMMA TypedInit == Init => Typed /\ TaskInv
<1> SUFFICES ASSUME Init PROVE Typed /\ TaskInv
  OBVIOUS
<1>1. task.at = "idle" /\ task = Idle
  BY DEF Init, Idle
<1>2. lastMsgs \in [Places -> [Nicks -> Said]]
  BY DEF Init, Places, Said
<1>3. entries = <<>> /\ DOMAIN entries = {} /\ keywords = {} /\ nextId = 1
  BY DEF Init
<1>4. entries \in [DOMAIN entries -> Rows]
  BY <1>3
<1> QED BY <1>1, <1>2, <1>3, <1>4 DEF Typed, TaskInv

-----------------------------------------------------------------------------
(* What OnlyByThoseWhoMay says of a step.                                  *)
Unchanged(e) ==
  /\ e \in DOMAIN entries \cap DOMAIN entries'
  /\ entries'[e].text = entries[e].text
  /\ entries'[e].idx = entries[e].idx

RightlyChanged ==
  \A e \in DOMAIN entries \cup DOMAIN entries' :
    LET row == IF e \in DOMAIN entries THEN entries[e] ELSE entries'[e]
    IN  Unchanged(e) \/ IF row.of.chan = General THEN task.by \in Admins
                        ELSE row.of.chan = task.in

(***************************************************************************)
(* A step changes entries of the keyword of the task only, which the nick  *)
(* of the command may change.                                              *)
(***************************************************************************)
LEMMA RightlyStep == ASSUME Typed, TaskInv, [Next]_vars PROVE RightlyChanged
<1>1. CASE UNCHANGED entries
  BY <1>1 DEF RightlyChanged, Unchanged
<1>2. CASE Midnight
  BY <1>2, MidnightKeeps DEF RightlyChanged, Unchanged
<1>3. ASSUME task.at \in {"act", "moves"},
             \A e \in DOMAIN entries \cup DOMAIN entries' :
               \/ Unchanged(e)
               \/ e \in DOMAIN entries /\ entries[e].of = task.kw
               \/ e \notin DOMAIN entries /\ entries'[e].of = task.kw
      PROVE  RightlyChanged
  <2>1. Entitled(task.by, task.in, task.kw)
    BY <1>3 DEF TaskInv
  <2> QED BY <1>3, <2>1 DEF RightlyChanged, Entitled
<1>4. CASE Insert
  <2>1. task.at = "act"
    BY <1>4 DEF Insert
  <2> QED BY <1>3, <1>4, <2>1, InsertAdds DEF Unchanged
<1>5. CASE Count
  <2>1. task.at = "act"
    BY <1>5 DEF Count
  <2>2. PICK i \in DOMAIN task.list :
          /\ task.list[i] \in EntriesOf(task.kw)
          /\ \A e \in DOMAIN entries : e # task.list[i] => entries'[e] = entries[e]
    BY <1>5, CountWrites
  <2>3. DOMAIN entries' = DOMAIN entries
    BY <1>5, CountWrites
  <2> QED BY <1>3, <2>1, <2>2, <2>3 DEF Unchanged, EntriesOf
<1>6. CASE Delete
  <2>1. task.at = "act"
    BY <1>6 DEF Delete
  <2>2. PICK i \in DOMAIN task.list :
          /\ task.list[i] \in EntriesOf(task.kw)
          /\ DOMAIN entries' = DOMAIN entries \ {task.list[i]}
          /\ \A e \in DOMAIN entries' : entries'[e] = entries[e]
    BY <1>6, DeleteRemoves
  <2> QED BY <1>3, <2>1, <2>2 DEF Unchanged, EntriesOf
<1>7. CASE Move
  <2>1. task.at = "moves"
    BY <1>7 DEF Move
  <2>2. /\ DOMAIN entries' = DOMAIN entries
        /\ \A e \in DOMAIN entries : \/ entries'[e] = entries[e]
                                    \/ entries[e].of = task.kw
    BY <1>7, MoveWrites
  <2> QED BY <1>3, <2>1, <2>2 DEF Unchanged
<1>8. CASE Quiet \/ Create \/ Swap \/ \E m \in Messages : Receive(m.nick, m.chan, m.cmd)
  BY <1>1, <1>8 DEF Quiet, Create, Swap, Receive, stored
<1> QED
  BY <1>2, <1>4, <1>5, <1>6, <1>7, <1>8, NextCases, QuietSteps

(***************************************************************************)
(* Only an admin changes a general entry, and only a command given in its  *)
(* channel another one: the check of keyword_from_captures is made on the  *)
(* keyword found, so that no alias leads around it.                        *)
(***************************************************************************)
THEOREM EntriesAreProtected == Spec => OnlyByThoseWhoMay
<1>1. Typed /\ TaskInv /\ [Next]_vars => (Typed /\ TaskInv)'
  BY TypeStep, TaskStep
<1>2. Typed /\ TaskInv /\ [Next]_vars => [RightlyChanged]_vars
  BY RightlyStep
<1> QED BY TypedInit, <1>1, <1>2, PTL DEF Spec, OnlyByThoseWhoMay, RightlyChanged, Unchanged

-----------------------------------------------------------------------------
(***************************************************************************)
(* A sequence that has every number up to its length, in their order, has  *)
(* each at the place of its own.                                           *)
(***************************************************************************)
LEMMA SortedNumbers ==
  ASSUME NEW n \in Nat, NEW f \in [1 .. n -> 1 .. n],
         \A i, j \in 1 .. n : f[i] = f[j] => i = j,
         \A m \in 1 .. n : \E i \in 1 .. n : f[i] = m,
         \A i, j \in 1 .. n : i < j => f[i] <= f[j]
  PROVE  \A i \in 1 .. n : f[i] = i
<1> DEFINE Bad == {i \in 1 .. n : f[i] # i}
<1>1. ASSUME Bad # {} PROVE FALSE
  <2>1. PICK i \in Bad : \A j \in Bad : i <= j
    <3>1. Bad \in SUBSET Nat
      OBVIOUS
    <3> HIDE DEF Bad
    <3> QED BY <1>1, <3>1, LeastNumber
  <2>2. \A j \in 1 .. n : j < i => f[j] = j
    BY <2>1
  <2>3. i \in 1 .. n /\ f[i] # i /\ f[i] \in 1 .. n
    OBVIOUS
  <2>4. f[i] > i
    <3>1. CASE f[i] < i
      BY <2>2, <2>3, <3>1
    <3> QED BY <2>3, <3>1
  <2>5. PICK k \in 1 .. n : f[k] = i
    BY <2>3
  <2>6. CASE k < i
    BY <2>2, <2>5, <2>6
  <2>7. CASE k > i
    BY <2>3, <2>4, <2>5, <2>7
  <2> QED BY <2>3, <2>5, <2>6, <2>7
<1> QED BY <1>1

(***************************************************************************)
(* Of a keyword whose numbers have no gaps every entry is listed at its    *)
(* number.                                                                 *)
(***************************************************************************)
LEMMA NumberedList ==
  ASSUME Typed, NEW k, Numbered(k), NEW s \in get_entries(k)
  PROVE  \A i \in DOMAIN s : entries[s[i]].idx = i
<1> DEFINE S == EntriesOf(k)
           n == Cardinality(S)
<1>1. PICK f \in Bijection(S, 1 .. n) : \A e \in S : entries[e].idx = f[e]
  BY DEF Numbered, Numbering
<1>2. /\ DOMAIN s = 1 .. n /\ n \in Nat
      /\ \A i \in DOMAIN s : s[i] \in S
      /\ \A i, j \in DOMAIN s : s[i] = s[j] => i = j
      /\ \A e \in S : \E i \in DOMAIN s : s[i] = e
      /\ \A i, j \in DOMAIN s : i < j => entries[s[i]].idx <= entries[s[j]].idx
  BY ListOfEntries
<1> HIDE DEF S, n
<1>3. /\ f \in [S -> 1 .. n] /\ \A d, e \in S : f[d] = f[e] => d = e
      /\ \A m \in 1 .. n : \E e \in S : f[e] = m
  BY DEF Bijection, Injection, Surjection, IsInjective
<1> DEFINE g == [i \in 1 .. n |-> f[s[i]]]
<1>4. g \in [1 .. n -> 1 .. n]
  BY <1>2, <1>3
<1>5. \A i, j \in 1 .. n : g[i] = g[j] => i = j
  BY <1>2, <1>3
<1>6. \A m \in 1 .. n : \E i \in 1 .. n : g[i] = m
  <2> TAKE m \in 1 .. n
  <2>1. PICK e \in S : f[e] = m
    BY <1>3
  <2>2. PICK i \in 1 .. n : s[i] = e
    BY <1>2
  <2> QED BY <2>1, <2>2
<1>7. \A i, j \in 1 .. n : i < j => g[i] <= g[j]
  BY <1>1, <1>2
<1>8. \A i \in 1 .. n : g[i] = i
  <2> HIDE DEF g
  <2> QED BY <1>2, <1>4, <1>5, <1>6, <1>7, SortedNumbers
<1> QED BY <1>1, <1>2, <1>8

(***************************************************************************)
(* With no move left of it, a keyword that is not shifted is numbered.     *)
(***************************************************************************)
LEMMA SettledIsNumbered ==
  ASSUME Typed, TaskInv, NumbersInv, NEW k \in keywords \ shifted,
         task.at = "moves" /\ task.kw = k => task.moves = <<>> /\ ~ Deleting
  PROVE  Numbered(k)
<1>1. PICK f \in Numbering(k) : \A e \in EntriesOf(k) : Aims(e, f[e])
  BY DEF NumbersInv, Aimed, Deleting
<1>2. ASSUME NEW n \in DOMAIN Pending, NEW e \in EntriesOf(k) PROVE Pending[n].id # e
  <2>1. task.at = "moves" /\ Pending = task.moves /\ task.kw # k
    BY <1>2 DEF Pending
  <2>2. PICK i \in DOMAIN task.list : task.moves[n].id = task.list[i]
    BY <1>2, <2>1 DEF TaskInv
  <2> QED BY <2>1, <2>2 DEF TaskInv, EntriesOf
<1> QED BY <1>1, <1>2 DEF Numbered, Aims

-----------------------------------------------------------------------------
(***************************************************************************)
(* Entries that stay, with the numbers they have, stay numbered.           *)
(***************************************************************************)
LEMMA SameNumbers ==
  ASSUME NEW k, Numbered(k), EntriesOf(k)' = EntriesOf(k),
         \A e \in EntriesOf(k) : entries'[e].idx = entries[e].idx
  PROVE  Numbered(k)'
<1>1. PICK f \in Numbering(k) : \A e \in EntriesOf(k) : entries[e].idx = f[e]
  BY DEF Numbered
<1>2. Numbering(k)' = Numbering(k)
  BY DEF Numbering
<1> QED BY <1>1, <1>2 DEF Numbered

(***************************************************************************)
(* No moves are about the entries of a keyword other than the task's.      *)
(***************************************************************************)
LEMMA NumberedAfter ==
  ASSUME TaskInv', NEW k, Numbered(k)',
         task'.at = "moves" => task'.kw # k \/ task'.moves = <<>>
  PROVE  Aimed(k)'
<1>1. PICK f \in Numbering(k)' : \A e \in EntriesOf(k)' : entries'[e].idx = f[e]
  BY DEF Numbered
<1>2. ASSUME NEW n \in DOMAIN Pending', NEW e \in EntriesOf(k)' PROVE Pending'[n].id # e
  <2>1. task'.at = "moves" /\ Pending' = task'.moves /\ task'.kw # k
    BY <1>2 DEF Pending
  <2>2. PICK i \in DOMAIN task'.list : task'.moves[n].id = task'.list[i]
    BY <1>2, <2>1 DEF TaskInv
  <2> QED BY <2>1, <2>2 DEF TaskInv, EntriesOf
<1> QED BY <1>1, <1>2 DEF Aimed, Aims

(***************************************************************************)
(* A new entry gets the number after the last.                             *)
(***************************************************************************)
LEMMA InsertNumbers ==
  ASSUME Typed, TaskInv, Insert, NEW k, k = task.kw, Numbered(k)
  PROVE  Numbered(k)'
<1> DEFINE S == EntriesOf(k)
           T == S \cup {nextId}
           n == Cardinality(S)
<1>1. task.list \in get_entries(k)
  BY DEF Insert, TaskInv
<1>2. Len(task.list) = n /\ n \in Nat
  BY <1>1, ListOfEntries
<1>3. IsFiniteSet(S) /\ nextId \notin S
  BY InsertAdds, EntriesFinite
<1>4. EntriesOf(k)' = T
  BY InsertAdds DEF EntriesOf
<1>5. Cardinality(T) = n + 1
  <2> HIDE DEF S
  <2> QED BY <1>3, FS_AddElement
<1>6. PICK f \in Bijection(S, 1 .. n) : \A e \in S : entries[e].idx = f[e]
  BY DEF Numbered, Numbering
<1>7. \A e \in T : entries'[e].idx = IF e = nextId THEN n + 1 ELSE entries[e].idx
  BY <1>2, <1>3, InsertAdds DEF EntriesOf
<1> HIDE DEF S, n
<1>8. /\ f \in [S -> 1 .. n] /\ \A d, e \in S : f[d] = f[e] => d = e
      /\ \A m \in 1 .. n : \E e \in S : f[e] = m
  BY <1>6 DEF Bijection, Injection, Surjection, IsInjective
<1> DEFINE g == [e \in T |-> IF e = nextId THEN n + 1 ELSE f[e]]
<1>9. g \in [T -> 1 .. n + 1]
  BY <1>2, <1>8
<1>10. \A d, e \in T : g[d] = g[e] => d = e
  BY <1>2, <1>8
<1>11. \A m \in 1 .. n + 1 : \E e \in T : g[e] = m
  <2> TAKE m \in 1 .. n + 1
  <2>1. CASE m = n + 1
    BY <2>1
  <2>2. CASE m # n + 1
    <3>1. m \in 1 .. n
      BY <1>2, <2>2
    <3>2. PICK e \in S : f[e] = m
      BY <1>8, <3>1
    <3> QED BY <1>3, <3>2
  <2> QED BY <2>1, <2>2
<1>12. \A e \in T : entries'[e].idx = g[e]
  BY <1>6, <1>7
<1>13. g \in Bijection(T, 1 .. Cardinality(T))
  <2> HIDE DEF g, T
  <2> QED BY <1>5, <1>9, <1>10, <1>11 DEF Bijection, Injection, Surjection, IsInjective
<1> HIDE DEF g, T
<1> QED BY <1>4, <1>12, <1>13 DEF Numbered, Numbering

(***************************************************************************)
(* A swap is about two entries, each of which is to get the number of the  *)
(* other one.                                                              *)
(***************************************************************************)
LEMMA SwapAims ==
  ASSUME Typed, TaskInv, Swap, NEW k, k = task.kw, Numbered(k)
  PROVE  Aimed(k)'
<1> DEFINE S == EntriesOf(k)
           n == Cardinality(S)
           L == task.list
           p == task.cmd.idx
           q == task.cmd.to
<1>1. L \in get_entries(k) /\ task.at = "act" /\ UNCHANGED entries
  BY DEF Swap, TaskInv, stored
<1>2. /\ \A i \in DOMAIN L : L[i] \in S /\ entries[L[i]].idx = i
      /\ DOMAIN L = 1 .. Len(L) /\ Len(L) = n /\ n \in Nat
      /\ \A e \in S : \E i \in DOMAIN L : L[i] = e
  BY <1>1, ListOfEntries, NumberedList
<1>3. PICK moves \in MovesOfSwap :
        /\ moves \in Seq(Steps) /\ Len(moves) = 2
        /\ task' = [task EXCEPT !.at = "moves", !.moves = moves]
  BY SwapStarts
<1>4. PICK u \in [DOMAIN moves -> Nat] :
        /\ \A i, j \in DOMAIN u : i < j => u[i] < u[j]
        /\ \A m \in DOMAIN u : \E i \in DOMAIN L : SwapMove(moves[m], u[m], i)
  BY <1>1, <1>3, SwapStarts, SwapMoves
<1>5. DOMAIN moves = {1, 2} /\ u[1] < u[2] /\ u[1] \in Nat /\ u[2] \in Nat
  BY <1>3, <1>4
<1>6. Pending' = moves
  BY <1>1, <1>3, TaskTypes DEF Pending
<1>7. S' = S
  BY <1>1 DEF EntriesOf
<1>8. \A m \in {1, 2} :
         \/ /\ u[m] = 2 * p /\ p \in DOMAIN L
            /\ moves[m].id = L[p] /\ moves[m].idx = q
         \/ /\ u[m] = 2 * q + 1 /\ q \in DOMAIN L
            /\ moves[m].id = L[q] /\ moves[m].idx = p
  <2> TAKE m \in {1, 2}
  <2>1. PICK i \in DOMAIN L : SwapMove(moves[m], u[m], i)
    BY <1>4, <1>5
  <2>2. entries[L[i]].idx = i
    BY <1>2
  <2> QED BY <2>1, <2>2 DEF SwapMove
<1> HIDE DEF p, q
<1>9. /\ p \in DOMAIN L /\ q \in DOMAIN L
      /\ \E m \in {1, 2} : moves[m].id = L[p] /\ moves[m].idx = q
      /\ \E m \in {1, 2} : moves[m].id = L[q] /\ moves[m].idx = p
      /\ \A m \in {1, 2} : \/ moves[m].id = L[p] /\ moves[m].idx = q
                           \/ moves[m].id = L[q] /\ moves[m].idx = p
  BY <1>5, <1>8
<1> HIDE DEF L
<1>10. PICK f \in Bijection(S, 1 .. n) : \A e \in S : entries[e].idx = f[e]
  BY DEF Numbered, Numbering
<1> HIDE DEF S, n
<1>11. /\ f \in [S -> 1 .. n] /\ \A d, e \in S : f[d] = f[e] => d = e
       /\ \A m \in 1 .. n : \E e \in S : f[e] = m
  BY <1>10 DEF Bijection, Injection, Surjection, IsInjective
<1> DEFINE g == [e \in S |-> IF e = L[p] THEN q ELSE IF e = L[q] THEN p ELSE f[e]]
<1>12. /\ p \in 1 .. n /\ q \in 1 .. n /\ L[p] \in S /\ L[q] \in S
       /\ f[L[p]] = p /\ f[L[q]] = q
  BY <1>2, <1>9, <1>10
<1>13. g \in [S -> 1 .. n]
  BY <1>11, <1>12
<1>14. \A d, e \in S : g[d] = g[e] => d = e
  BY <1>11, <1>12
<1>15. \A m \in 1 .. n : \E e \in S : g[e] = m
  <2> TAKE m \in 1 .. n
  <2>1. PICK e \in S : f[e] = m
    BY <1>11
  <2>2. CASE e = L[p]
    <3>1. g[L[q]] = m
      BY <1>12, <2>1, <2>2
    <3> QED BY <1>12, <3>1
  <2>3. CASE e = L[q]
    <3>1. g[L[p]] = m
      BY <1>12, <2>1, <2>3
    <3> QED BY <1>12, <3>1
  <2>4. CASE e # L[p] /\ e # L[q]
    BY <2>1, <2>4
  <2> QED BY <2>2, <2>3, <2>4
<1>16. g \in Bijection(S, 1 .. n)
  <2> HIDE DEF g
  <2> QED BY <1>13, <1>14, <1>15 DEF Bijection, Injection, Surjection, IsInjective
<1>17. \A e \in S :
          /\ \A m \in {1, 2} : moves[m].id = e => moves[m].idx = g[e]
          /\ (\A m \in {1, 2} : moves[m].id # e) => entries[e].idx = g[e]
  <2> TAKE e \in S
  <2>1. ASSUME NEW m \in {1, 2}, moves[m].id = e PROVE moves[m].idx = g[e]
    <3>1. L[p] = L[q] => p = q
      BY <1>12
    <3> QED BY <1>9, <2>1, <3>1
  <2>2. ASSUME \A m \in {1, 2} : moves[m].id # e PROVE entries[e].idx = g[e]
    <3>1. e # L[p] /\ e # L[q]
      BY <1>9, <2>2
    <3> QED BY <1>10, <3>1
  <2> QED BY <2>1, <2>2
<1> HIDE DEF g
<1>18. PICK h \in Bijection(S, 1 .. n) : \A e \in S :
          /\ \A m \in {1, 2} : moves[m].id = e => moves[m].idx = h[e]
          /\ (\A m \in {1, 2} : moves[m].id # e) => entries[e].idx = h[e]
  BY <1>16, <1>17
<1>19. \A e \in S : Aims(e, h[e])'
  BY <1>1, <1>5, <1>6, <1>18 DEF Aims
<1>20. Numbering(k)' = Bijection(S, 1 .. n)
  BY <1>7 DEF Numbering, S, n
<1> QED BY <1>7, <1>18, <1>19, <1>20 DEF Aimed, S

(***************************************************************************)
(* A move that is made leaves an entry at the number it was to get.        *)
(***************************************************************************)
LEMMA MoveAims ==
  ASSUME Typed, TaskInv, Move, NEW k, Aimed(k)
  PROVE  Aimed(k)'
<1> DEFINE m == Head(task.moves)
<1>1. /\ m = task.moves[1] /\ 1 \in DOMAIN task.moves
      /\ DOMAIN entries' = DOMAIN entries
      /\ \A e \in DOMAIN entries :
           /\ entries'[e].of = entries[e].of
           /\ entries'[e].idx = IF e = m.id THEN m.idx ELSE entries[e].idx
  BY MoveWrites
<1>2. task \in Tasks /\ task.at = "moves"
  BY TaskTypes DEF Move
<1>3. task.moves \in Seq(Steps) /\ task.moves # <<>>
  BY <1>2 DEF Tasks, Move
<1>4. task'.moves = Tail(task.moves) /\ task'.at = "moves"
  BY <1>2 DEF Move, Tasks
<1>5. Pending = task.moves /\ Pending' = Tail(task.moves)
  BY <1>2, <1>4 DEF Pending
<1>6. /\ \A i \in DOMAIN Tail(task.moves) :
           i + 1 \in DOMAIN task.moves /\ Tail(task.moves)[i] = task.moves[i + 1]
      /\ \A i \in DOMAIN task.moves :
           i # 1 => /\ i - 1 \in DOMAIN Tail(task.moves)
                    /\ task.moves[i] = Tail(task.moves)[i - 1]
  BY <1>3
<1>7. PICK f \in Numbering(k) : \A e \in EntriesOf(k) : Aims(e, f[e])
  BY DEF Aimed
<1> HIDE DEF m
<1>8. EntriesOf(k)' = EntriesOf(k) /\ Numbering(k)' = Numbering(k)
  <2>1. EntriesOf(k)' = EntriesOf(k)
    BY <1>1 DEF EntriesOf
  <2> QED BY <2>1 DEF Numbering
<1>9. ASSUME NEW e \in EntriesOf(k) PROVE Aims(e, f[e])'
  <2>1. Aims(e, f[e]) /\ e \in DOMAIN entries
    BY <1>7 DEF EntriesOf
  <2>2. \A i \in DOMAIN Pending' : Pending'[i].id = e => Pending'[i].idx = f[e]
    BY <1>5, <1>6, <2>1 DEF Aims
  <2>3. ASSUME \A i \in DOMAIN Pending' : Pending'[i].id # e PROVE entries'[e].idx = f[e]
    <3>1. CASE m.id = e
      BY <1>1, <1>5, <2>1, <3>1 DEF Aims
    <3>2. CASE m.id # e
      <4>1. \A i \in DOMAIN Pending : Pending[i].id # e
        <5>1. ASSUME NEW i \in DOMAIN task.moves PROVE task.moves[i].id # e
          <6>1. CASE i = 1
            BY <1>1, <3>2, <6>1
          <6>2. CASE i # 1
            BY <1>5, <1>6, <2>3, <6>2
          <6> QED BY <6>1, <6>2
        <5> QED BY <1>5, <5>1
      <4> QED BY <1>1, <2>1, <3>2, <4>1 DEF Aims
    <3> QED BY <3>1, <3>2
  <2> QED BY <2>2, <2>3 DEF Aims
<1> QED BY <1>7, <1>8, <1>9 DEF Aimed

(***************************************************************************)
(* A step moves no number of a keyword that it is not about.               *)
(***************************************************************************)
LEMMA OthersStay ==
  ASSUME Typed, TaskInv, [Next]_vars, NEW k \in keywords, k \notin shifted,
         Insert \/ Delete \/ Swap \/ Move => task.kw # k
  PROVE  /\ EntriesOf(k)' = EntriesOf(k)
         /\ \A e \in EntriesOf(k) : entries'[e].idx = entries[e].idx
<1>1. CASE UNCHANGED entries
  BY <1>1 DEF EntriesOf
<1>2. CASE Insert
  BY <1>2, InsertAdds DEF EntriesOf
<1>3. CASE Count
  <2>1. /\ DOMAIN entries' = DOMAIN entries
        /\ \A e \in DOMAIN entries : /\ entries'[e].of = entries[e].of
                                    /\ entries'[e].idx = entries[e].idx
    BY <1>3, CountWrites
  <2> QED BY <2>1 DEF EntriesOf
<1>4. CASE Delete
  <2>1. PICK i \in DOMAIN task.list :
          /\ task.list[i] \in EntriesOf(task.kw)
          /\ DOMAIN entries' = DOMAIN entries \ {task.list[i]}
          /\ \A e \in DOMAIN entries' : entries'[e] = entries[e]
    BY <1>4, DeleteRemoves
  <2> QED BY <1>4, <2>1 DEF EntriesOf
<1>5. CASE Move
  <2>1. LET m == Head(task.moves) IN
         /\ m.id \in DOMAIN entries => entries[m.id].of = task.kw
         /\ DOMAIN entries' = DOMAIN entries
         /\ \A e \in DOMAIN entries :
              /\ entries'[e].of = entries[e].of
              /\ entries'[e].idx = IF e = m.id THEN m.idx ELSE entries[e].idx
    BY <1>5, MoveWrites
  <2> QED BY <1>5, <2>1 DEF EntriesOf
<1>6. CASE Midnight
  BY <1>6, MidnightKeeps DEF EntriesOf
<1>7. CASE Quiet \/ Create \/ Swap \/ \E m \in Messages : Receive(m.nick, m.chan, m.cmd)
  BY <1>1, <1>7 DEF Quiet, Create, Swap, Receive, stored
<1> QED BY <1>2, <1>3, <1>4, <1>5, <1>6, <1>7, NextCases, QuietSteps

(***************************************************************************)
(* Only the moves of a keyword are made while it has some; what breaks     *)
(* them off leaves the keyword shifted.                                    *)
(***************************************************************************)
LEMMA MovesAlone ==
  ASSUME Typed, [Next]_vars, task.at = "moves"
  PROVE  \/ Move
         \/ UNCHANGED <<entries, task, shifted, keywords>>
         \/ Midnight
         \/ /\ UNCHANGED <<entries, keywords>> /\ task' = Idle
            /\ shifted' = shifted \cup Disturbed
<1>1. task # Idle
  BY TaskTypes
<1>2. CASE \/ \E m \in Messages : Say(m.nick, m.chan, m.cmd)
           \/ \E m \in Messages : Receive(m.nick, m.chan, m.cmd)
           \/ \E chan \in Places, subj \in Words : Query(chan, subj, 1 .. MaxEntries)
  BY <1>1, <1>2 DEF Say, Receive, Query
<1>3. CASE Create \/ Insert \/ Count \/ Delete \/ Swap
  BY <1>3 DEF Create, Insert, Count, Delete, Swap
<1>4. CASE Moved \/ Fail \/ Restart
  BY <1>4 DEF Moved, Fail, Restart, Ends, stored
<1>5. CASE UNCHANGED vars
  BY <1>5 DEF vars
<1> QED BY <1>2, <1>3, <1>4, <1>5, NextCases

(***************************************************************************)
(* What a task is for after a step.                                        *)
(***************************************************************************)
LEMMA TaskAfter ==
  ASSUME Typed, TaskInv, [Next]_vars, task.at # "moves", task'.at = "moves"
  PROVE  /\ Delete \/ Swap
         /\ task.at = "act" /\ task'.kw = task.kw /\ task'.cmd = task.cmd
         /\ Delete => Deleting'
<1>1. CASE \/ \E m \in Messages : Say(m.nick, m.chan, m.cmd)
           \/ \E m \in Messages : Receive(m.nick, m.chan, m.cmd)
           \/ \E chan \in Places, subj \in Words : Query(chan, subj, 1 .. MaxEntries)
  <2>1. ASSUME NEW m \in Messages, Receive(m.nick, m.chan, m.cmd) PROVE FALSE
    <3>1. task'.at \in {"create", "act"}
      BY <2>1, ReceiveTakes DEF Task
    <3> QED BY <3>1
  <2> QED BY <1>1, <2>1 DEF Say, Query
<1>2. CASE Create
  <2>1. task \in Tasks
    BY <1>2, TaskTypes DEF Create
  <2> QED BY <1>2, <2>1 DEF Create, Ends, Idle, Tasks
<1>3. CASE Insert \/ Count \/ Moved \/ Fail \/ Restart
  BY <1>3 DEF Insert, Count, Moved, Fail, Restart, Ends, Idle
<1>4. CASE Move \/ Midnight \/ UNCHANGED vars
  BY <1>4 DEF Move, Midnight, vars
<1>5. CASE Delete
  <2>1. task.at = "act" /\ task.cmd.to < 0
    BY <1>5 DEF Delete
  <2>2. PICK moves \in MovesOfDelete :
          /\ moves \in Seq(Steps)
          /\ task' = [task EXCEPT !.at = "moves", !.moves = moves]
    BY <1>5, DeleteRemoves
  <2> QED BY <1>5, <2>1, <2>2, TaskTypes DEF Deleting
<1>6. CASE Swap
  <2>1. task.at = "act" /\ task.cmd.to >= 0
    BY <1>6 DEF Swap
  <2>2. PICK moves \in MovesOfSwap :
          /\ moves \in Seq(Steps)
          /\ task' = [task EXCEPT !.at = "moves", !.moves = moves]
    BY <1>6, SwapStarts
  <2>3. ~ Delete
    <3>1. task.cmd \in MoveTo
      BY <1>6, SwapStarts
    <3>2. task.cmd.to \in Int
      BY <3>1 DEF MoveTo
    <3>3. Delete => task.cmd.to < 0
      BY DEF Delete
    <3> QED BY <2>1, <3>2, <3>3
  <2> QED BY <1>6, <2>1, <2>2, <2>3, TaskTypes
<1> QED BY <1>1, <1>2, <1>3, <1>4, <1>5, <1>6, NextCases

(* The history of shifted keywords grows only.                             *)
LEMMA ShiftedGrows ==
  ASSUME [Next]_vars
  PROVE  shifted \subseteq shifted' /\ keywords \subseteq keywords'
BY NextCases DEF Say, Receive, Query, Create, Insert, Count, Delete, Swap, Move, Moved,
                 Fail, Restart, Midnight, vars, stored

(***************************************************************************)
(* Every step keeps the numbers of a keyword without gaps, but for a       *)
(* deletion and for moves that are broken off, which shift it.             *)
(***************************************************************************)
LEMMA NumbersStep == ASSUME Typed, TaskInv, NumbersInv, [Next]_vars PROVE NumbersInv'
<1>1. TaskInv'
  BY TaskStep
<1> SUFFICES ASSUME NEW k \in keywords' \ shifted'
             PROVE  (Deleting /\ task.kw = k)' \/ Aimed(k)'
  BY DEF NumbersInv
<1>2. CASE k \notin keywords
  <2>1. Create /\ k = task.kw
    BY <1>2, NextCases DEF Say, Receive, Query, Create, Insert, Count, Delete, Swap, Move,
         Moved, Fail, Restart, Midnight, vars, stored
  <2>2. EntriesOf(k)' = {}
    BY <1>2, <2>1 DEF Typed, EntriesOf, Create
  <2>3. <<>> \in Bijection({}, {}) /\ 1 .. Cardinality({}) = {}
    BY FS_EmptySet DEF Bijection, Injection, Surjection, IsInjective
  <2>4. Numbered(k)'
    BY <2>2, <2>3 DEF Numbered, Numbering
  <2>5. task'.at # "moves"
    BY <2>1, TaskAfter DEF Create, Delete, Swap
  <2> QED BY <1>1, <2>4, <2>5, NumberedAfter
<1>3. CASE k \in keywords
  <2>1. k \in keywords \ shifted
    BY <1>3, ShiftedGrows
  <2>2. CASE task.at = "moves" /\ task.kw = k
    <3>1. CASE Move
      <4>1. task'.at = "moves" /\ task'.kw = k /\ task'.cmd = task.cmd
        <5>1. task \in Tasks
          BY <2>2, TaskTypes
        <5> QED BY <2>2, <3>1, <5>1 DEF Move, Tasks
      <4>2. CASE Deleting
        BY <4>1, <4>2 DEF Deleting
      <4>3. CASE ~ Deleting
        BY <2>1, <3>1, <4>3, MoveAims DEF NumbersInv
      <4> QED BY <4>2, <4>3
    <3>2. CASE UNCHANGED <<entries, task, shifted, keywords>>
      <4>1. EntriesOf(k)' = EntriesOf(k) /\ Pending' = Pending
        BY <3>2 DEF EntriesOf, Pending
      <4>2. Aimed(k) => Aimed(k)'
        BY <3>2, <4>1 DEF Aimed, Aims, Numbering
      <4> QED BY <2>1, <3>2, <4>2 DEF NumbersInv, Deleting
    <3>3. CASE Midnight
      <4>1. /\ UNCHANGED task /\ DOMAIN entries' = DOMAIN entries
            /\ \A e \in DOMAIN entries : /\ entries'[e].of = entries[e].of
                                        /\ entries'[e].idx = entries[e].idx
        BY <3>3, MidnightKeeps
      <4>2. EntriesOf(k)' = EntriesOf(k)
        BY <4>1 DEF EntriesOf
      <4>3. Pending' = Pending
        BY <4>1 DEF Pending
      <4>4. \A e \in EntriesOf(k) : entries'[e].idx = entries[e].idx
        BY <4>1 DEF EntriesOf
      <4>5. Aimed(k) => Aimed(k)'
        BY <4>2, <4>3, <4>4 DEF Aimed, Aims, Numbering
      <4> QED BY <2>1, <4>1, <4>5 DEF NumbersInv, Deleting
    <3>4. CASE /\ UNCHANGED <<entries, keywords>> /\ task' = Idle
               /\ shifted' = shifted \cup Disturbed
      <4>1. task.moves = <<>> /\ ~ Deleting
        BY <2>2, <3>4 DEF Disturbed, Deleting
      <4>2. Numbered(k)
        BY <2>1, <4>1, SettledIsNumbered
      <4>3. Numbered(k)'
        BY <3>4, <4>2, SameNumbers DEF EntriesOf
      <4> QED BY <1>1, <3>4, <4>3, NumberedAfter DEF Idle
    <3> QED BY <2>2, <3>1, <3>2, <3>3, <3>4, MovesAlone
  <2>3. CASE ~ (task.at = "moves" /\ task.kw = k)
    <3>1. Numbered(k)
      BY <2>1, <2>3, SettledIsNumbered
    <3>2. task \in Tasks => (task'.at = "moves" /\ task.at = "moves" => task'.kw = task.kw)
      <4>1. ASSUME task \in Tasks, Move PROVE task'.kw = task.kw
        BY <4>1 DEF Move, Tasks
      <4> QED BY <4>1, MovesAlone DEF Idle, Midnight
    <3>3. CASE Insert /\ task.kw = k
      <4>1. Numbered(k)'
        BY <3>1, <3>3, InsertNumbers
      <4>2. task'.at # "moves"
        BY <3>3 DEF Insert, Idle
      <4> QED BY <1>1, <4>1, <4>2, NumberedAfter
    <3>4. CASE Delete /\ task.kw = k
      <4>1. task.at = "act"
        BY <3>4 DEF Delete
      <4>2. PICK moves \in MovesOfDelete :
              /\ moves \in Seq(Steps)
              /\ task' = [task EXCEPT !.at = "moves", !.moves = moves]
        BY <3>4, DeleteRemoves
      <4>3. task'.at = "moves"
        BY <4>1, <4>2, TaskTypes
      <4> QED BY <3>4, <4>1, <4>3, TaskAfter
    <3>5. CASE Swap /\ task.kw = k
      BY <3>1, <3>5, SwapAims
    <3>6. CASE (Insert \/ Delete \/ Swap) => task.kw # k
      <4>1. Move => task.kw # k
        BY <2>3 DEF Move
      <4>2. Numbered(k)'
        BY <2>1, <3>1, <3>6, <4>1, OthersStay, SameNumbers
      <4>3. task'.at = "moves" => task'.kw # k
        <5>1. CASE task.at = "moves"
          <6>1. task \in Tasks /\ task.kw # k
            BY <2>3, <5>1, TaskTypes
          <6> QED BY <3>2, <5>1, <6>1
        <5>2. CASE task.at # "moves"
          BY <3>6, <5>2, TaskAfter
        <5> QED BY <5>1, <5>2
      <4> QED BY <1>1, <4>2, <4>3, NumberedAfter
    <3> QED BY <3>3, <3>4, <3>5, <3>6
  <2> QED BY <2>2, <2>3
<1> QED BY <1>2, <1>3

-----------------------------------------------------------------------------
(***************************************************************************)
(* A notice gives an entry its number, and no later step changes it while  *)
(* the notice is the last one.                                             *)
(***************************************************************************)
LEMMA SaidStep == ASSUME Typed, TaskInv, NumbersInv, SaidInv, [Next]_vars PROVE SaidInv'
<1>1. ASSUME NEW i, NEW k \in keywords \ shifted, NEW s \in get_entries(k), i \in DOMAIN s,
             task.at # "moves"
      PROVE  entries[s[i]].idx = i
  BY <1>1, SettledIsNumbered, NumberedList
<1>2. CASE said' = Silence
  BY <1>2 DEF SaidInv
<1>3. CASE Create \/ Delete \/ Swap \/ Move
  <2>1. task # Idle
    BY <1>3, TaskTypes DEF Create, Delete, Swap, Move
  <2>2. said' = Silence
    BY <1>3, <2>1 DEF SaidInv, Create, Delete, Swap, Move, Ends
  <2> QED BY <1>2, <2>2
<1>4. CASE Insert
  <2>1. /\ said' = [at |-> Len(task.list) + 1, entry |-> nextId] /\ task' = Idle
        /\ task.list \in get_entries(task.kw)
    BY <1>4 DEF Insert, TaskInv
  <2>2. Len(task.list) + 1 \in Nat \ {0}
    BY <2>1, ListOfEntries
  <2> QED BY <1>4, <2>1, <2>2, InsertAdds DEF SaidInv
<1>5. CASE Count
  <2>1. task' = Idle /\ UNCHANGED shifted /\ task.at = "act"
    BY <1>5 DEF Count
  <2>2. task.list \in get_entries(task.kw) /\ task.kw \in keywords
    BY <2>1 DEF TaskInv
  <2>3. PICK i \in DOMAIN task.list :
          /\ task.list[i] \in EntriesOf(task.kw)
          /\ said' = [at |-> i, entry |-> task.list[i]]
    BY <1>5, CountWrites
  <2>4. /\ DOMAIN entries' = DOMAIN entries
        /\ \A e \in DOMAIN entries : /\ entries'[e].of = entries[e].of
                                    /\ entries'[e].idx = entries[e].idx
    BY <1>5, CountWrites
  <2>5. i \in Nat \ {0}
    BY <2>2, ListOfEntries
  <2>6. task.kw \notin shifted => entries[task.list[i]].idx = i
    BY <1>1, <2>1, <2>2
  <2> QED BY <2>1, <2>3, <2>4, <2>5, <2>6 DEF SaidInv, EntriesOf
<1>6. ASSUME NEW chan \in Places, NEW subj \in Words, Query(chan, subj, 1 .. MaxEntries)
      PROVE  SaidInv'
  <2>1. UNCHANGED <<stored, task, shifted>> /\ task = Idle /\ task.at # "moves"
    BY <1>6 DEF Query, Idle
  <2>2. PICK found \in get(subj, chan) :
          /\ found \notin {Unknown, Halt}
          /\ \E at \in DOMAIN found.list : said' = [at |-> at, entry |-> found.list[at]]
    BY <1>6 DEF Query
  <2>3. PICK at \in DOMAIN found.list : said' = [at |-> at, entry |-> found.list[at]]
    BY <2>2
  <2>4. found.kw \in keywords /\ found.list \in get_entries(found.kw)
    BY <2>2, GetFinds DEF Lookup
  <2>5. at \in Nat \ {0} /\ found.list[at] \in EntriesOf(found.kw)
    BY <2>4, ListOfEntries
  <2>6. found.kw \notin shifted => entries[found.list[at]].idx = at
    BY <1>1, <2>1, <2>4
  <2> QED BY <2>1, <2>3, <2>5, <2>6 DEF SaidInv, EntriesOf, stored
<1>7. CASE Midnight
  <2>1. /\ UNCHANGED <<task, said, shifted>> /\ DOMAIN entries' = DOMAIN entries
        /\ \A e \in DOMAIN entries : /\ entries'[e].of = entries[e].of
                                    /\ entries'[e].idx = entries[e].idx
    BY <1>7, MidnightKeeps
  <2> QED BY <2>1 DEF SaidInv
<1>8. CASE UNCHANGED vars
  BY <1>8 DEF SaidInv, vars
<1>9. CASE \/ \E m \in Messages : Say(m.nick, m.chan, m.cmd) \/ Receive(m.nick, m.chan, m.cmd)
           \/ Moved \/ Fail \/ Restart
  BY <1>2, <1>9 DEF Say, Receive, Moved, Fail, Restart, Ends
<1> QED BY <1>3, <1>4, <1>5, <1>6, <1>7, <1>8, <1>9, NextCases

(* The numbers of a keyword without gaps are those a notice promises.      *)
LEMMA PromisesKept ==
  ASSUME Typed, TaskInv, NumbersInv, SaidInv
  PROVE  FoundAsAnnounced
<1> DEFINE k == entries[said.entry].of
           S == EntriesOf(k)
<1> SUFFICES ASSUME said # Silence, said.entry \in DOMAIN entries, k \notin shifted
             PROVE  /\ \A s \in get_entries(k) : s[said.at] = said.entry
                    /\ {entries[e].idx : e \in S} = 1 .. Cardinality(S)
  BY DEF FoundAsAnnounced
<1>1. k \in keywords \ shifted /\ task = Idle /\ task.at # "moves"
  BY DEF Typed, SaidInv, Idle
<1>2. Numbered(k)
  <2> HIDE DEF k
  <2> QED BY <1>1, SettledIsNumbered
<1>3. entries[said.entry].idx = said.at /\ said.entry \in S
  BY DEF SaidInv, EntriesOf
<1>4. ASSUME NEW s \in get_entries(k) PROVE s[said.at] = said.entry
  <2> HIDE DEF k
  <2>1. PICK i \in DOMAIN s : s[i] = said.entry
    BY <1>3, ListOfEntries
  <2>2. entries[s[i]].idx = i
    BY <1>2, NumberedList
  <2> QED BY <1>3, <2>1, <2>2
<1>5. {entries[e].idx : e \in S} = 1 .. Cardinality(S)
  <2>1. PICK f \in Bijection(S, 1 .. Cardinality(S)) : \A e \in S : entries[e].idx = f[e]
    BY <1>2 DEF Numbered, Numbering
  <2> HIDE DEF S
  <2>2. /\ f \in [S -> 1 .. Cardinality(S)]
        /\ \A m \in 1 .. Cardinality(S) : \E e \in S : f[e] = m
    BY DEF Bijection, Injection, Surjection
  <2> QED BY <2>1, <2>2
<1> QED BY <1>4, <1>5

(***************************************************************************)
(* The number a notice gives an entry is the one that finds it, and every  *)
(* keyword without a deletion or a swap broken off has its numbers without *)
(* gaps: FoundAsAnnounced, for any number of users, words and entries.     *)
(***************************************************************************)
THEOREM NumbersAreKept == Spec => []FoundAsAnnounced
<1> DEFINE Inv == Typed /\ TaskInv /\ NumbersInv /\ SaidInv
<1>1. Init => Inv
  <2>1. Init => NumbersInv
    BY DEF Init, NumbersInv
  <2>2. Init => SaidInv
    BY DEF Init, SaidInv
  <2> QED BY <2>1, <2>2, TypedInit
<1>2. Inv /\ [Next]_vars => Inv'
  BY TypeStep, TaskStep, NumbersStep, SaidStep
<1>3. Inv => FoundAsAnnounced
  BY PromisesKept
<1> HIDE DEF Inv
<1> QED BY <1>1, <1>2, <1>3, PTL DEF Spec

-----------------------------------------------------------------------------
(***************************************************************************)
(* A deletion starts with the numbers as they are, all moves before it.    *)
(***************************************************************************)
LEMMA DeletionStarts ==
  ASSUME Typed, TaskInv, NumbersInv, Delete
  PROVE  DeletionInv'
<1> DEFINE L == task.list
           g == [i \in DOMAIN L |-> entries[L[i]].idx]
<1>1. task.at = "act" /\ UNCHANGED shifted /\ task.cmd \in MoveTo
  BY DeleteRemoves DEF Delete
<1>2. L \in get_entries(task.kw) /\ task.kw \in keywords
  BY <1>1 DEF TaskInv
<1>3. /\ DOMAIN L = 1 .. Len(L) /\ Len(L) \in Nat
      /\ \A i \in DOMAIN L : L[i] \in EntriesOf(task.kw)
      /\ \A i, j \in DOMAIN L : L[i] = L[j] => i = j
      /\ \A i, j \in DOMAIN L : i < j => entries[L[i]].idx <= entries[L[j]].idx
  BY <1>2, ListOfEntries
<1>4. \A i \in DOMAIN L : entries[L[i]].idx \in Int
  BY <1>3, EntriesFinite
<1>5. task.kw \notin shifted => \A i \in DOMAIN L : entries[L[i]].idx = i
  BY <1>1, <1>2, SettledIsNumbered, NumberedList
<1>6. PICK moves \in MovesOfDelete :
        /\ moves \in Seq(Steps)
        /\ task' = [task EXCEPT !.at = "moves", !.moves = moves]
  BY DeleteRemoves
<1>7. /\ task'.at = "moves" /\ task'.moves = moves /\ task'.cmd = task.cmd
      /\ task'.kw = task.kw /\ task'.list = L
  BY <1>1, <1>6, TaskTypes
<1>8. PICK u \in [DOMAIN moves -> DOMAIN L] :
        /\ \A i, j \in DOMAIN u : i < j => u[i] < u[j]
        /\ {u[n] : n \in DOMAIN u} = MovingBack
        /\ \A n \in DOMAIN u : moves[n] = MoveBack(L[u[n]])
  BY <1>1, DeleteMoves
<1>9. /\ DOMAIN entries' \subseteq DOMAIN entries
      /\ \A e \in DOMAIN entries' : entries'[e] = entries[e]
  BY DeleteRemoves
<1>10. Distinct'
  BY <1>3, <1>7 DEF Distinct
<1>11. PICK h \in [DOMAIN L -> Int] : \A i \in DOMAIN L : h[i] = entries[L[i]].idx
  <2>1. g \in [DOMAIN L -> Int]
    BY <1>4
  <2>2. \A i \in DOMAIN L : g[i] = entries[L[i]].idx
    OBVIOUS
  <2> HIDE DEF g, L
  <2> QED BY <2>1, <2>2
<1> HIDE DEF L
<1>12. Steady(h)'
  <2>1. \A i, j \in DOMAIN h : i < j => h[i] <= h[j]
    BY <1>3, <1>11
  <2>2. task.kw \notin shifted =>
          \A i, j \in DOMAIN h : h[i] > 0 /\ (i < j => h[i] < h[j])
    BY <1>3, <1>5, <1>11
  <2> QED BY <1>1, <1>7, <2>1, <2>2 DEF Steady
<1>13. Progress(h, 0, u)'
  <2>1. \A i \in DOMAIN L : i >= 0 /\ ~ (i < 0)
    BY <1>3
  <2>2. \A i : Goes(h, i)' = Goes(h, i)
    BY <1>7 DEF Goes
  <2>3. MovingBack = {i \in DOMAIN h : Goes(h, i) /\ i >= 0}
    BY <1>11, <2>1 DEF MovingBack, Goes, L
  <2>4. \A n \in DOMAIN u : moves[n] = [id |-> L[u[n]], idx |-> h[u[n]] - 1]
    BY <1>8, <1>11 DEF MoveBack
  <2>5. \A i \in DOMAIN h : L[i] \in DOMAIN entries' => entries'[L[i]].idx = h[i]
    BY <1>9, <1>11
  <2> QED BY <1>7, <1>8, <1>11, <2>1, <2>2, <2>3, <2>4, <2>5 DEF Progress
<1>14. h \in [DOMAIN task'.list -> Int] /\ u \in [DOMAIN task'.moves -> DOMAIN task'.list]
  BY <1>7, <1>8, <1>11
<1> QED BY <1>10, <1>12, <1>13, <1>14 DEF DeletionInv

(***************************************************************************)
(* A move of a deletion: the first entry that has not been moved is.       *)
(***************************************************************************)
LEMMA DeletionMoves ==
  ASSUME Typed, TaskInv, DeletionInv, Deleting, Move
  PROVE  DeletionInv'
<1> DEFINE L == task.list
           m == Head(task.moves)
<1>1. task \in Tasks /\ task.at = "moves" /\ UNCHANGED shifted
  BY TaskTypes DEF Move
<1>2. task.moves \in Seq(Steps) /\ task.moves # <<>> /\ L \in Seq(Nat)
  BY <1>1 DEF Tasks, Move
<1>3. /\ task'.moves = Tail(task.moves) /\ task'.at = "moves" /\ task'.kw = task.kw
      /\ task'.list = L /\ task'.cmd = task.cmd
  BY <1>1 DEF Move, Tasks
<1>4. /\ m = task.moves[1] /\ 1 \in DOMAIN task.moves
      /\ DOMAIN entries' = DOMAIN entries
      /\ \A e \in DOMAIN entries :
           entries'[e].idx = IF e = m.id THEN m.idx ELSE entries[e].idx
  BY MoveWrites
<1>5. Distinct
  BY DEF DeletionInv
<1>6. PICK g \in [DOMAIN L -> Int], c \in Nat, u \in [DOMAIN task.moves -> DOMAIN L] :
        Steady(g) /\ Progress(g, c, u)
  BY DEF DeletionInv
<1>7. /\ \A i, j \in DOMAIN u : i < j => u[i] < u[j]
      /\ {u[n] : n \in DOMAIN u} = {i \in DOMAIN g : Goes(g, i) /\ i >= c}
      /\ \A n \in DOMAIN u :
           task.moves[n] = [id |-> L[u[n]], idx |-> g[u[n]] - 1]
      /\ \A i \in DOMAIN g :
           L[i] \in DOMAIN entries =>
             entries[L[i]].idx = IF Goes(g, i) /\ i < c THEN g[i] - 1 ELSE g[i]
  BY <1>6 DEF Progress
<1>8. DOMAIN L \subseteq Nat /\ DOMAIN task.moves = 1 .. Len(task.moves) /\ Len(task.moves) \in Nat
  BY <1>2
<1>9. /\ DOMAIN Tail(task.moves) = 1 .. Len(task.moves) - 1
      /\ \A n \in DOMAIN Tail(task.moves) : Tail(task.moves)[n] = task.moves[n + 1]
  BY <1>2
<1> HIDE DEF m, L
<1>10. u[1] \in DOMAIN L /\ u[1] \in Nat /\ Goes(g, u[1]) /\ u[1] >= c
  BY <1>4, <1>6, <1>7, <1>8
<1>11. \A i \in DOMAIN L : Goes(g, i) /\ i >= c => i = u[1] \/ i > u[1]
  <2> TAKE i \in DOMAIN L
  <2> HAVE Goes(g, i) /\ i >= c
  <2>1. PICK n \in DOMAIN u : u[n] = i
    BY <1>6, <1>7
  <2>2. n = 1 \/ 1 < n
    BY <1>6, <1>8, <2>1
  <2> QED BY <1>4, <1>6, <1>7, <2>1, <2>2
<1>12. PICK v \in [DOMAIN Tail(task.moves) -> DOMAIN L] :
         \A n \in DOMAIN Tail(task.moves) : v[n] = u[n + 1] /\ n + 1 \in DOMAIN u
  <2>1. \A n \in DOMAIN Tail(task.moves) : n + 1 \in DOMAIN u /\ u[n + 1] \in DOMAIN L
    BY <1>6, <1>8, <1>9
  <2> DEFINE w == [n \in DOMAIN Tail(task.moves) |-> u[n + 1]]
  <2>2. w \in [DOMAIN Tail(task.moves) -> DOMAIN L]
    BY <2>1
  <2>3. \A n \in DOMAIN Tail(task.moves) : w[n] = u[n + 1]
    OBVIOUS
  <2> HIDE DEF w
  <2> QED BY <2>1, <2>2, <2>3
<1>13. \A i, j \in DOMAIN v : i < j => v[i] < v[j]
  BY <1>7, <1>9, <1>12
<1>14. {v[n] : n \in DOMAIN v} = {i \in DOMAIN g : Goes(g, i) /\ i >= u[1] + 1}
  <2>1. ASSUME NEW n \in DOMAIN v
        PROVE  v[n] \in DOMAIN g /\ Goes(g, v[n]) /\ v[n] >= u[1] + 1
    <3>1. n + 1 \in DOMAIN u /\ v[n] = u[n + 1] /\ 1 \in DOMAIN u /\ 1 < n + 1
      BY <1>4, <1>6, <1>8, <1>9, <1>12
    <3>2. u[n + 1] > u[1] /\ u[n + 1] \in Nat
      BY <1>6, <1>7, <1>8, <3>1
    <3>3. u[n + 1] \in DOMAIN g /\ Goes(g, u[n + 1])
      BY <1>7, <3>1
    <3> QED BY <1>10, <3>1, <3>2, <3>3
  <2>2. ASSUME NEW i \in DOMAIN g, Goes(g, i), i >= u[1] + 1
        PROVE  \E n \in DOMAIN v : v[n] = i
    <3>1. i \in Nat /\ i >= c
      BY <1>6, <1>8, <1>10, <2>2
    <3>2. PICK n \in DOMAIN u : u[n] = i
      BY <1>7, <2>2, <3>1
    <3>3. n # 1
      BY <1>10, <2>2, <3>1, <3>2
    <3>4. n - 1 \in DOMAIN v /\ (n - 1) + 1 = n
      BY <1>6, <1>8, <1>9, <1>12, <3>3
    <3>5. v[n - 1] = i
      BY <1>12, <3>2, <3>4
    <3> QED BY <3>4, <3>5
  <2> QED BY <2>1, <2>2
<1>15. ASSUME NEW i \in DOMAIN g, L[i] \in DOMAIN entries'
       PROVE  entries'[L[i]].idx = IF Goes(g, i) /\ i < u[1] + 1 THEN g[i] - 1 ELSE g[i]
  <2>1. m = [id |-> L[u[1]], idx |-> g[u[1]] - 1] /\ i \in Nat /\ i \in DOMAIN L
    BY <1>4, <1>6, <1>7, <1>8
  <2>2. CASE i = u[1]
    BY <1>4, <1>10, <1>15, <2>1, <2>2
  <2>3. CASE i # u[1]
    <3>1. L[i] # m.id
      BY <1>5, <1>10, <2>1, <2>3 DEF Distinct, L
    <3>2. entries'[L[i]].idx = IF Goes(g, i) /\ i < c THEN g[i] - 1 ELSE g[i]
      BY <1>4, <1>7, <1>15, <3>1
    <3>3. Goes(g, i) => (i < c <=> i < u[1] + 1)
      BY <1>10, <1>11, <2>1, <2>3
    <3> QED BY <3>2, <3>3
  <2> QED BY <2>2, <2>3
<1>16. \A n \in DOMAIN v : Tail(task.moves)[n] = [id |-> L[v[n]], idx |-> g[v[n]] - 1]
  BY <1>7, <1>9, <1>12
<1>17. Progress(g, u[1] + 1, v)'
  <2>1. \A i : Goes(g, i)' = Goes(g, i)
    BY <1>3 DEF Goes
  <2> QED BY <1>3, <1>13, <1>14, <1>15, <1>16, <2>1 DEF Progress
<1>18. Steady(g)'
  BY <1>1, <1>3, <1>6 DEF Steady
<1>19. Distinct'
  BY <1>3, <1>5 DEF Distinct, L
<1>20. /\ g \in [DOMAIN task'.list -> Int] /\ u[1] + 1 \in Nat
       /\ v \in [DOMAIN task'.moves -> DOMAIN task'.list]
  BY <1>3, <1>6, <1>10, <1>12
<1> QED BY <1>17, <1>18, <1>19, <1>20 DEF DeletionInv

(* Every step keeps the progress of a deletion.                            *)
LEMMA DeletionStep ==
  ASSUME Typed, TaskInv, NumbersInv, DeletionInv, [Next]_vars
  PROVE  DeletionInv'
<1> SUFFICES ASSUME Deleting' PROVE DeletionInv'
  BY DEF DeletionInv
<1>1. CASE task.at # "moves"
  <2>1. CASE Delete
    BY <2>1, DeletionStarts
  <2>2. CASE Swap
    <3>1. task'.cmd = task.cmd
      BY <1>1, TaskAfter DEF Deleting
    <3>2. task.cmd.to >= 0 /\ task.cmd.to \in Int
      BY <2>2, SwapStarts DEF MoveTo
    <3> QED BY <3>1, <3>2 DEF Deleting
  <2> QED BY <1>1, <2>1, <2>2, TaskAfter DEF Deleting
<1>2. CASE task.at = "moves"
  <2>1. CASE Move
    <3>1. task'.cmd = task.cmd
      BY <1>2, <2>1, TaskTypes DEF Move, Tasks
    <3> QED BY <1>2, <2>1, <3>1, DeletionMoves DEF Deleting
  <2>2. CASE UNCHANGED <<entries, task, shifted, keywords>>
    BY <2>2 DEF DeletionInv, Deleting, Distinct, Steady, Progress, Goes
  <2>3. CASE Midnight
    <3>1. /\ UNCHANGED <<task, shifted>> /\ DOMAIN entries' = DOMAIN entries
          /\ \A e \in DOMAIN entries : entries'[e].idx = entries[e].idx
      BY <2>3, MidnightKeeps
    <3> QED BY <3>1 DEF DeletionInv, Deleting, Distinct, Steady, Progress, Goes
  <2>4. CASE task' = Idle
    BY <2>4 DEF Deleting, Idle
  <2> QED BY <1>2, <2>1, <2>2, <2>3, <2>4, MovesAlone
<1> QED BY <1>1, <1>2

(* Half way through a deletion the entries are in their order.             *)
LEMMA OrderKept ==
  ASSUME Typed, TaskInv, DeletionInv
  PROVE  DeletionKeepsOrder
<1> SUFFICES ASSUME Deleting, NEW i \in DOMAIN task.list, NEW j \in DOMAIN task.list,
                    i < j, task.list[i] \in DOMAIN entries, task.list[j] \in DOMAIN entries
             PROVE  /\ entries[task.list[i]].idx <= entries[task.list[j]].idx
                    /\ task.kw \notin shifted =>
                         entries[task.list[i]].idx < entries[task.list[j]].idx
  BY DEF DeletionKeepsOrder, Deleting
<1>1. PICK g \in [DOMAIN task.list -> Int], c \in Nat,
           u \in [DOMAIN task.moves -> DOMAIN task.list] : Steady(g) /\ Progress(g, c, u)
  BY DEF DeletionInv
<1>2. /\ entries[task.list[i]].idx = IF Goes(g, i) /\ i < c THEN g[i] - 1 ELSE g[i]
      /\ entries[task.list[j]].idx = IF Goes(g, j) /\ j < c THEN g[j] - 1 ELSE g[j]
      /\ g[i] <= g[j] /\ (task.kw \notin shifted => g[i] > 0 /\ g[i] < g[j])
      /\ g[i] \in Int /\ g[j] \in Int
  BY <1>1 DEF Progress, Steady
<1>3. i \in Nat /\ j \in Nat /\ task.cmd.idx \in Int
  <2>1. task \in Tasks
    BY TaskTypes DEF Deleting
  <2>2. task.list \in Seq(Nat)
    BY <2>1 DEF Tasks
  <2>3. task.cmd.idx \in Int
    BY DEF Deleting, TaskInv, MoveTo
  <2> QED BY <2>2, <2>3
<1>4. CASE Goes(g, j) /\ j < c /\ ~ Goes(g, i)
  BY <1>2, <1>3, <1>4 DEF Goes
<1>5. CASE ~ (Goes(g, j) /\ j < c /\ ~ Goes(g, i))
  BY <1>1, <1>2, <1>3, <1>5
<1> QED BY <1>4, <1>5

(***************************************************************************)
(* A deletion that stops half way, for whatever reason, leaves the entries *)
(* in the order they had, and numbers that differ: DeletionKeepsOrder, for *)
(* any number of entries.                                                  *)
(***************************************************************************)
THEOREM OrderSurvivesDeletion == Spec => []DeletionKeepsOrder
<1> DEFINE Inv == Typed /\ TaskInv /\ NumbersInv /\ DeletionInv
<1>1. Init => Inv
  <2>1. Init => NumbersInv
    BY DEF Init, NumbersInv
  <2>2. Init => DeletionInv
    BY DEF Init, DeletionInv, Deleting, Idle
  <2> QED BY <2>1, <2>2, TypedInit
<1>2. Inv /\ [Next]_vars => Inv'
  BY TypeStep, TaskStep, NumbersStep, DeletionStep
<1>3. Inv => DeletionKeepsOrder
  BY OrderKept
<1> HIDE DEF Inv
<1> QED BY <1>1, <1>2, <1>3, PTL DEF Spec
=============================================================================
