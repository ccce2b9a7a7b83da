------------------------------ MODULE TvixProofs ------------------------------
(***************************************************************************)
(* Proofs about tvix, for every set of programs and all compiled code:     *)
(* thunks are evaluated once and keep their value, attribute sets behave   *)
(* as maps, and locals are where the compiler reckons them to be.          *)
(*                                                                         *)
(* Almost every step is quiet: it appends objects to the heap and keeps    *)
(* the activations below the innermost one, so it can neither end nor      *)
(* repeat an evaluation.  The others, Thunk::force, the return of what it  *)
(* runs and OpFinalise, change one object each.  The invariant is          *)
(* EvaluatedOnce itself, next to the shape of the two sequences; that a    *)
(* reference is to an object of its kind (TypeOK), which no code can       *)
(* break in Rust, is a hypothesis: here it would take the compiler.        *)
(***************************************************************************)
EXTENDS TvixVM, TvixScope, FiniteSetTheorems, TLAPS

-----------------------------------------------------------------------------
(* Sequences *)

\* A sequence over whatever its elements are.
IsSeq(s) == s \in Seq(Range(s))

(* A sequence is one whatever set its elements are taken from. *)
LEMMA SomeSeq == ASSUME NEW S, NEW s \in Seq(S) PROVE IsSeq(s)
<1>1. Len(s) \in Nat /\ DOMAIN s = 1 .. Len(s) /\ s = [i \in 1 .. Len(s) |-> s[i]]
  OBVIOUS
<1>2. \A i \in 1 .. Len(s) : s[i] \in Range(s)
  BY <1>1 DEF Range
<1>3. s \in [1 .. Len(s) -> Range(s)]
  BY <1>1, <1>2
<1> QED BY <1>1, <1>3 DEF IsSeq

(* A sequence has the positions from one to its length. *)
LEMMA SeqIs ==
  ASSUME NEW s, IsSeq(s)
  PROVE  Len(s) \in Nat /\ DOMAIN s = 1 .. Len(s) /\ (s # <<>> <=> Len(s) > 0)
BY DEF IsSeq

(* Appending keeps every element where it is. *)
LEMMA AppendIs ==
  ASSUME NEW s, IsSeq(s), NEW e
  PROVE  /\ IsSeq(Append(s, e)) /\ Len(Append(s, e)) = Len(s) + 1
         /\ \A i \in 1 .. Len(s) : Append(s, e)[i] = s[i]
         /\ Append(s, e)[Len(s) + 1] = e
<1> DEFINE S == Range(s) \cup {e}
<1>1. s \in Seq(S)
  BY DEF IsSeq
<1> HIDE DEF S
<1>2. e \in S
  BY DEF S
<1>3. Append(s, e) \in Seq(S)
  BY <1>1, <1>2
<1>4. IsSeq(Append(s, e))
  BY <1>3, SomeSeq
<1> QED BY <1>1, <1>2, <1>4

(* So does appending a sequence. *)
LEMMA ConcatIs ==
  ASSUME NEW s, IsSeq(s), NEW t, IsSeq(t)
  PROVE  /\ IsSeq(s \o t) /\ Len(s \o t) = Len(s) + Len(t)
         /\ \A i \in 1 .. Len(s) : (s \o t)[i] = s[i]
<1> DEFINE S == Range(s) \cup Range(t)
<1>1. s \in Seq(S) /\ t \in Seq(S)
  BY DEF IsSeq
<1> HIDE DEF S
<1>2. s \o t \in Seq(S)
  BY <1>1
<1>3. IsSeq(s \o t)
  BY <1>2, SomeSeq
<1> QED BY <1>1, <1>3

(* Leaving the last element out keeps the others where they are. *)
LEMMA FrontIs ==
  ASSUME NEW s, IsSeq(s), s # <<>>
  PROVE  /\ IsSeq(Front(s)) /\ Len(Front(s)) = Len(s) - 1
         /\ \A i \in 1 .. (Len(s) - 1) : Front(s)[i] = s[i]
<1> DEFINE S == Range(s)
<1>1. s \in Seq(S)
  BY DEF IsSeq
<1> HIDE DEF S
<1>2. SubSeq(s, 1, Len(s) - 1) \in Seq(S)
  BY <1>1
<1>3. IsSeq(SubSeq(s, 1, Len(s) - 1))
  BY <1>2, SomeSeq
<1>4. PICK n \in Nat : n = Len(s) - 1
  BY <1>1
<1>5. SubSeq(s, 1, n) = [i \in 1 .. n |-> s[i]]
  BY <1>1, <1>4
<1>6. Len(SubSeq(s, 1, n)) = n
  BY <1>4, <1>5
<1> QED BY <1>3, <1>4, <1>5, <1>6 DEF Front

(* Replacing one element keeps the others. *)
LEMMA UpdateIs ==
  ASSUME NEW s, IsSeq(s), NEW i, NEW e
  PROVE  /\ IsSeq([s EXCEPT ![i] = e]) /\ Len([s EXCEPT ![i] = e]) = Len(s)
         /\ \A j \in 1 .. Len(s) : j # i => [s EXCEPT ![i] = e][j] = s[j]
         /\ i \in 1 .. Len(s) => [s EXCEPT ![i] = e][i] = e
<1> DEFINE S == Range(s) \cup {e}
<1>1. s \in Seq(S) /\ Len(s) \in Nat /\ DOMAIN s = 1 .. Len(s)
  BY DEF IsSeq
<1> HIDE DEF S
<1>2. e \in S
  BY DEF S
<1> DEFINE u == [s EXCEPT ![i] = e]
<1>3. u = [j \in 1 .. Len(s) |-> IF j = i THEN e ELSE s[j]]
  BY <1>1
<1>4. \A j \in 1 .. Len(s) : s[j] \in S
  BY <1>1
<1>5. u \in Seq(S) /\ Len(u) = Len(s)
  <2>1. u \in [1 .. Len(s) -> S]
    BY <1>2, <1>3, <1>4
  <2> HIDE DEF u
  <2> QED BY <1>1, <2>1
<1>6. IsSeq(u)
  <2> HIDE DEF u
  <2> QED BY <1>5, SomeSeq
<1> QED BY <1>1, <1>3, <1>5, <1>6

-----------------------------------------------------------------------------
(* The activations after a step *)

Named(a) == "k" \in DOMAIN a

\* The heap and the activations are sequences, and activations have a name.
Sequences ==
    /\ IsSeq(heap)
    /\ IsSeq(ctl) /\ \A i \in 1 .. Len(ctl) : Named(ctl[i])

\* An activation that is not a Thunk::force.
Other(a) == Named(a) /\ a.k # "force"

\* c is what the activations can be after a step that returns r and ends no
\* evaluation: those below the innermost one are as before, and of the others
\* only the last may force something, but has not started yet.
KeptBy(c, r) ==
    /\ IsSeq(c) /\ \A i \in 1 .. Len(c) : Named(c[i])
    /\ \A i \in 1 .. Len(c) : i < Len(ctl) => c[i] = ctl[i]
    /\ \A i \in 1 .. Len(c) : i >= Len(ctl) /\ c[i].k = "force" => i = Len(c) /\ r = "go"

\* The innermost activation forces nothing.
Top == Sequences /\ ctl # <<>> /\ Other(Activation)

(* What the innermost activation is, when it is not that of a Thunk::force. *)
LEMMA TopIs ==
  ASSUME Top
  PROVE  /\ Len(ctl) \in Nat \ {0} /\ ctl[Len(ctl)] = Activation /\ Other(Activation)
         /\ IsSeq(ctl) /\ \A i \in 1 .. Len(ctl) : Named(ctl[i])
BY SeqIs DEF Top, Sequences, Activation, Last

(* A panic leaves no activation (Panic). *)
LEMMA KeptEmpty == Sequences => \A r : KeptBy(<<>>, r)
<1> SUFFICES ASSUME Sequences, NEW r PROVE KeptBy(<<>>, r)
  OBVIOUS
<1>1. Len(ctl) \in Nat
  BY SeqIs DEF Sequences
<1>2. IsSeq(<<>>)
  BY DEF IsSeq
<1> QED BY <1>1, <1>2 DEF KeptBy

(* Returning from the innermost activation leaves the others as they were. *)
LEMMA KeptFront == Sequences /\ ctl # <<>> => \A r : KeptBy(Front(ctl), r)
<1> SUFFICES ASSUME Sequences, ctl # <<>>, NEW r PROVE KeptBy(Front(ctl), r)
  OBVIOUS
<1>1. Len(ctl) \in Nat \ {0}
  BY SeqIs DEF Sequences
<1> QED BY <1>1, FrontIs DEF KeptBy, Sequences

(* Activations that stay as they are, below one that forces nothing. *)
LEMMA KeptSame == Top => \A r : KeptBy(ctl, r)
<1> SUFFICES ASSUME Top, NEW r PROVE KeptBy(ctl, r)
  OBVIOUS
<1> QED BY TopIs DEF KeptBy, Other

(* The innermost activation may go on as another that forces nothing. *)
LEMMA KeptUpdate == Top => \A a, r : Other(a) => KeptBy(GoingOnAs(a), r)
<1> SUFFICES ASSUME Top, NEW a, NEW r, Other(a)
             PROVE  KeptBy(GoingOnAs(a), r)
  OBVIOUS
<1>1. /\ Len(ctl) \in Nat \ {0} /\ IsSeq(ctl)
      /\ \A i \in 1 .. Len(ctl) : Named(ctl[i])
  BY TopIs
<1> DEFINE u == GoingOnAs(a)
<1>2. IsSeq(u) /\ Len(u) = Len(ctl)
  BY <1>1, UpdateIs DEF GoingOnAs
<1>3. u[Len(ctl)] = a
  BY <1>1 DEF IsSeq, GoingOnAs
<1>4. \A j \in 1 .. Len(ctl) : j # Len(ctl) => u[j] = ctl[j]
  BY <1>1 DEF IsSeq, GoingOnAs
<1> HIDE DEF u
<1>5. KeptBy(u, r)
  BY <1>1, <1>2, <1>3, <1>4 DEF KeptBy, Other
<1> QED BY <1>5 DEF u

\* Activations that a call can be put on top of.
Base(c) == KeptBy(c, "") /\ Len(c) + 1 >= Len(ctl)

(* What a call can start from: the activations as they are, without
   the innermost one, or with it gone on. *)
LEMMA Bases ==
  Top => /\ Base(ctl) /\ Base(Front(ctl))
         /\ \A a : Other(a) => Base(GoingOnAs(a))
<1> SUFFICES ASSUME Top PROVE /\ Base(ctl) /\ Base(Front(ctl))
                              /\ \A a : Other(a) => Base(GoingOnAs(a))
  OBVIOUS
<1>1. Len(Front(ctl)) = Len(ctl) - 1
  BY FrontIs DEF Top, Sequences
<1>2. \A a : Len(GoingOnAs(a)) = Len(ctl)
  BY TopIs, UpdateIs DEF GoingOnAs
<1>3. Len(ctl) \in Nat
  BY TopIs
<1>4. KeptBy(ctl, "") /\ KeptBy(Front(ctl), "") /\ \A a : Other(a) => KeptBy(GoingOnAs(a), "")
  BY KeptSame, KeptFront, KeptUpdate DEF Top
<1>5. /\ Len(ctl) + 1 >= Len(ctl) /\ Len(Front(ctl)) + 1 >= Len(ctl)
      /\ \A a : Len(GoingOnAs(a)) + 1 >= Len(ctl)
  BY <1>1, <1>2, <1>3
<1> QED BY <1>4, <1>5 DEF Base

(* Such activations are kept whatever is returned. *)
LEMMA KeptBase == \A c, r : Base(c) /\ Len(ctl) \in Nat => KeptBy(c, r)
BY DEF Base, KeptBy

(* A call on top of them; a force has to start with nothing returned. *)
LEMMA KeptAppend ==
  ASSUME NEW c, NEW b, NEW r, Base(c), Named(b), Len(ctl) \in Nat,
         b.k = "force" => r = "go"
  PROVE  KeptBy(Append(c, b), r)
<1>1. IsSeq(c) /\ Len(c) \in Nat /\ KeptBy(c, "") /\ Len(c) + 1 >= Len(ctl)
  BY SeqIs DEF Base, KeptBy
<1> PICK u : u = Append(c, b)
  OBVIOUS
<1>2. /\ IsSeq(u) /\ Len(u) = Len(c) + 1 /\ u[Len(c) + 1] = b
      /\ \A j \in 1 .. Len(c) : u[j] = c[j]
  BY <1>1, AppendIs
<1>3. IsSeq(u) /\ \A i \in 1 .. Len(u) : Named(u[i])
  BY <1>1, <1>2 DEF KeptBy
<1>4. \A i \in 1 .. Len(u) : i < Len(ctl) => u[i] = ctl[i]
  BY <1>1, <1>2 DEF KeptBy
<1>5. ASSUME NEW i \in 1 .. Len(u), i >= Len(ctl), u[i].k = "force"
      PROVE  i = Len(u) /\ r = "go"
  <2> PICK n \in Nat : n = Len(c)
    BY <1>1
  <2>1. i # Len(u) => i \in 1 .. Len(c) /\ u[i] = c[i]
    <3>1. i \in 1 .. (n + 1) /\ Len(u) = n + 1
      BY <1>2
    <3>2. i # n + 1 => i \in 1 .. n
      BY <3>1
    <3> QED BY <1>2, <3>1, <3>2
  <2>2. \A j \in 1 .. Len(c) : j >= Len(ctl) => c[j].k # "force"
    BY <1>1 DEF KeptBy
  <2>3. i = Len(u)
    BY <1>5, <2>1, <2>2
  <2> QED BY <1>2, <1>5, <2>3
<1>6. KeptBy(u, r)
  BY <1>3, <1>4, <1>5 DEF KeptBy
<1> QED BY <1>6

(* A call on top of them that forces nothing itself. *)
LEMMA KeptAppendOther ==
  \A c, b, r : Base(c) /\ Len(ctl) \in Nat /\ Other(b) => KeptBy(Append(c, b), r)
<1> SUFFICES ASSUME NEW c, NEW b, NEW r, Base(c), Len(ctl) \in Nat, Other(b)
             PROVE  KeptBy(Append(c, b), r)
  OBVIOUS
<1>1. Named(b) /\ b.k # "force"
  BY DEF Other
<1> QED BY <1>1, KeptAppend

(* What a call can start from may be such an activation in turn. *)
LEMMA BaseAppend ==
  ASSUME NEW c, NEW b, Base(c), Other(b), Len(ctl) \in Nat
  PROVE  Base(Append(c, b))
<1>1. KeptBy(Append(c, b), "")
  BY KeptAppendOther
<1>2. IsSeq(c) /\ Len(c) \in Nat /\ Len(c) + 1 >= Len(ctl)
  BY SeqIs DEF Base, KeptBy
<1> PICK u : u = Append(c, b)
  OBVIOUS
<1>3. Len(u) = Len(c) + 1
  BY <1>2, AppendIs
<1>4. KeptBy(u, "")
  BY <1>1
<1>5. Len(u) + 1 >= Len(ctl)
  BY <1>2, <1>3
<1>6. Base(u)
  BY <1>4, <1>5 DEF Base
<1> QED BY <1>6

(* It may lie on what is lent out meanwhile (Thunk::value). *)
LEMMA HoldingKept ==
  ASSUME NEW c, NEW v, Base(c), Len(ctl) \in Nat
  PROVE  Base(Holding(c, v))
<1> PICK b : b = [k |-> "borrow", thunk |-> v.thunk]
  OBVIOUS
<1>1. Base(Append(c, b))
  BY BaseAppend DEF Other, Named
<1>2. Holding(c, v) = c \/ Holding(c, v) = Append(c, b)
  BY DEF Holding
<1> QED BY <1>1, <1>2

\* This step does.
Keeps == KeptBy(ctl', ret')

(* Every way in which an instruction ends keeps the activations below it
   (VM::run: Continue, Advance, Raise, Panic, Begin). *)
LEMMA Endings ==
  Top => /\ ctl' = ctl => Keeps
         /\ ctl' = Front(ctl) => Keeps
         /\ Panic => Keeps
         /\ \A fs, ip : Continue(fs, ip) => Keeps
         /\ \A n : Advance(n) => Keeps
         /\ \A kind : Raise(kind) => Keeps
         /\ \A b : Other(b) /\ Begin(b) => Keeps
<1> SUFFICES ASSUME Top
             PROVE  /\ ctl' = ctl => Keeps
                    /\ ctl' = Front(ctl) => Keeps
                    /\ Panic => Keeps
                    /\ \A fs, ip : Continue(fs, ip) => Keeps
                    /\ \A n : Advance(n) => Keeps
                    /\ \A kind : Raise(kind) => Keeps
                    /\ \A b : Other(b) /\ Begin(b) => Keeps
  OBVIOUS
<1> USE DEF Keeps
<1>0. Sequences /\ ctl # <<>> /\ Len(ctl) \in Nat
  BY SeqIs DEF Top, Sequences
<1>1. ctl' = ctl => Keeps
  BY KeptSame
<1>2. ctl' = Front(ctl) => Keeps
  BY <1>0, KeptFront
<1>3. Panic => Keeps
  BY <1>0, KeptEmpty DEF Panic
<1>4. /\ \A fs, ip : Continue(fs, ip) => Keeps
      /\ \A n : Advance(n) => Keeps
  BY <1>1, <1>2 DEF Advance, Continue
<1>5. \A kind : Raise(kind) => Keeps
  BY <1>2 DEF Raise
<1>6. \A b : Other(b) /\ Begin(b) => Keeps
  <2> SUFFICES ASSUME NEW b, Other(b), Begin(b) PROVE KeptBy(Append(ctl, b), ret')
    BY DEF Begin
  <2> QED BY <1>0, Bases, KeptAppendOther, Zenon
<1> QED BY <1>1, <1>2, <1>3, <1>4, <1>5, <1>6

(* An instruction that forces a thunk starts a Thunk::force. *)
LEMMA ForceBegun ==
  Top => \A t, push : Begin([k |-> "force", thunk |-> t, push |-> push]) => Keeps
<1> SUFFICES ASSUME Top, NEW t, NEW push, Begin([k |-> "force", thunk |-> t, push |-> push])
             PROVE  Keeps
  OBVIOUS
<1>1. Len(ctl) \in Nat
  BY SeqIs DEF Top, Sequences
<1>2. Named([k |-> "force", thunk |-> t, push |-> push])
  BY DEF Named
<1> QED BY <1>1, <1>2, Bases, KeptAppend DEF Begin, Keeps

(* A call of an activation that forces nothing. *)
LEMMA Pushed ==
  Top => \A b : Other(b) /\ ctl' = Append(ctl, b) => Keeps
BY KeptAppendOther, Bases, TopIs DEF Keeps

(* So is one on top of what is lent out meanwhile. *)
LEMMA PushedOn ==
  Top => \A as, b : Base(as) /\ Other(b) /\ ctl' = Append(as, b) => Keeps
<1> SUFFICES ASSUME Top, NEW as, NEW b, Base(as), Other(b), ctl' = Append(as, b) PROVE Keeps
  OBVIOUS
<1>1. Len(ctl) \in Nat
  BY SeqIs DEF Top, Sequences
<1> QED BY <1>1, KeptAppendOther, Zenon DEF Keeps

(* A call of a value (VM::call_value), whatever the value is. *)
LEMMA CallKept ==
  Top => \A v, st, fs, as, tail : Base(as) /\ CallOf(v, st, fs, as, tail) => Keeps
<1> SUFFICES ASSUME Top, NEW v, NEW st, NEW fs, NEW as, NEW tail,
                    Base(as), CallOf(v, st, fs, as, tail)
             PROVE  Keeps
  OBVIOUS
<1>0. Sequences /\ Len(ctl) \in Nat
  BY SeqIs DEF Top, Sequences
<1>1. ctl' = <<>> \/ ctl' = as \/ \E b : Other(b) /\ ctl' = Append(Holding(as, v), b)
  BY DEF CallOf, Other, Named
<1>2. CASE \E b : Other(b) /\ ctl' = Append(Holding(as, v), b)
  <2> PICK b : Other(b) /\ ctl' = Append(Holding(as, v), b)
    BY <1>2
  <2>1. Base(Holding(as, v))
    BY <1>0, HoldingKept
  <2> QED BY <1>0, <2>1, KeptAppendOther, Zenon DEF Keeps
<1> QED BY <1>0, <1>1, <1>2, KeptEmpty, KeptBase DEF Keeps

(* Every way in which a nested activation goes on, calls or returns. *)
LEMMA Nesting ==
  Top => /\ \A v : ForceFirst(v) => Keeps
         /\ \A as, v : Base(as) /\ ForceUnder(as, v) => Keeps
         /\ \A v : Return(v) => Keeps
         /\ \A kind : Fail(kind) => Keeps
         /\ \A a : Other(a) /\ ctl' = GoingOnAs(a) => Keeps
         /\ \A a : Other(a) /\ GoOn(a) => Keeps
         /\ \A a, b : Other(a) /\ Other(b) /\ Enter(a, b) => Keeps
         /\ \A b, n : EqAnswer(b, n) => Keeps
         /\ \A b : Other(b) /\ Become(b) => Keeps
         /\ \A f, args, a : Other(a) /\ CallWith(f, args, a) => Keeps
<1> SUFFICES ASSUME Top
             PROVE  /\ \A v : ForceFirst(v) => Keeps
                    /\ \A as, v : Base(as) /\ ForceUnder(as, v) => Keeps
                    /\ \A v : Return(v) => Keeps
                    /\ \A kind : Fail(kind) => Keeps
                    /\ \A a : Other(a) /\ ctl' = GoingOnAs(a) => Keeps
                    /\ \A a : Other(a) /\ GoOn(a) => Keeps
                    /\ \A a, b : Other(a) /\ Other(b) /\ Enter(a, b) => Keeps
                    /\ \A b, n : EqAnswer(b, n) => Keeps
                    /\ \A b : Other(b) /\ Become(b) => Keeps
                    /\ \A f, args, a : Other(a) /\ CallWith(f, args, a) => Keeps
  OBVIOUS
<1>0. Sequences /\ ctl # <<>> /\ Len(ctl) \in Nat
  BY SeqIs DEF Top, Sequences
<1>1. \A as, v : Base(as) /\ ForceUnder(as, v) => Keeps
  <2> SUFFICES ASSUME NEW as, NEW v, Base(as), ForceUnder(as, v) PROVE Keeps
    OBVIOUS
  <2> PICK b : b = [k |-> "force", thunk |-> v.thunk, push |-> FALSE]
    OBVIOUS
  <2>1. Named(b) /\ ret' = "go" /\ ctl' = Append(as, b)
    BY DEF ForceUnder, Named
  <2> QED BY <1>0, <2>1, KeptAppend DEF Keeps
<1>9. \A v : ForceFirst(v) => Keeps
  BY <1>1, Bases DEF ForceFirst
<1>2. \A v : Return(v) => Keeps
  BY Endings DEF Return
<1>3. \A kind : Fail(kind) => Keeps
  BY Endings DEF Fail
<1>4. /\ \A a : Other(a) /\ ctl' = GoingOnAs(a) => Keeps
      /\ \A a : Other(a) /\ GoOn(a) => Keeps
  BY KeptUpdate DEF GoOn, Keeps
<1>5. \A a, b : Other(a) /\ Other(b) /\ Enter(a, b) => Keeps
  <2> SUFFICES ASSUME NEW a, NEW b, Other(a), Other(b), Enter(a, b)
               PROVE  KeptBy(Append(GoingOnAs(a), b), ret')
    BY DEF Enter, Keeps
  <2>1. Base(GoingOnAs(a))
    BY Bases
  <2> QED BY <1>0, <2>1, KeptAppendOther, Zenon
<1>6. \A b, n : EqAnswer(b, n) => Keeps
  BY Endings DEF EqAnswer
<1>7. \A b : Other(b) /\ Become(b) => Keeps
  <2> SUFFICES ASSUME NEW b, Other(b), Become(b) PROVE KeptBy(Append(Front(ctl), b), ret')
    BY DEF Become, Keeps
  <2> QED BY <1>0, Bases, KeptAppendOther, Zenon
<1>8. \A f, args, a : Other(a) /\ CallWith(f, args, a) => Keeps
  <2> SUFFICES ASSUME NEW f, NEW args, NEW a, Other(a), CallWith(f, args, a) PROVE Keeps
    OBVIOUS
  <2> DEFINE b == [k |-> "calls", next |-> <<f>>, first |-> TRUE, left |-> Len(args)]
  <2>1. Other(b) /\ Enter(a, b)
    BY DEF CallWith, Enter, Other, Named
  <2> HIDE DEF b
  <2> QED BY <2>1, <1>5
<1> QED BY <1>1, <1>2, <1>3, <1>4, <1>5, <1>6, <1>7, <1>8, <1>9

\* Every object is as it was.
Grows(h) == IsSeq(h) /\ Len(h) >= Len(heap) /\ \A t \in 1 .. Len(heap) : h[t] = heap[t]

\* A step that neither changes an object nor ends an evaluation.
Quiet == Keeps /\ Grows(heap')

(* One or two objects are a sequence. *)
LEMMA PairIsSeq == \A x, y : IsSeq(<<x>>) /\ IsSeq(<<x, y>>)
<1> SUFFICES ASSUME NEW x, NEW y PROVE IsSeq(<<x>>) /\ IsSeq(<<x, y>>)
  OBVIOUS
<1>1. <<x>> \in Seq({x}) /\ <<x, y>> \in Seq({x, y})
  OBVIOUS
<1> QED BY <1>1, SomeSeq

(* A comparison that enters a pair of containers (Value::nix_eq). *)
LEMMA EqContentsKept == Top => \A more : EqContents(more) => Keeps
<1> SUFFICES ASSUME Top, NEW more, EqContents(more) PROVE Keeps
  OBVIOUS
<1>1. Other(Activation)
  BY TopIs
<1> QED BY <1>1, Nesting DEF EqContents, Other, Named

(* A heap that stays, or that new objects are appended to, has grown. *)
LEMMA HeapGrows ==
  Sequences => /\ heap' = heap => Grows(heap')
               /\ \A o : heap' = Append(heap, o) => Grows(heap')
               /\ \A os : IsSeq(os) /\ heap' = heap \o os => Grows(heap')
<1> SUFFICES ASSUME Sequences
             PROVE  /\ heap' = heap => Grows(heap')
                    /\ \A o : heap' = Append(heap, o) => Grows(heap')
                    /\ \A os : IsSeq(os) /\ heap' = heap \o os => Grows(heap')
  OBVIOUS
<1>1. IsSeq(heap) /\ Len(heap) \in Nat
  BY SeqIs DEF Sequences
<1>2. heap' = heap => Grows(heap')
  BY <1>1 DEF Grows
<1>3. ASSUME NEW o, heap' = Append(heap, o) PROVE Grows(heap')
  <2>1. /\ IsSeq(heap') /\ Len(heap') = Len(heap) + 1
        /\ \A t \in 1 .. Len(heap) : heap'[t] = heap[t]
    BY <1>1, <1>3, AppendIs
  <2> QED BY <1>1, <2>1 DEF Grows
<1>4. ASSUME NEW os, IsSeq(os), heap' = heap \o os PROVE Grows(heap')
  <2>1. /\ IsSeq(heap') /\ Len(heap') = Len(heap) + Len(os)
        /\ \A t \in 1 .. Len(heap) : heap'[t] = heap[t]
    BY <1>1, <1>4, ConcatIs
  <2>2. Len(os) \in Nat
    BY <1>4, SeqIs
  <2> QED BY <1>1, <2>1, <2>2 DEF Grows
<1> QED BY <1>2, <1>3, <1>4

-----------------------------------------------------------------------------
(* The quiet steps *)

(* In an instruction, and in any activation but a Thunk::force, the
   innermost activation forces nothing. *)
LEMMA WhichTop ==
  Sequences => /\ \A name : Op(name) => Top
               /\ \A kind : Active(kind) /\ kind # "force" => Top
<1> SUFFICES ASSUME Sequences
             PROVE  /\ \A name : Op(name) => Top
                    /\ \A kind : Active(kind) /\ kind # "force" => Top
  OBVIOUS
<1>1. ctl # <<>> => Named(Activation)
  BY SeqIs DEF Sequences, Activation, Last
<1> QED BY <1>1 DEF Op, Running, Active, Top, Other

(* Every instruction but OpFinalise is a quiet step (VM::run_op). *)
LEMMA InstructionQuiet ==
  ASSUME Sequences PROVE Instruction => OpFinalise \/ Quiet
<1>1. OpConstant => Quiet
  BY WhichTop, Endings, HeapGrows DEF OpConstant, Same, Quiet
<1>2. OpLiteral => Quiet
  BY WhichTop, Endings, HeapGrows DEF OpLiteral, Same, Quiet
<1>3. OpPop => Quiet
  BY WhichTop, Endings, HeapGrows DEF OpPop, Same, Quiet
<1>4. OpArithmetic => Quiet
  BY WhichTop, Endings, HeapGrows DEF OpArithmetic, Same, Quiet, Other, Named
<1>5. OpNegate => Quiet
  BY WhichTop, Endings, HeapGrows DEF OpNegate, Same, Quiet
<1>6. OpInvert => Quiet
  BY WhichTop, Endings, HeapGrows DEF OpInvert, Same, Quiet
<1>7. OpAssertBool => Quiet
  BY WhichTop, Endings, HeapGrows DEF OpAssertBool, Same, Quiet
<1>8. OpAssertFail => Quiet
  BY WhichTop, Endings, HeapGrows DEF OpAssertFail, Same, Quiet
<1>9. OpJump => Quiet
  BY WhichTop, Endings, HeapGrows DEF OpJump, Same, Quiet
<1>10. OpJumpIfBool => Quiet
  BY WhichTop, Endings, HeapGrows DEF OpJumpIfBool, Same, Quiet
<1>11. OpJumpIfNotFound => Quiet
  BY WhichTop, Endings, HeapGrows DEF OpJumpIfNotFound, Same, Quiet
<1>12. OpCloseScope => Quiet
  BY WhichTop, Endings, HeapGrows DEF OpCloseScope, Same, Quiet
<1>13. OpGetLocal => Quiet
  BY WhichTop, Endings, HeapGrows DEF OpGetLocal, Same, Quiet
<1>14. OpGetUpvalue => Quiet
  BY WhichTop, Endings, HeapGrows DEF OpGetUpvalue, Same, Quiet
<1>15. OpPushWith => Quiet
  BY WhichTop, Endings, HeapGrows DEF OpPushWith, Same, Quiet
<1>16. OpPopWith => Quiet
  BY WhichTop, Endings, HeapGrows DEF OpPopWith, Same, Quiet
<1>17. OpAttrs => Quiet
  BY WhichTop, Endings, HeapGrows DEF OpAttrs, Same, Quiet
<1>18. OpAttrsUpdate => Quiet
  BY WhichTop, Endings, HeapGrows DEF OpAttrsUpdate, Same, Quiet
<1>19. OpAttrsSelect => Quiet
  BY WhichTop, Endings, HeapGrows DEF OpAttrsSelect, Same, Quiet
<1>20. OpAttrsTry => Quiet
  BY WhichTop, Endings, HeapGrows DEF OpAttrsTry, Same, Quiet
<1>21. OpValidateClosedFormals => Quiet
  BY WhichTop, Endings, HeapGrows DEF OpValidateClosedFormals, Same, Quiet
<1>22. OpList => Quiet
  BY WhichTop, Endings, HeapGrows DEF OpList, Same, Quiet
<1>23. OpConcat => Quiet
  BY WhichTop, Endings, HeapGrows DEF OpConcat, Same, Quiet
<1>24. OpClosure => Quiet
  BY WhichTop, Endings, HeapGrows DEF OpClosure, Same, Quiet
<1>25. ASSUME OpThunk PROVE Quiet
  <2>1. Top
    BY <1>25, WhichTop DEF OpThunk
  <2>2. Keeps
    BY <1>25, <2>1, Endings DEF OpThunk
  <2>3. heap' = heap \/ (\E x : heap' = heap \o <<x>>)
        \/ \E y, z : heap' = heap \o <<y, z>>
    BY <1>25 DEF OpThunk
  <2>4. \A x, y : IsSeq(<<x>>) /\ IsSeq(<<x, y>>)
    BY PairIsSeq
  <2> QED BY <2>2, <2>3, <2>4, HeapGrows DEF Quiet
<1>26. OpForce => Quiet
  BY WhichTop, Endings, HeapGrows, ForceBegun DEF OpForce, Same, Quiet
<1>27. OpCall => Quiet
  BY WhichTop, Bases, CallKept, HeapGrows DEF OpCall, Same, Quiet
<1>28. OpResolveWith => Quiet
  BY WhichTop, Endings, HeapGrows DEF OpResolveWith, Same, Quiet, Other, Named
<1>29. OpEqual => Quiet
  BY WhichTop, Endings, HeapGrows DEF OpEqual, Same, Quiet, EqualityOf, Other, Named
<1>30. OpCompare => Quiet
  BY WhichTop, Endings, HeapGrows DEF OpCompare, Same, Quiet, Ordering, Other, Named
<1>31. OpCoerceToString => Quiet
  BY WhichTop, Endings, HeapGrows DEF OpCoerceToString, Same, Quiet, Coercion, Other, Named
<1>32. OpInterpolate => Quiet
  BY WhichTop, Endings, HeapGrows DEF OpInterpolate, Same, Quiet
<1> QED BY <1>1, <1>2, <1>3, <1>4, <1>5, <1>6, <1>7, <1>8, <1>9, <1>10, <1>11, <1>12, <1>13, <1>14, <1>15, <1>16, <1>17, <1>18, <1>19, <1>20, <1>21, <1>22, <1>23, <1>24, <1>25, <1>26, <1>27, <1>28, <1>29, <1>30, <1>31, <1>32 DEF Instruction

(* Every step of a nested activation but those of Thunk::force is quiet. *)
LEMMA NestedQuiet ==
  ASSUME Sequences PROVE Nested => ForceThunk \/ ForceReturned \/ Quiet
<1>1. RunReturned => Quiet
  BY WhichTop, HeapGrows, Endings DEF RunReturned, Same, Quiet, Active, Advance
<1>2. RunFailed => Quiet
  BY WhichTop, HeapGrows, Endings DEF RunFailed, Same, Quiet, Active
<1>3. CallFunctor => Quiet
  BY WhichTop, HeapGrows, Endings, Bases, CallKept DEF CallFunctor, Same, Quiet, InFunctor, Active, Other, Named
<1>4. ASSUME CallsReturned PROVE Quiet
  <2>1. Top
    BY <1>4, WhichTop DEF CallsReturned, InCalls, Active
  <2>2. Other(Activation)
    BY <2>1, TopIs
  <2>3. Other([Activation EXCEPT !.next = <<Peek>>, !.first = FALSE])
    BY <2>2 DEF Other, Named
  <2>4. Keeps
    BY <1>4, <2>1, <2>2, <2>3, Endings, Nesting DEF CallsReturned
  <2>5. Grows(heap')
    BY <1>4, HeapGrows DEF CallsReturned, Same
  <2> QED BY <2>4, <2>5 DEF Quiet
<1>5. CallsForce => Quiet
  BY WhichTop, HeapGrows, Nesting DEF CallsForce, Same, Quiet, InCalls, Active
<1>6. ASSUME CallsCall PROVE Quiet
  <2>1. Top
    BY <1>6, WhichTop DEF CallsCall, InCalls, Active
  <2>2. Other(Activation)
    BY <2>1, TopIs
  <2>3. Other([Activation EXCEPT !.next = <<>>, !.left = @ - 1])
    BY <2>2 DEF Other, Named
  <2>4. Keeps
    BY <1>6, <2>1, <2>2, <2>3, Bases, CallKept DEF CallsCall
  <2>5. Grows(heap')
    BY <1>6, HeapGrows DEF CallsCall, Same
  <2> QED BY <2>4, <2>5 DEF Quiet
<1>7. CallsFailed => Quiet
  BY WhichTop, HeapGrows, Endings DEF CallsFailed, Same, Quiet, InCalls, Active
<1>8. ResolveForce => Quiet
  BY WhichTop, HeapGrows, Nesting DEF ResolveForce, Same, Quiet, InResolve, Active
<1>9. ASSUME ResolveWith PROVE Quiet
  <2>1. Top
    BY <1>9, WhichTop DEF ResolveWith, InResolve, Active
  <2>2. Other(Activation)
    BY <2>1, TopIs
  <2>3. Other([Activation EXCEPT !.left = @ - 1])
    BY <2>2 DEF Other, Named
  <2>4. Keeps
    BY <1>9, <2>1, <2>2, <2>3, Endings, Nesting DEF ResolveWith, NextNamespace
  <2>5. Grows(heap')
    BY <1>9, HeapGrows DEF ResolveWith, Same
  <2> QED BY <2>4, <2>5 DEF Quiet
<1>10. ASSUME EqNextPair PROVE Quiet
  <2>1. Top
    BY <1>10, WhichTop DEF EqNextPair, InEq
  <2>2. Other(Activation)
    BY <2>1, TopIs
  <2>3. \A n, p : Other([Activation EXCEPT !.pairs = n, !.pair = p])
    BY <2>2 DEF Other, Named
  <2>4. Keeps
    BY <1>10, <2>1, <2>2, <2>3, Nesting DEF EqNextPair
  <2>5. Grows(heap')
    BY <1>10, HeapGrows DEF EqNextPair, Same
  <2> QED BY <2>4, <2>5 DEF Quiet
<1>11. EqForce => Quiet
  BY WhichTop, HeapGrows, Nesting DEF EqForce, Same, Quiet, InEq
<1>12. EqFailed => Quiet
  BY WhichTop, HeapGrows, Endings DEF EqFailed, Same, Quiet, PassOn
<1>13. ASSUME EqCompare PROVE Quiet
  <2>1. Top
    BY <1>13, WhichTop DEF EqCompare, InEq
  <2>2. Other(Activation)
    BY <2>1, TopIs
  <2>3. Other([Activation EXCEPT !.pair = <<>>])
    BY <2>2 DEF Other, Named
  <2>4. Keeps
    BY <1>13, <2>1, <2>2, <2>3, Nesting, EqContentsKept DEF EqCompare
  <2>5. Grows(heap')
    BY <1>13, HeapGrows DEF EqCompare, Same
  <2> QED BY <2>4, <2>5 DEF Quiet
<1>14. ASSUME CmpStep PROVE Quiet
  <2>1. Top
    BY <1>14, WhichTop DEF CmpStep
  <2>2. Other(Activation)
    BY <2>1, TopIs
  <2>3. Other([Activation EXCEPT !.wait = "equal"]) /\ Other(EqualityOf(TRUE))
    BY <2>2 DEF Other, Named, EqualityOf
  <2>4. Keeps
    BY <1>14, <2>1, <2>2, <2>3, Nesting DEF CmpStep, Answer
  <2>5. Grows(heap')
    BY <1>14, HeapGrows DEF CmpStep, Same
  <2> QED BY <2>4, <2>5 DEF Quiet
<1>15. CmpEqual => Quiet
  BY WhichTop, HeapGrows, Nesting, TopIs DEF CmpEqual, Same, Quiet, Other, Named
<1>16. ASSUME CmpForce PROVE Quiet
  <2>1. Top /\ Len(ctl) \in Nat
    BY <1>16, WhichTop, TopIs DEF CmpForce
  <2>2. \A v, w : Base(Holding(ctl, v)) /\ Base(Holding(Holding(Front(ctl), v), w))
    BY <2>1, Bases, HoldingKept
  <2>3. \A op, v, w : Other(Ordering(op, v, w))
    BY DEF Other, Named, Ordering
  <2>4. Keeps
    BY <1>16, <2>1, <2>2, <2>3, Nesting, PushedOn DEF CmpForce
  <2>5. Grows(heap')
    BY <1>16, HeapGrows DEF CmpForce, Same
  <2> QED BY <2>4, <2>5 DEF Quiet
<1>17. CmpFailed => Quiet
  BY WhichTop, HeapGrows, Endings DEF CmpFailed, Same, Quiet, PassOn
<1>18. CoerceForce => Quiet
  BY WhichTop, HeapGrows, Nesting DEF CoerceForce, Same, Quiet
<1>19. ASSUME CoerceStep PROVE Quiet
  <2>1. Top
    BY <1>19, WhichTop DEF CoerceStep
  <2>2. Other(Activation)
    BY <2>1, TopIs
  <2>3. \A v, w : Other([Activation EXCEPT !.v = v, !.wait = w])
    BY <2>2 DEF Other, Named
  <2>4. \A v : Other([Activation EXCEPT !.v = v])
    BY <2>2 DEF Other, Named
  <2>5. \A t : Other([Activation EXCEPT !.wait = "element", !.todo = t])
    BY <2>2 DEF Other, Named
  <2>6. \A v : Other(Coercion(v, TRUE))
    BY <2>2 DEF Other, Named, Coercion
  <2>7. Keeps
    BY <1>19, <2>1, <2>2, <2>3, <2>4, <2>5, <2>6, Nesting DEF CoerceStep
  <2>8. Grows(heap')
    BY <1>19, HeapGrows DEF CoerceStep, Same
  <2> QED BY <2>7, <2>8 DEF Quiet
<1>20. ASSUME CoerceCall PROVE Quiet
  <2>1. Top /\ Len(ctl) \in Nat
    BY <1>20, WhichTop, TopIs DEF CoerceCall
  <2>2. Other([Activation EXCEPT !.wait = "result"])
    BY <2>1, TopIs DEF Other, Named
  <2>3. Base(Append(Holding(Front(ctl), Activation.v), [Activation EXCEPT !.wait = "result"]))
    BY <2>1, <2>2, Bases, HoldingKept, BaseAppend
  <2>4. Keeps
    BY <1>20, <2>1, <2>3, Nesting, CallKept DEF CoerceCall
  <2>5. Grows(heap')
    BY <1>20, HeapGrows DEF CoerceCall, Same
  <2> QED BY <2>4, <2>5 DEF Quiet
<1>21. CoerceResult => Quiet
  BY WhichTop, HeapGrows, Nesting DEF CoerceResult, Same, Quiet, Coercion, Other, Named
<1>22. ASSUME CoerceElement PROVE Quiet
  <2>1. Top
    BY <1>22, WhichTop DEF CoerceElement
  <2>2. Other(Activation)
    BY <2>1, TopIs
  <2>3. \A t, e : Other([[Activation EXCEPT !.error = e] EXCEPT !.todo = t])
    BY <2>2 DEF Other, Named
  <2>4. \A t, e : Other([[Activation EXCEPT !.acc = e] EXCEPT !.todo = t])
    BY <2>2 DEF Other, Named
  <2>5. \A v : Other(Coercion(v, TRUE))
    BY <2>2 DEF Other, Named, Coercion
  <2>6. Keeps
    BY <1>22, <2>1, <2>2, <2>3, <2>4, <2>5, Nesting, Endings DEF CoerceElement
  <2>7. Grows(heap')
    BY <1>22, HeapGrows DEF CoerceElement, Same
  <2> QED BY <2>6, <2>7 DEF Quiet
<1>23. CoerceFailed => Quiet
  BY WhichTop, HeapGrows, Endings DEF CoerceFailed, Same, Quiet
<1>24. JoinStep => Quiet
  BY WhichTop, HeapGrows, Nesting, Endings, TopIs DEF JoinStep, Same, Quiet, Coercion, Other, Named
<1>25. JoinFailed => Quiet
  BY WhichTop, HeapGrows, Endings DEF JoinFailed, Same, Quiet, PassOn
<1>26. DeepForce => Quiet
  BY WhichTop, HeapGrows, Nesting DEF DeepForce, Same, Quiet
<1>27. DeepStep => Quiet
  BY WhichTop, HeapGrows, Nesting, Endings, TopIs DEF DeepStep, Same, Quiet, Other, Named
<1>28. DeepFailed => Quiet
  BY WhichTop, HeapGrows, Endings DEF DeepFailed, Same, Quiet, PassOn
<1>29. ASSUME BorrowEnds PROVE Quiet
  <2>1. Top
    BY <1>29, WhichTop DEF BorrowEnds, Active
  <2> QED BY <1>29, <2>1, Endings, HeapGrows DEF BorrowEnds, Same, Quiet
<1>30. ASSUME CoerceValueOf PROVE Quiet
  <2>1. Top /\ Len(ctl) \in Nat
    BY <1>30, WhichTop, TopIs DEF CoerceValueOf
  <2>2. \A v : Other([Activation EXCEPT !.v = v])
    BY <2>1, TopIs DEF Other, Named
  <2>3. Base(Holding(Front(ctl), Activation.v))
    BY <2>1, Bases, HoldingKept
  <2>4. Keeps
    BY <1>30, <2>1, <2>2, <2>3, PushedOn DEF CoerceValueOf
  <2>5. Grows(heap')
    BY <1>30, HeapGrows DEF CoerceValueOf, Same
  <2> QED BY <2>4, <2>5 DEF Quiet
<1> QED BY <1>1, <1>2, <1>3, <1>4, <1>5, <1>6, <1>7, <1>8, <1>9, <1>10, <1>11, <1>12, <1>13, <1>14, <1>15, <1>16, <1>17, <1>18, <1>19, <1>20, <1>21, <1>22, <1>23, <1>24, <1>25, <1>26, <1>27, <1>28, <1>29, <1>30 DEF Nested

(* The elements of a finite set, listed, are a sequence. *)
LEMMA SetToSeqIs == ASSUME NEW S, IsFiniteSet(S) PROVE IsSeq(SetToSeq(S))
<1>1. PICK n \in Nat : ExistsBijection(1 .. n, S)
  BY FS_NatBijection
<1>2. PICK f : f \in Bijection(1 .. n, S)
  BY <1>1 DEF ExistsBijection
<1>3. Cardinality(S) = n
  BY <1>1, FS_CountingElements
<1>4. f \in [1 .. n -> S] /\ IsInjective(f)
  BY <1>2 DEF Bijection, Injection
<1>5. SetToSeq(S) \in [1 .. n -> S]
  BY <1>3, <1>4 DEF SetToSeq
<1>6. SetToSeq(S) \in Seq(S)
  BY <1>5
<1> QED BY <1>6, SomeSeq

(* A builtin that answers with a fresh object is quiet. *)
LEMMA SettleQuiet ==
  Top => \A outcome : Settle(outcome) => Quiet
BY Endings, Nesting, HeapGrows DEF Settle, Quiet, Top

(* So is one that answers with a set of lists (partition, groupBy). *)
LEMMA SetOfListsQuiet ==
  ASSUME Top, NEW keys, IsFiniteSet(keys), NEW acc, SetOfLists(keys, acc)
  PROVE  Quiet
<1>1. Keeps
  BY Nesting DEF SetOfLists
<1> DEFINE xs == SetToSeq(keys)
           lists == [i \in DOMAIN xs |-> [items |-> Grouped(acc, xs[i])]]
<1>2. PICK last : heap' = heap \o lists \o <<last>>
  BY DEF SetOfLists
<1>3. IsSeq(xs) /\ Len(xs) \in Nat /\ DOMAIN xs = 1 .. Len(xs)
  BY SetToSeqIs, SeqIs
<1> HIDE DEF xs
<1>4. lists \in Seq(Range(lists))
  <2>1. lists \in [1 .. Len(xs) -> Range(lists)]
    BY <1>3 DEF Range
  <2> HIDE DEF lists
  <2> QED BY <2>1, <1>3
<1> HIDE DEF lists
<1>5. IsSeq(lists) /\ IsSeq(heap) /\ IsSeq(<<last>>)
  BY <1>4, PairIsSeq DEF IsSeq, Top, Sequences
<1>6. PICK front : front = heap \o lists
  OBVIOUS
<1>7. /\ IsSeq(front) /\ Len(front) = Len(heap) + Len(lists)
      /\ \A t \in 1 .. Len(heap) : front[t] = heap[t]
  BY <1>5, <1>6, ConcatIs
<1>8. /\ IsSeq(heap') /\ Len(heap') = Len(front) + Len(<<last>>)
      /\ \A t \in 1 .. Len(front) : heap'[t] = front[t]
  BY <1>2, <1>5, <1>6, <1>7, ConcatIs
<1>9. Len(heap) \in Nat /\ Len(lists) \in Nat /\ Len(<<last>>) \in Nat
  BY <1>5, SeqIs
<1>10. Grows(heap')
  BY <1>7, <1>8, <1>9 DEF Grows
<1> QED BY <1>1, <1>10 DEF Quiet

(* The keys a builtin has collected are finitely many. *)
LEMMA KeysFinite == ASSUME NEW s, IsSeq(s) PROVE IsFiniteSet({pair[1] : pair \in Range(s)})
<1>1. Len(s) \in Nat /\ DOMAIN s = 1 .. Len(s)
  BY SeqIs
<1>2. IsFiniteSet(1 .. Len(s))
  BY <1>1, FS_Interval
<1> DEFINE keys == {pair[1] : pair \in Range(s)}
           f == [i \in 1 .. Len(s) |-> s[i][1]]
<1>3. f \in Surjection(1 .. Len(s), keys)
  BY <1>1 DEF Surjection, Range
<1> HIDE DEF keys, f
<1>4. IsFiniteSet(keys)
  BY <1>2, <1>3, FS_Surjection
<1> QED BY <1>4 DEF keys

(* Every step of a builtin is quiet (builtins/mod.rs, call_builtin). *)
LEMMA BuiltinQuiet ==
  ASSUME Sequences, TypeOK PROVE BuiltinStep => Quiet
<1>1. BuiltinPartial => Quiet
  BY WhichTop, HeapGrows, Nesting DEF BuiltinPartial, Same, Quiet
<1>2. ASSUME BuiltinForce PROVE Quiet
  <2>1. Top /\ Len(ctl) \in Nat
    BY <1>2, WhichTop, TopIs DEF BuiltinForce
  <2>2. \A i : Base(Under(i))
    BY <2>1, Bases, HoldingKept DEF Under
  <2>3. Keeps
    BY <1>2, <2>1, <2>2, Nesting DEF BuiltinForce
  <2>4. Grows(heap')
    BY <1>2, HeapGrows DEF BuiltinForce, Same
  <2> QED BY <2>3, <2>4 DEF Quiet
<1>3. BuiltinFailed => Quiet
  BY WhichTop, HeapGrows, Endings DEF BuiltinFailed, Same, Quiet
<1>4. BuiltinPlain => Quiet
  BY WhichTop, HeapGrows, SettleQuiet DEF BuiltinPlain, Same, Quiet, Calls
<1>5. BuiltinTryEval => Quiet
  BY WhichTop, HeapGrows, Nesting DEF BuiltinTryEval, Same, Quiet
<1>6. ASSUME BuiltinLessThan PROVE Quiet
  <2>1. Top /\ Len(ctl) \in Nat
    BY <1>6, WhichTop, TopIs DEF BuiltinLessThan, Calls
  <2>2. \A v, w : Base(Holding(Holding(Front(ctl), v), w))
    BY <2>1, Bases, HoldingKept
  <2>3. \A op, v, w : Other(Ordering(op, v, w))
    BY DEF Other, Named, Ordering
  <2>4. Keeps
    BY <1>6, <2>1, <2>2, <2>3, PushedOn DEF BuiltinLessThan
  <2>5. Grows(heap')
    BY <1>6, HeapGrows DEF BuiltinLessThan, Same
  <2> QED BY <2>4, <2>5 DEF Quiet
<1>7. BuiltinToString => Quiet
  BY WhichTop, HeapGrows, Nesting DEF BuiltinToString, Same, Quiet, Calls, Coercion, Other, Named
<1>8. ASSUME BuiltinStringLength PROVE Quiet
  <2>1. Top
    BY <1>8, WhichTop DEF BuiltinStringLength
  <2>2. Other(Activation)
    BY <2>1, TopIs
  <2>3. \A v : Other(Coercion(v, FALSE))
    BY <2>2 DEF Other, Named, Coercion
  <2>4. Keeps
    BY <1>8, <2>1, <2>2, <2>3, Endings, Pushed DEF BuiltinStringLength
  <2>5. Grows(heap')
    BY <1>8, HeapGrows DEF BuiltinStringLength, Same
  <2> QED BY <2>4, <2>5 DEF Quiet
<1>9. BuiltinDeepSeq => Quiet
  BY WhichTop, HeapGrows, Nesting DEF BuiltinDeepSeq, Same, Quiet, Calls, DeepForcing, Other, Named
<1>10. BuiltinLoop => Quiet
  BY WhichTop, HeapGrows, Nesting DEF BuiltinLoop, Same, Quiet, Calls, Loop, Other, Named
<1>11. BuiltinSort => Quiet
  BY WhichTop, HeapGrows, Nesting DEF BuiltinSort, Same, Quiet, Calls, Sorting, Other, Named
<1>12. BuiltinGenericClosure => Quiet
  BY WhichTop, HeapGrows, Nesting DEF BuiltinGenericClosure, Same, Quiet, Calls, Other, Named
<1>13. ASSUME LoopNext PROVE Quiet
  <2>1. Top
    BY <1>13, WhichTop DEF LoopNext
  <2>2. Other(Activation)
    BY <2>1, TopIs
  <2>3. \A g : Other([Activation EXCEPT !.got = g])
    BY <2>2 DEF Other, Named
  <2>4. \A v : Other(Coercion(v, FALSE))
    BY <2>2 DEF Other, Named, Coercion
  <2>5. Other(EqualityOf(TRUE))
    BY <2>2 DEF Other, Named, EqualityOf
  <2>6. Keeps
    BY <1>13, <2>1, <2>2, <2>3, <2>4, <2>5, Nesting DEF LoopNext
  <2>7. Grows(heap')
    BY <1>13, HeapGrows DEF LoopNext, Same
  <2> QED BY <2>6, <2>7 DEF Quiet
<1>14. ASSUME LoopReturned PROVE Quiet
  <2>1. Top
    BY <1>14, WhichTop DEF LoopReturned
  <2>2. Other(Activation)
    BY <2>1, TopIs
  <2>3. \A g : Other([Activation EXCEPT !.got = g])
    BY <2>2 DEF Other, Named
  <2>4. Keeps
    BY <1>14, <2>1, <2>2, <2>3, Nesting DEF LoopReturned
  <2>5. Grows(heap')
    BY <1>14, HeapGrows DEF LoopReturned, Same
  <2> QED BY <2>4, <2>5 DEF Quiet
<1>15. LoopForce => Quiet
  BY WhichTop, HeapGrows, Nesting DEF LoopForce, Same, Quiet
<1>16. ASSUME LoopCollect PROVE Quiet
  <2>1. Top
    BY <1>16, WhichTop DEF LoopCollect
  <2>2. Other(Activation)
    BY <2>1, TopIs
  <2>3. \A g : Other([Activation EXCEPT !.got = g])
    BY <2>2 DEF Other, Named
  <2>4. \A c, g, t : Other([Activation EXCEPT !.acc = c, !.got = g, !.todo = t])
    BY <2>2 DEF Other, Named
  <2>5. Keeps
    BY <1>16, <2>1, <2>2, <2>3, <2>4, Nesting DEF LoopCollect
  <2>6. Grows(heap')
    BY <1>16, HeapGrows DEF LoopCollect, Same
  <2> QED BY <2>5, <2>6 DEF Quiet
<1>17. ASSUME LoopDone PROVE Quiet
  <2>1. Top
    BY <1>17, WhichTop DEF LoopDone
  <2>2. IsSeq(Activation.acc)
    <3>1. Activation \in Range(ctl) /\ Activation.k = "loop"
      BY <1>17, <2>1, TopIs, SeqIs DEF LoopDone, Active, Range
    <3> QED BY <3>1 DEF TypeOK, IsSeq
  <2> DEFINE keys == {pair[1] : pair \in Range(Activation.acc)}
  <2>3. IsFiniteSet(keys) /\ IsFiniteSet({"right", "wrong"})
    <3>1. IsFiniteSet(keys)
      BY <2>2, KeysFinite
    <3>2. IsFiniteSet({"right"})
      BY FS_Singleton
    <3>3. IsFiniteSet({"right"} \cup {"wrong"})
      BY <3>2, FS_AddElement
    <3>4. {"right"} \cup {"wrong"} = {"right", "wrong"}
      OBVIOUS
    <3> QED BY <3>1, <3>3, <3>4
  <2> HIDE DEF keys
  <2>4. \/ \E outcome : Settle(outcome)
        \/ SetOfLists({"right", "wrong"}, Activation.acc)
        \/ SetOfLists(keys, Activation.acc)
    BY <1>17 DEF LoopDone, keys
  <2> QED BY <2>1, <2>3, <2>4, SettleQuiet, SetOfListsQuiet
<1>18. ASSUME LoopFailed PROVE Quiet
  <2>1. Top
    BY <1>18, WhichTop DEF LoopFailed
  <2>2. Other(Activation)
    BY <2>1, TopIs
  <2>3. \A t : Other([Activation EXCEPT !.todo = t])
    BY <2>2 DEF Other, Named
  <2>4. Keeps
    BY <1>18, <2>1, <2>2, <2>3, Nesting, Endings DEF LoopFailed
  <2>5. Grows(heap')
    BY <1>18, HeapGrows DEF LoopFailed, Same
  <2> QED BY <2>4, <2>5 DEF Quiet
<1>19. ASSUME SortStep PROVE Quiet
  <2>1. Top
    BY <1>19, WhichTop DEF SortStep
  <2>2. Other(Activation)
    BY <2>1, TopIs
  <2>3. \A c, t : Other([Activation EXCEPT !.cur = c, !.todo = t])
    BY <2>2 DEF Other, Named
  <2>4. Other(Place(Activation))
    BY <2>2 DEF Other, Named, Place
  <2> QED BY <1>19, <2>1, <2>2, <2>3, <2>4, Nesting, SettleQuiet, HeapGrows DEF SortStep, Same, Quiet
<1>20. SortForce => Quiet
  BY WhichTop, HeapGrows, Nesting DEF SortForce, Same, Quiet
<1>21. ASSUME SortReturned PROVE Quiet
  <2>1. Top
    BY <1>21, WhichTop DEF SortReturned
  <2>2. Other(Activation)
    BY <2>1, TopIs
  <2>3. \A g : Other([Activation EXCEPT !.got = g])
    BY <2>2 DEF Other, Named
  <2>4. \A e : Other(Place([Activation EXCEPT !.error = e]))
    BY <2>2 DEF Other, Named, Place
  <2>5. \A g, p, t : Other([Activation EXCEPT !.got = g, !.passed = p, !.sorted = t])
    BY <2>2 DEF Other, Named
  <2>6. Other(Place(Activation))
    BY <2>2 DEF Other, Named, Place
  <2>7. Keeps
    BY <1>21, <2>1, <2>2, <2>3, <2>4, <2>5, <2>6, Nesting DEF SortReturned
  <2>8. Grows(heap')
    BY <1>21, HeapGrows DEF SortReturned, Same
  <2> QED BY <2>7, <2>8 DEF Quiet
<1>22. ASSUME SortFailed PROVE Quiet
  <2>1. Top
    BY <1>22, WhichTop DEF SortFailed
  <2>2. Other(Activation)
    BY <2>1, TopIs
  <2>3. \A e : Other(Place([Activation EXCEPT !.error = e]))
    BY <2>2 DEF Other, Named, Place
  <2>4. Keeps
    BY <1>22, <2>1, <2>2, <2>3, Nesting DEF SortFailed
  <2>5. Grows(heap')
    BY <1>22, HeapGrows DEF SortFailed, Same
  <2> QED BY <2>4, <2>5 DEF Quiet
<1>23. ClosureForce => Quiet
  BY WhichTop, HeapGrows, Nesting DEF ClosureForce, Same, Quiet
<1>24. ASSUME ClosureForced PROVE Quiet
  <2>1. Top
    BY <1>24, WhichTop DEF ClosureForced
  <2>2. Other(Activation)
    BY <2>1, TopIs
  <2>3. \A t, w : Other([[Activation EXCEPT !.got = <<>>] EXCEPT !.todo = t, !.wait = w])
    BY <2>2 DEF Other, Named
  <2>4. \A t, w, d : Other([[Activation EXCEPT !.got = <<>>] EXCEPT !.keys = t, !.wait = w, !.done = d])
    BY <2>2 DEF Other, Named
  <2>5. Keeps
    BY <1>24, <2>1, <2>2, <2>3, <2>4, Nesting DEF ClosureForced
  <2>6. Grows(heap')
    BY <1>24, HeapGrows DEF ClosureForced, Same
  <2> QED BY <2>5, <2>6 DEF Quiet
<1>25. ASSUME ClosureStep PROVE Quiet
  <2>1. Top
    BY <1>25, WhichTop DEF ClosureStep
  <2>2. Other(Activation)
    BY <2>1, TopIs
  <2>3. \A i, g, t, w : Other([Activation EXCEPT !.item = i, !.got = g, !.todo = t, !.wait = w])
    BY <2>2 DEF Other, Named
  <2>4. \A d : Other([Activation EXCEPT !.done = d])
    BY <2>2 DEF Other, Named
  <2>5. Other(EqualityOf(FALSE))
    BY <2>2 DEF Other, Named, EqualityOf
  <2>6. \A r, w : Other([Activation EXCEPT !.res = r, !.wait = w])
    BY <2>2 DEF Other, Named
  <2>7. \/ \E outcome : Settle(outcome)
        \/ /\ UNCHANGED heap
           /\ \/ \E i, g, t, w : GoOn([Activation EXCEPT !.item = i, !.got = g, !.todo = t, !.wait = w])
              \/ \E d : Enter([Activation EXCEPT !.done = d], EqualityOf(FALSE))
              \/ \E f, args, r, w : CallWith(f, args, [Activation EXCEPT !.res = r, !.wait = w])
    BY <1>25 DEF ClosureStep, Same
  <2> QED BY <2>1, <2>3, <2>4, <2>5, <2>6, <2>7, Nesting, SettleQuiet, HeapGrows DEF Quiet
<1>26. ASSUME ClosureReturned PROVE Quiet
  <2>1. Top
    BY <1>26, WhichTop DEF ClosureReturned
  <2>2. Other(Activation)
    BY <2>1, TopIs
  <2>3. \A g, w : Other([Activation EXCEPT !.got = g, !.wait = w])
    BY <2>2 DEF Other, Named
  <2>4. \A g, w : Other([Activation EXCEPT !.keys = g, !.wait = w])
    BY <2>2 DEF Other, Named
  <2>5. Keeps
    BY <1>26, <2>1, <2>2, <2>3, <2>4, Nesting DEF ClosureReturned
  <2>6. Grows(heap')
    BY <1>26, HeapGrows DEF ClosureReturned, Same
  <2> QED BY <2>5, <2>6 DEF Quiet
<1>27. ClosureFailed => Quiet
  BY WhichTop, HeapGrows, Endings DEF ClosureFailed, Same, Quiet, PassOn
<1> QED BY <1>1, <1>2, <1>3, <1>4, <1>5, <1>6, <1>7, <1>8, <1>9, <1>10, <1>11, <1>12, <1>13, <1>14, <1>15, <1>16, <1>17, <1>18, <1>19, <1>20, <1>21, <1>22, <1>23, <1>24, <1>25, <1>26, <1>27 DEF BuiltinStep

-----------------------------------------------------------------------------
(* What the steps do to the thunks under evaluation *)

(* What is being forced is a thunk on the heap. *)
LEMMA ForcedAreThunks ==
  ASSUME Sequences, TypeOK, NEW i \in 1 .. Len(ctl), ctl[i].k = "force"
  PROVE  ctl[i].thunk \in 1 .. Len(heap) /\ DOMAIN heap[ctl[i].thunk] \in ThunkKinds
<1>1. ctl[i] \in Range(ctl) /\ DOMAIN heap = 1 .. Len(heap)
  BY SeqIs DEF Sequences, Range
<1>2. \A a \in Range(ctl) : a.k = "force" => IsAt(a.thunk, ThunkKinds)
  BY DEF TypeOK
<1>3. IsAt(ctl[i].thunk, ThunkKinds)
  BY <1>1, <1>2
<1> QED BY <1>1, <1>3 DEF IsAt

(* A step that keeps the activations and every blackhole under
   evaluation keeps the invariant. *)
LEMMA KeptEvaluating ==
  ASSUME Sequences, EvaluatedOnce, Keeps, IsSeq(heap'),
         \A i \in 1 .. Len(ctl) : Evaluating(i) => heap'[ctl[i].thunk] = heap[ctl[i].thunk]
  PROVE  Sequences' /\ EvaluatedOnce'
<1>1. /\ Len(ctl) \in Nat /\ DOMAIN ctl = 1 .. Len(ctl)
      /\ Len(ctl') \in Nat /\ DOMAIN ctl' = 1 .. Len(ctl')
  BY SeqIs DEF Keeps, KeptBy, Sequences
<1>2. Sequences'
  BY DEF Sequences, Keeps, KeptBy
<1>3. ASSUME NEW i \in 1 .. Len(ctl'), Evaluating(i)'
      PROVE  /\ i \in 1 .. Len(ctl) /\ ctl'[i] = ctl[i] /\ Evaluating(i)
             /\ heap[ctl[i].thunk] = Hole /\ heap'[ctl[i].thunk] = Hole
  <2>1. i < Len(ctl) /\ ctl'[i] = ctl[i]
    <3>1. ctl'[i].k = "force" /\ (i < Len(ctl') \/ ret' # "go")
      BY <1>3 DEF Evaluating
    <3>2. ~(i >= Len(ctl))
      BY <3>1 DEF Keeps, KeptBy
    <3>3. i < Len(ctl)
      BY <1>1, <3>2
    <3> QED BY <3>3 DEF Keeps, KeptBy
  <2>2. i \in 1 .. Len(ctl) /\ Evaluating(i)
    BY <1>1, <1>3, <2>1 DEF Evaluating
  <2>3. heap[ctl[i].thunk] = Hole
    BY <1>1, <2>2 DEF EvaluatedOnce
  <2> QED BY <2>1, <2>2, <2>3
<1>4. EvaluatedOnce'
  BY <1>1, <1>3 DEF EvaluatedOnce
<1> QED BY <1>2, <1>4

(* A quiet step keeps the invariant. *)
LEMMA QuietKeeps ==
  ASSUME Sequences, TypeOK, EvaluatedOnce, Quiet
  PROVE  Sequences' /\ EvaluatedOnce'
<1>1. \A i \in 1 .. Len(ctl) : Evaluating(i) => heap'[ctl[i].thunk] = heap[ctl[i].thunk]
  BY ForcedAreThunks DEF Evaluating, Quiet, Grows
<1> QED BY <1>1, KeptEvaluating DEF Quiet, Grows

(* A quiet step leaves every object as it was. *)
LEMMA QuietStays ==
  ASSUME Sequences, Quiet, NEW t \in DOMAIN heap
  PROVE  heap'[t] = heap[t]
BY SeqIs DEF Sequences, Quiet, Grows

\* The step changes at most the object at that address.
Rewrites(at) ==
    /\ IsSeq(heap') /\ Len(heap') = Len(heap)
    /\ at \in 1 .. Len(heap) /\ \A t \in 1 .. Len(heap) : t # at => heap'[t] = heap[t]

(* An update of the heap at one address changes no other object. *)
LEMMA Rewriting ==
  ASSUME Sequences, NEW at \in 1 .. Len(heap), NEW o, heap' = [heap EXCEPT ![at] = o]
  PROVE  Rewrites(at) /\ heap'[at] = o
<1>1. IsSeq(heap) /\ DOMAIN heap = 1 .. Len(heap)
  BY SeqIs DEF Sequences
<1>2. IsSeq(heap') /\ Len(heap') = Len(heap)
  BY <1>1, UpdateIs
<1> QED BY <1>1, <1>2 DEF Rewrites

(* What the innermost activation is when it is a Thunk::force. *)
LEMMA ForceTop ==
  ASSUME Sequences, InForce
  PROVE  /\ Len(ctl) \in Nat \ {0} /\ DOMAIN ctl = 1 .. Len(ctl)
         /\ Activation = ctl[Len(ctl)] /\ ctl[Len(ctl)].k = "force" /\ IsSeq(ctl)
BY SeqIs DEF Sequences, InForce, Activation, Last

(* What a step of Thunk::force does, told by what happens to its thunk:
   it becomes a blackhole, or takes over another representation, or nothing. *)
LEMMA ForceThunkCases ==
  ASSUME Sequences, TypeOK, ForceThunk
  PROVE  \/ Quiet
         \/ \E t \in 1 .. Len(heap) :
              /\ Activation.thunk = t /\ Rewrites(t) /\ ret' = "go" /\ ret = "go"
              /\ \/ /\ Has(heap[t], "suspended") /\ heap'[t] = Hole
                    /\ ctl' = Append(ctl, [k |-> "run"])
                 \/ /\ Has(heap[t], "value") /\ IsThunk(heap[t].value)
                    /\ ctl' = ctl
<1> DEFINE t == Activation.thunk
<1>1. t \in 1 .. Len(heap)
  BY ForceTop, ForcedAreThunks DEF ForceThunk
<1>2. (ctl' = Front(ctl) \/ ctl' = <<>>) /\ heap' = heap => Quiet
  BY KeptFront, KeptEmpty, HeapGrows, ForceTop DEF Keeps, Quiet, ForceThunk, InForce
<1>3. CASE Has(heap[t], "suspended") /\ heap' = Blackholed(t)
            /\ ctl' = Append(ctl, [k |-> "run"]) /\ UNCHANGED ret
  BY <1>1, <1>3, Rewriting DEF ForceThunk, Blackholed
<1>4. CASE Has(heap[t], "value") /\ IsThunk(heap[t].value) /\ heap' = TakenOver(t)
            /\ UNCHANGED <<ctl, ret>>
  BY <1>1, <1>4, Rewriting DEF ForceThunk, TakenOver
<1> QED BY <1>2, <1>3, <1>4 DEF ForceThunk, Panic

(* Starting or continuing a Thunk::force keeps the invariant: a thunk
   that starts was suspended, so nobody was evaluating it. *)
LEMMA ForceThunkKeeps ==
  ASSUME Sequences, TypeOK, EvaluatedOnce, ForceThunk
  PROVE  Sequences' /\ EvaluatedOnce'
<1>1. CASE Quiet
  BY <1>1, QuietKeeps
<1>2. CASE \E t \in 1 .. Len(heap) :
              /\ Activation.thunk = t /\ Rewrites(t) /\ ret' = "go" /\ ret = "go"
              /\ \/ /\ Has(heap[t], "suspended") /\ heap'[t] = Hole
                    /\ ctl' = Append(ctl, [k |-> "run"])
                 \/ /\ Has(heap[t], "value") /\ IsThunk(heap[t].value)
                    /\ ctl' = ctl
  <2> PICK t \in 1 .. Len(heap) :
              /\ Activation.thunk = t /\ Rewrites(t) /\ ret' = "go" /\ ret = "go"
              /\ \/ /\ Has(heap[t], "suspended") /\ heap'[t] = Hole
                    /\ ctl' = Append(ctl, [k |-> "run"])
                 \/ /\ Has(heap[t], "value") /\ IsThunk(heap[t].value)
                    /\ ctl' = ctl
    BY <1>2
  <2>1. /\ Len(ctl) \in Nat \ {0} /\ DOMAIN ctl = 1 .. Len(ctl)
        /\ t = ctl[Len(ctl)].thunk /\ ctl[Len(ctl)].k = "force" /\ IsSeq(ctl)
    BY ForceTop DEF ForceThunk
  <2>2. ASSUME NEW i \in 1 .. Len(ctl), Evaluating(i)
        PROVE  /\ ctl[i].thunk # t /\ heap[ctl[i].thunk] = Hole /\ heap'[ctl[i].thunk] = Hole
    <3>1. heap[ctl[i].thunk] = Hole
      BY <2>1, <2>2 DEF EvaluatedOnce
    <3>2. ctl[i].thunk # t
      BY <3>1 DEF Has, Hole
    <3>3. ctl[i].thunk \in 1 .. Len(heap)
      BY <2>2, ForcedAreThunks DEF Evaluating
    <3> QED BY <3>1, <3>2, <3>3 DEF Rewrites
  <2>3. CASE ctl' = ctl
    <3>1. Sequences'
      BY <2>3 DEF Sequences, Rewrites
    <3>2. \A i : Evaluating(i)' <=> Evaluating(i)
      BY <2>3 DEF Evaluating
    <3>3. EvaluatedOnce'
      BY <2>1, <2>2, <2>3, <3>2 DEF EvaluatedOnce
    <3> QED BY <3>1, <3>3
  <2>4. CASE heap'[t] = Hole /\ ctl' = Append(ctl, [k |-> "run"])
    <3>1. /\ IsSeq(ctl') /\ Len(ctl') = Len(ctl) + 1 /\ DOMAIN ctl' = 1 .. Len(ctl')
          /\ \A i \in 1 .. Len(ctl) : ctl'[i] = ctl[i]
          /\ ctl'[Len(ctl) + 1] = [k |-> "run"]
      <4>1. /\ IsSeq(ctl') /\ Len(ctl') = Len(ctl) + 1
            /\ \A i \in 1 .. Len(ctl) : ctl'[i] = ctl[i]
            /\ ctl'[Len(ctl) + 1] = [k |-> "run"]
        <5> PICK b : b = [k |-> "run"]
          OBVIOUS
        <5>1. /\ IsSeq(Append(ctl, b)) /\ Len(Append(ctl, b)) = Len(ctl) + 1
              /\ \A i \in 1 .. Len(ctl) : Append(ctl, b)[i] = ctl[i]
              /\ Append(ctl, b)[Len(ctl) + 1] = b
          BY <2>1, AppendIs
        <5> QED BY <2>4, <5>1
      <4> QED BY <4>1, SeqIs
    <3>2. Sequences'
      <4>1. \A i \in 1 .. Len(ctl') : Named(ctl'[i])
        BY <2>1, <3>1 DEF Sequences, Named
      <4> QED BY <3>1, <4>1 DEF Sequences, Rewrites
    <3>3. ASSUME NEW i \in 1 .. Len(ctl'), Evaluating(i)'
          PROVE  /\ i \in 1 .. Len(ctl) /\ ctl'[i] = ctl[i]
                 /\ i # Len(ctl) => Evaluating(i)
      <4>1. ctl'[i].k = "force"
        BY <3>3 DEF Evaluating
      <4>2. i # Len(ctl) + 1
        BY <3>1, <4>1
      <4>3. i \in 1 .. Len(ctl)
        BY <2>1, <3>1, <4>2
      <4>4. i # Len(ctl) => i < Len(ctl)
        BY <2>1, <4>3
      <4>5. ctl'[i] = ctl[i] /\ ctl[i].k = "force"
        BY <3>1, <4>1, <4>3
      <4>6. i # Len(ctl) => Evaluating(i)
        BY <4>4, <4>5 DEF Evaluating
      <4> QED BY <4>3, <4>5, <4>6
    <3>4. ASSUME NEW i \in 1 .. Len(ctl'), Evaluating(i)' PROVE heap'[ctl'[i].thunk] = Hole
      <4>1. i \in 1 .. Len(ctl) /\ ctl'[i] = ctl[i] /\ (i # Len(ctl) => Evaluating(i))
        BY <3>3, <3>4
      <4>2. CASE i = Len(ctl)
        BY <2>1, <2>4, <4>1, <4>2
      <4>3. CASE i # Len(ctl)
        BY <2>2, <4>1, <4>3
      <4> QED BY <4>2, <4>3
    <3>5. ASSUME NEW i \in 1 .. Len(ctl'), Evaluating(i)', NEW j \in 1 .. Len(ctl'), Evaluating(j)',
                 ctl'[j].thunk = ctl'[i].thunk
          PROVE  j = i
      <4>1. CASE i = Len(ctl)
        BY <2>1, <2>2, <3>3, <3>5, <4>1
      <4>2. CASE i # Len(ctl) /\ j = Len(ctl)
        BY <2>1, <2>2, <3>3, <3>5, <4>2
      <4>3. CASE i # Len(ctl) /\ j # Len(ctl)
        BY <2>1, <3>3, <3>5, <4>3 DEF EvaluatedOnce
      <4> QED BY <4>1, <4>2, <4>3
    <3>6. EvaluatedOnce'
      BY <3>1, <3>4, <3>5 DEF EvaluatedOnce
    <3> QED BY <3>2, <3>6
  <2> QED BY <2>3, <2>4
<1> QED BY <1>1, <1>2, ForceThunkCases

(* When the code of a thunk has returned, the thunk is still a blackhole. *)
LEMMA ForceReturnedCases ==
  ASSUME Sequences, TypeOK, EvaluatedOnce, ForceReturned
  PROVE  \/ Quiet
         \/ /\ heap[Activation.thunk] = Hole /\ Rewrites(Activation.thunk)
            /\ ret' = "go" /\ ctl' = ctl
<1>1. /\ Len(ctl) \in Nat \ {0} /\ DOMAIN ctl = 1 .. Len(ctl)
      /\ Activation = ctl[Len(ctl)] /\ ctl[Len(ctl)].k = "force" /\ IsSeq(ctl)
  BY ForceTop DEF ForceReturned
<1>2. Evaluating(Len(ctl))
  BY <1>1 DEF Evaluating, ForceReturned
<1>3. heap[Activation.thunk] = Hole /\ Activation.thunk \in 1 .. Len(heap)
  BY <1>1, <1>2, ForcedAreThunks DEF EvaluatedOnce
<1>4. CASE ret = "ok"
  BY <1>3, <1>4, Rewriting DEF ForceReturned
<1>5. CASE ret # "ok"
  <2>1. ctl' = Front(ctl) /\ heap' = heap
    BY <1>5 DEF ForceReturned
  <2> QED BY <1>1, <2>1, KeptFront, HeapGrows DEF Quiet, Keeps, ForceReturned, InForce
<1> QED BY <1>4, <1>5

(* Storing the value keeps the invariant: nobody else evaluates the thunk. *)
LEMMA ForceReturnedKeeps ==
  ASSUME Sequences, TypeOK, EvaluatedOnce, ForceReturned
  PROVE  Sequences' /\ EvaluatedOnce'
<1>1. CASE Quiet
  BY <1>1, QuietKeeps
<1>2. CASE /\ heap[Activation.thunk] = Hole /\ Rewrites(Activation.thunk)
            /\ ret' = "go" /\ ctl' = ctl
  <2>1. /\ Len(ctl) \in Nat \ {0} /\ DOMAIN ctl = 1 .. Len(ctl)
        /\ Activation = ctl[Len(ctl)] /\ ctl[Len(ctl)].k = "force" /\ IsSeq(ctl)
    BY ForceTop DEF ForceReturned
  <2>2. Evaluating(Len(ctl))
    BY <2>1 DEF Evaluating, ForceReturned
  <2>3. Sequences'
    BY <1>2 DEF Sequences, Rewrites
  <2>4. ASSUME NEW i \in 1 .. Len(ctl), Evaluating(i)'
        PROVE  Evaluating(i) /\ heap'[ctl[i].thunk] = Hole
    <3>1. i # Len(ctl) /\ Evaluating(i)
      BY <1>2, <2>1, <2>4 DEF Evaluating
    <3>2. heap[ctl[i].thunk] = Hole /\ ctl[i].thunk # Activation.thunk
      <4>1. i \in DOMAIN ctl /\ Len(ctl) \in DOMAIN ctl
        BY <2>1
      <4> QED BY <2>1, <2>2, <3>1, <4>1 DEF EvaluatedOnce
    <3>3. ctl[i].thunk \in 1 .. Len(heap)
      BY <3>1, ForcedAreThunks DEF Evaluating
    <3> QED BY <1>2, <3>1, <3>2, <3>3 DEF Rewrites
  <2>5. EvaluatedOnce'
    BY <1>2, <2>1, <2>4 DEF EvaluatedOnce
  <2> QED BY <2>3, <2>5
<1> QED BY <1>1, <1>2, ForceReturnedCases

(* OpFinalise changes at most one object, and never a blackhole or a
   value: a suspended thunk or the upvalues of a closure. *)
LEMMA OpFinaliseCases ==
  ASSUME Sequences, TypeOK, OpFinalise
  PROVE  \/ Quiet
         \/ \E at \in 1 .. Len(heap) :
              Keeps /\ Rewrites(at) /\ ~Has(heap[at], "hole") /\ ~Has(heap[at], "value")
<1>1. Top /\ IsSeq(heap)
  BY WhichTop DEF OpFinalise, Sequences
<1>2. CASE heap' = heap
  <2>1. Keeps
    BY <1>1, <1>2, Endings DEF OpFinalise
  <2> QED BY <1>2, <2>1, HeapGrows DEF Quiet
<1>3. CASE heap' # heap
  <2> DEFINE v == stack[Frame.base + Instr.arg + 1]
             at == UpvaluesAt(v.thunk)
  <2>1. /\ Frame.base + Instr.arg + 1 \in DOMAIN stack /\ IsThunk(v) /\ Finalisable(v.thunk)
        /\ \E o : heap' = [heap EXCEPT ![at] = o]
        /\ Advance(1)
    BY <1>3 DEF OpFinalise
  <2>2. RefersToItsKind(v)
    BY <2>1 DEF TypeOK, Range
  <2>3. v.thunk \in DOMAIN heap /\ DOMAIN heap[v.thunk] \in ThunkKinds
    BY <2>1, <2>2 DEF RefersToItsKind, IsAt
  <2>4. /\ at \in DOMAIN heap /\ ~Has(heap[at], "hole") /\ ~Has(heap[at], "value")
    <3>1. CASE Has(heap[v.thunk], "suspended")
      BY <2>3, <3>1 DEF UpvaluesAt, Has, ThunkKinds
    <3>2. CASE ~Has(heap[v.thunk], "suspended")
      <4>1. Has(heap[v.thunk], "value") /\ Has(heap[v.thunk].value, "closure")
        BY <2>1, <3>2 DEF Finalisable
      <4>2. heap[v.thunk].value \in Held(heap[v.thunk])
        <5>1. DOMAIN heap[v.thunk] = {"value"}
          BY <2>3, <4>1 DEF ThunkKinds, Has
        <5> HIDE DEF v
        <5>2. \A o : DOMAIN o = {"value"} => Held(o) = {o.value}
          BY DEF Held, Has
        <5> QED BY <5>1, <5>2
      <4>3. RefersToItsKind(heap[v.thunk].value)
        BY <2>3, <4>2 DEF TypeOK, Range
      <4>4. IsAt(at, {{"upvalues", "finalised"}})
        BY <3>2, <4>1, <4>3 DEF RefersToItsKind, UpvaluesAt
      <4> QED BY <4>4 DEF IsAt, Has
    <3> QED BY <3>1, <3>2
  <2>5. at \in 1 .. Len(heap)
    BY <1>1, <2>4, SeqIs
  <2>6. Rewrites(at)
    BY <2>1, <2>5, Rewriting
  <2>7. Keeps
    BY <1>1, <2>1, Endings
  <2> QED BY <2>4, <2>5, <2>6, <2>7
<1> QED BY <1>2, <1>3

(* Thunk::finalise keeps the invariant. *)
LEMMA OpFinaliseKeeps ==
  ASSUME Sequences, TypeOK, EvaluatedOnce, OpFinalise
  PROVE  Sequences' /\ EvaluatedOnce'
<1>1. CASE Quiet
  BY <1>1, QuietKeeps
<1>2. ASSUME NEW at \in 1 .. Len(heap), Keeps, Rewrites(at), ~Has(heap[at], "hole")
      PROVE  Sequences' /\ EvaluatedOnce'
  <2>1. ASSUME NEW i \in 1 .. Len(ctl), Evaluating(i)
        PROVE  heap'[ctl[i].thunk] = heap[ctl[i].thunk]
    <3>1. heap[ctl[i].thunk] = Hole
      BY <2>1, SeqIs DEF EvaluatedOnce, Sequences
    <3>2. ctl[i].thunk # at
      BY <1>2, <3>1 DEF Has, Hole
    <3>3. ctl[i].thunk \in 1 .. Len(heap)
      BY <2>1, ForcedAreThunks DEF Evaluating
    <3> QED BY <1>2, <3>2, <3>3 DEF Rewrites
  <2> QED BY <1>2, <2>1, KeptEvaluating DEF Rewrites
<1> QED BY <1>1, <1>2, OpFinaliseCases

-----------------------------------------------------------------------------
(* The theorems *)

(* Between the run and the deep forcing of its value nothing is forced. *)
LEMMA MainReturnedKeeps ==
  ASSUME Sequences, MainReturned
  PROVE  Sequences' /\ EvaluatedOnce'
<1>1. heap' = heap
  BY DEF MainReturned
<1>2. \A a, b : Other(a) /\ Other(b) /\ ctl' = <<a, b>> => Sequences' /\ EvaluatedOnce'
  <2> SUFFICES ASSUME NEW a, NEW b, Other(a), Other(b), ctl' = <<a, b>>
               PROVE  Sequences' /\ EvaluatedOnce'
    OBVIOUS
  <2>1. IsSeq(<<a, b>>)
    BY PairIsSeq
  <2>2. \A i \in 1 .. 2 : Other(<<a, b>>[i])
    OBVIOUS
  <2>3. DOMAIN <<a, b>> = 1 .. 2 /\ Len(<<a, b>>) = 2
    OBVIOUS
  <2> QED BY <1>1, <2>1, <2>2, <2>3 DEF Sequences, EvaluatedOnce, Evaluating, Other
<1>3. ctl' = <<>> => Sequences' /\ EvaluatedOnce'
  BY <1>1, PairIsSeq DEF Sequences, EvaluatedOnce, IsSeq
<1>4. Other([k |-> "main", deep |-> TRUE]) /\ Other(DeepForcing(Peek, <<>>))
  BY DEF Other, Named, DeepForcing
<1> QED BY <1>2, <1>3, <1>4 DEF MainReturned

(* The invariant is inductive, as long as references are of their kind. *)
LEMMA StepKeeps ==
  ASSUME Sequences, TypeOK, EvaluatedOnce, [Next]_vars
  PROVE  Sequences' /\ EvaluatedOnce'
<1>1. CASE Instruction
  BY <1>1, InstructionQuiet, OpFinaliseKeeps, QuietKeeps
<1>2. CASE Nested
  BY <1>2, NestedQuiet, ForceThunkKeeps, ForceReturnedKeeps, QuietKeeps
<1>3. CASE BuiltinStep
  BY <1>3, BuiltinQuiet, QuietKeeps
<1>4. CASE MainReturned
  BY <1>4, MainReturnedKeeps
<1>5. CASE UNCHANGED vars
  <2>1. heap' = heap /\ ctl' = ctl /\ ret' = ret
    BY <1>5 DEF vars
  <2> QED BY <2>1 DEF Sequences, EvaluatedOnce, Evaluating
<1> QED BY <1>1, <1>2, <1>3, <1>4, <1>5 DEF Next, Finished

(* No step changes a thunk that holds a value. *)
LEMMA StepStays ==
  ASSUME Sequences, TypeOK, EvaluatedOnce, [Next]_vars,
         NEW t \in DOMAIN heap, Has(heap[t], "value"), ~IsThunk(heap[t].value)
  PROVE  heap'[t] = heap[t]
<1>0. t \in 1 .. Len(heap) /\ heap[t] # Hole
  BY SeqIs DEF Sequences, Has, Hole
<1>1. Quiet => heap'[t] = heap[t]
  BY QuietStays
<1>2. ASSUME NEW at, Rewrites(at), heap'[t] # heap[t]
      PROVE  at = t
  BY <1>0, <1>2 DEF Rewrites
<1>3. CASE Instruction
  BY <1>0, <1>1, <1>2, <1>3, InstructionQuiet, OpFinaliseCases
<1>4. CASE Nested
  <2>1. CASE ForceThunk
    <3>1. ~Has(heap[t], "suspended")
      <4>1. DOMAIN heap[t] \in Kinds
        BY DEF TypeOK, Range
      <4> QED BY <4>1 DEF Kinds, ThunkKinds, Has
    <3> QED BY <1>1, <1>2, <2>1, <3>1, ForceThunkCases
  <2>2. CASE ForceReturned
    BY <1>0, <1>1, <1>2, <2>2, ForceReturnedCases
  <2> QED BY <1>1, <1>4, <2>1, <2>2, NestedQuiet
<1>5. CASE BuiltinStep
  BY <1>1, <1>5, BuiltinQuiet
<1>6. CASE MainReturned \/ UNCHANGED vars
  BY <1>6 DEF MainReturned, vars
<1> QED BY <1>3, <1>4, <1>5, <1>6 DEF Next, Finished

(* The invariant holds at the start. *)
LEMMA InitKeeps == Init => Sequences /\ EvaluatedOnce
<1> SUFFICES ASSUME Init PROVE Sequences /\ EvaluatedOnce
  OBVIOUS
<1>1. IsSeq(heap)
  BY CodeAssumption DEF Init, IsSeq
<1>2. PICK a, b : Other(a) /\ Other(b) /\ ctl = <<a, b>>
  BY DEF Init, Other, Named
<1>3. IsSeq(<<a, b>>)
  BY PairIsSeq
<1>4. \A i \in 1 .. 2 : Other(<<a, b>>[i])
  BY <1>2
<1>5. DOMAIN <<a, b>> = 1 .. 2 /\ Len(<<a, b>>) = 2
  OBVIOUS
<1> QED BY <1>1, <1>2, <1>3, <1>4, <1>5 DEF Sequences, EvaluatedOnce, Evaluating, Other

(* The invariant, with what it rests on. *)
LEMMA AlwaysOnce == Spec /\ []TypeOK => [](Sequences /\ EvaluatedOnce)
<1>1. Init => Sequences /\ EvaluatedOnce
  BY InitKeeps
<1>2. (Sequences /\ EvaluatedOnce) /\ TypeOK /\ [Next]_vars => (Sequences /\ EvaluatedOnce)'
  BY StepKeeps
<1> QED BY <1>1, <1>2, PTL DEF Spec

(* Thunk::force never evaluates a thunk that is already being evaluated,
   however deep the activations nest, and a thunk under evaluation is a
   blackhole until its value or its error is back: for every program, as
   long as references are of their kind, which Rust's types see to. *)
THEOREM ThunksAreEvaluatedOnce == Spec /\ []TypeOK => []EvaluatedOnce
BY AlwaysOnce, PTL

(* Under the same condition a thunk keeps the value it was evaluated to,
   through every instruction, builtin, finaliser and take-over. *)
THEOREM ValuesStay == Spec /\ []TypeOK => EvaluatedStays
<1>1. (Sequences /\ EvaluatedOnce) /\ TypeOK /\ [Next]_vars
        => [\A t \in DOMAIN heap :
             (Has(heap[t], "value") /\ ~IsThunk(heap[t].value)) => heap'[t] = heap[t]]_vars
  BY StepStays
<1> QED BY <1>1, AlwaysOnce, PTL DEF Spec, EvaluatedStays
-----------------------------------------------------------------------------
(* Attribute sets: the representation does not matter *)

\* A function on its domain.
IsMap(m) == m = [x \in DOMAIN m |-> m[x]]
\* A set in one of the three representations.
IsAttrs(set) == set.rep \in {"Empty", "KV"} \/ (set.rep = "Map" /\ IsMap(set.map))

(* Overlaying is trivial where one map has all the keys, or none. *)
LEMMA Overriding ==
  ASSUME NEW f, NEW g, IsMap(f), IsMap(g)
  PROVE  /\ DOMAIN g \subseteq DOMAIN f => Overlaid(f, g) = f
         /\ DOMAIN f = {} => Overlaid(f, g) = g
<1>1. ASSUME DOMAIN g \subseteq DOMAIN f PROVE Overlaid(f, g) = f
  <2>1. DOMAIN f \cup DOMAIN g = DOMAIN f
    BY <1>1
  <2>2. Overlaid(f, g) = [x \in DOMAIN f |-> f[x]]
    BY <2>1 DEF Overlaid
  <2> QED BY <2>2 DEF IsMap
<1>2. ASSUME DOMAIN f = {} PROVE Overlaid(f, g) = g
  <2>1. DOMAIN f \cup DOMAIN g = DOMAIN g
    BY <1>2
  <2>2. Overlaid(f, g) = [x \in DOMAIN g |-> g[x]]
    BY <1>2, <2>1 DEF Overlaid
  <2> QED BY <2>2 DEF IsMap
<1> QED BY <1>1, <1>2

(* The map that each representation stands for. *)
LEMMA Representations ==
  ASSUME NEW set
  PROVE  /\ set.rep = "Empty" => DOMAIN ToMap(set) = {}
         /\ set.rep = "KV" => /\ DOMAIN ToMap(set) = {"name", "value"}
                              /\ ToMap(set)["name"] = set.name
                              /\ ToMap(set)["value"] = set.value
         /\ set.rep = "Map" => ToMap(set) = set.map
         /\ IsAttrs(set) => IsMap(ToMap(set))
<1>1. CASE set.rep = "Empty"
  BY <1>1 DEF ToMap, IsMap
<1>2. CASE set.rep = "KV"
  <2> PICK a, b : a = set.name /\ b = set.value
    OBVIOUS
  <2> DEFINE m == [x \in {"name", "value"} |-> IF x = "name" THEN a ELSE b]
  <2>1. DOMAIN m = {"name", "value"} /\ m["name"] = a /\ m["value"] = b /\ IsMap(m)
    BY DEF IsMap
  <2>2. ToMap(set) = m
    BY <1>2 DEF ToMap
  <2> HIDE DEF m
  <2> QED BY <1>2, <2>1, <2>2
<1>3. CASE set.rep = "Map"
  BY <1>3 DEF ToMap, IsAttrs
<1>4. CASE set.rep \notin {"Empty", "KV", "Map"}
  BY <1>4 DEF IsAttrs
<1> QED BY <1>1, <1>2, <1>3, <1>4

(* Looking up a key (NixAttrs::select, contains) gives what the map has,
   whichever of the three representations the set has. *)
THEOREM LookupIsThatOfTheMap ==
  ASSUME NEW set, IsAttrs(set), NEW x
  PROVE  /\ ContainsKey(set, x) <=> x \in DOMAIN ToMap(set)
         /\ ContainsKey(set, x) => Selected(set, x) = ToMap(set)[x]
<1>1. CASE set.rep = "Empty"
  BY <1>1, Representations DEF ContainsKey
<1>2. CASE set.rep = "KV"
  BY <1>2, Representations DEF ContainsKey, Selected
<1>3. CASE set.rep = "Map"
  BY <1>3, Representations DEF ContainsKey, Selected
<1> QED BY <1>1, <1>2, <1>3 DEF IsAttrs

(* left // right (NixAttrs::update), with all its shortcuts for empty sets
   and pairs, is the right map laid over the left one. *)
THEOREM UpdateIsThatOfTheMaps ==
  ASSUME NEW left, NEW right, IsAttrs(left), IsAttrs(right)
  PROVE  /\ IsAttrs(Update(left, right))
         /\ ToMap(Update(left, right)) = Overlaid(ToMap(right), ToMap(left))
<1> DEFINE l == ToMap(left)
           r == ToMap(right)
<1>1. IsMap(l) /\ IsMap(r)
  BY Representations
<1>2. CASE left.rep = "Empty"
  <2>1. DOMAIN l = {}
    BY <1>2, Representations
  <2> HIDE DEF l, r
  <2>2. Overlaid(r, l) = r
    BY <1>1, <2>1, Overriding
  <2> QED BY <1>2, <2>2 DEF Update, r, l
<1>3. CASE left.rep # "Empty" /\ right.rep = "Empty"
  <2>1. DOMAIN r = {}
    BY <1>3, Representations
  <2> HIDE DEF l, r
  <2>2. Overlaid(r, l) = l
    BY <1>1, <2>1, Overriding
  <2> QED BY <1>3, <2>2 DEF Update, r, l
<1>4. CASE left.rep = "KV" /\ right.rep = "KV"
  <2>1. DOMAIN r = DOMAIN l
    BY <1>4, Representations
  <2> HIDE DEF l, r
  <2>2. Overlaid(r, l) = r
    BY <1>1, <2>1, Overriding
  <2> QED BY <1>4, <2>2 DEF Update, r, l
<1>5. CASE left.rep # "Empty" /\ right.rep # "Empty" /\ ~(left.rep = "KV" /\ right.rep = "KV")
  <2>1. Update(left, right) = MapRep(Overlaid(r, l))
    BY <1>5 DEF Update
  <2> HIDE DEF l, r
  <2>2. IsMap(Overlaid(r, l))
    BY DEF IsMap, Overlaid
  <2> PICK m : m = Overlaid(r, l)
    OBVIOUS
  <2>3. MapRep(m).rep = "Map" /\ MapRep(m).map = m
    BY DEF MapRep
  <2>4. IsAttrs(MapRep(m)) /\ ToMap(MapRep(m)) = m
    BY <2>2, <2>3, Representations DEF IsAttrs
  <2> QED BY <2>1, <2>4 DEF r, l
<1> QED BY <1>2, <1>3, <1>4, <1>5

\* The pairs whose key is not null, and those whose key will not do.
StringKeys(pairs) == {i \in DOMAIN pairs : "str" \in DOMAIN pairs[i][1]}
Bad(pairs) == InvalidKeys(pairs) \cup DuplicateKeys(pairs)

\* A value that is a string is nothing else.
AreKeys(pairs) == \A i \in StringKeys(pairs) : pairs[i][1] = [str |-> pairs[i][1].str]

(* The keys of a { name; value } pair are strings and different. *)
LEMMA PairHasNoBadKeys ==
  ASSUME NEW pairs, IsSeq(pairs), IsKV(pairs), AreKeys(pairs)
  PROVE  /\ Bad(pairs) = {} /\ DOMAIN pairs = StringKeys(pairs)
         /\ {pairs[i][1].str : i \in StringKeys(pairs)} = {"name", "value"}
<1>1. Len(pairs) = 2 /\ DOMAIN pairs = {1, 2}
  BY SeqIs DEF IsKV
<1> DEFINE n == [str |-> "name"]
           v == [str |-> "value"]
<1>2. n # v /\ n.str = "name" /\ v.str = "value" /\ "str" \in DOMAIN n /\ "str" \in DOMAIN v
  OBVIOUS
<1>3. \/ pairs[1][1] = n /\ pairs[2][1] = v
      \/ pairs[1][1] = v /\ pairs[2][1] = n
  <2> HIDE DEF n, v
  <2>1. {pairs[1][1], pairs[2][1]} = {n, v}
    BY DEF IsKV, n, v
  <2> QED BY <1>2, <2>1
<1> HIDE DEF n, v
<1>4. DOMAIN pairs = StringKeys(pairs)
  BY <1>1, <1>2, <1>3 DEF StringKeys
<1>5. InvalidKeys(pairs) = {}
  BY <1>1, <1>2, <1>3 DEF InvalidKeys
<1>6. DuplicateKeys(pairs) = {}
  BY <1>1, <1>2, <1>3 DEF DuplicateKeys
<1> QED BY <1>1, <1>2, <1>3, <1>4, <1>5, <1>6 DEF Bad

(* Building a set from the stack (NixAttrs::construct) fails exactly if a
   key is no string, or given twice; else, also through the shortcut for
   { name; value }, the set has the given keys, each with its value. *)
THEOREM ConstructedAttributes ==
  ASSUME NEW pairs, IsSeq(pairs), AreKeys(pairs)
  PROVE  /\ Bad(pairs) # {} <=> "err" \in DOMAIN Construct(pairs)
         /\ Bad(pairs) = {} =>
              /\ IsAttrs(Construct(pairs))
              /\ DOMAIN ToMap(Construct(pairs)) = {pairs[i][1].str : i \in StringKeys(pairs)}
              /\ \A i \in StringKeys(pairs) : ToMap(Construct(pairs))[pairs[i][1].str] = pairs[i][2]
<1>0. DOMAIN pairs = 1 .. Len(pairs) /\ Len(pairs) \in Nat /\ (pairs # <<>> => Len(pairs) > 0)
  BY SeqIs
<1> DEFINE value(x) == pairs[CHOOSE i \in StringKeys(pairs) : pairs[i][1].str = x][2]
           names == {pairs[i][1].str : i \in StringKeys(pairs)}
<1>1. ASSUME Bad(pairs) = {}, NEW i \in StringKeys(pairs)
      PROVE  value(pairs[i][1].str) = pairs[i][2]
  <2> DEFINE c == CHOOSE j \in StringKeys(pairs) : pairs[j][1].str = pairs[i][1].str
  <2>1. c \in StringKeys(pairs) /\ pairs[c][1].str = pairs[i][1].str
    BY <1>1
  <2> HIDE DEF c
  <2>2. pairs[c][1] = pairs[i][1]
    <3>1. \A j \in StringKeys(pairs) : pairs[j][1] = [str |-> pairs[j][1].str]
      BY DEF AreKeys
    <3>2. pairs[c][1] = [str |-> pairs[c][1].str] /\ pairs[i][1] = [str |-> pairs[i][1].str]
      BY <1>1, <2>1, <3>1
    <3> QED BY <2>1, <3>2
  <2>3. c \in 1 .. Len(pairs) /\ i \in 1 .. Len(pairs)
    BY <1>0, <2>1 DEF StringKeys
  <2>4. ~(c < i) /\ ~(i < c)
    BY <1>1, <2>1, <2>2, <2>3 DEF Bad, DuplicateKeys, StringKeys
  <2>5. c = i
    BY <2>3, <2>4
  <2> QED BY <2>5 DEF c
<1>2. CASE pairs = <<>>
  <2>1. Bad(pairs) = {} /\ StringKeys(pairs) = {}
    BY <1>2 DEF Bad, StringKeys, InvalidKeys, DuplicateKeys
  <2>2. Construct(pairs) = EmptyRep
    BY <1>2 DEF Construct
  <2>3. EmptyRep.rep = "Empty" /\ "err" \notin DOMAIN EmptyRep
    BY DEF EmptyRep
  <2>4. IsAttrs(EmptyRep) /\ DOMAIN ToMap(EmptyRep) = {}
    BY <2>3, Representations DEF IsAttrs
  <2>5. {pairs[i][1].str : i \in StringKeys(pairs)} = {}
    BY <2>1
  <2> QED BY <2>1, <2>2, <2>3, <2>4, <2>5
<1>3. CASE pairs # <<>> /\ IsKV(pairs)
  <2>1. Construct(pairs) = KVRep(value("name"), value("value"))
    BY <1>3 DEF Construct, StringKeys
  <2>2. Bad(pairs) = {} /\ names = {"name", "value"}
    BY <1>3, PairHasNoBadKeys
  <2> PICK a, b : a = value("name") /\ b = value("value")
    OBVIOUS
  <2>3. /\ KVRep(a, b).rep = "KV" /\ KVRep(a, b).name = a /\ KVRep(a, b).value = b
        /\ "err" \notin DOMAIN KVRep(a, b)
    BY DEF KVRep
  <2>4. /\ IsAttrs(KVRep(a, b)) /\ DOMAIN ToMap(KVRep(a, b)) = {"name", "value"}
        /\ ToMap(KVRep(a, b))["name"] = a /\ ToMap(KVRep(a, b))["value"] = b
    BY <2>3, Representations DEF IsAttrs
  <2>5. \A i \in StringKeys(pairs) : pairs[i][1].str \in {"name", "value"}
    BY <2>2
  <2> HIDE DEF value
  <2> QED BY <1>1, <2>1, <2>2, <2>3, <2>4, <2>5
<1>4. CASE pairs # <<>> /\ ~IsKV(pairs) /\ Bad(pairs) = {}
  <2>1. Construct(pairs) = MapRep([x \in names |-> value(x)])
    BY <1>4 DEF Construct, StringKeys, Bad
  <2> PICK m : m = [x \in names |-> value(x)]
    OBVIOUS
  <2>2. IsMap(m) /\ DOMAIN m = names
    BY DEF IsMap
  <2>3. \A i \in StringKeys(pairs) : m[pairs[i][1].str] = pairs[i][2]
    <3> HIDE DEF value
    <3> QED BY <1>1, <1>4
  <2>4. MapRep(m).rep = "Map" /\ MapRep(m).map = m /\ "err" \notin DOMAIN MapRep(m)
    BY DEF MapRep
  <2>5. IsAttrs(MapRep(m)) /\ ToMap(MapRep(m)) = m
    BY <2>2, <2>4, Representations DEF IsAttrs
  <2> HIDE DEF names, value
  <2> QED BY <1>4, <2>1, <2>2, <2>3, <2>4, <2>5 DEF names
<1>5. CASE pairs # <<>> /\ ~IsKV(pairs) /\ Bad(pairs) # {}
  <2>1. PICK e : Construct(pairs) = [err |-> e]
    BY <1>5 DEF Construct, Bad
  <2> QED BY <1>5, <2>1
<1> QED BY <1>2, <1>3, <1>4, <1>5

-----------------------------------------------------------------------------
(* The scopes of the compiler: where a local will be on the stack *)

\* A scope of the compiler as it nests: the locals of inner scopes come after
\* those of outer ones, and within one they are initialised in order.
WellNested(s) ==
    /\ {"locals", "depth"} \subseteq DOMAIN s /\ s.depth \in Nat /\ IsSeq(s.locals)
    /\ \A i \in 1 .. Len(s.locals) :
         /\ {"depth", "init"} \subseteq DOMAIN s.locals[i]
         /\ s.locals[i].depth \in Nat /\ s.locals[i].depth <= s.depth
    /\ \A i, j \in 1 .. Len(s.locals) : i < j =>
         /\ s.locals[i].depth <= s.locals[j].depth
         /\ (s.locals[i].depth = s.locals[j].depth /\ s.locals[j].init) => s.locals[i].init

(* The locals that take no slot below a local are among those before it. *)
LEMMA Unslotted ==
  ASSUME NEW s, NEW i \in Nat \ {0}
  PROVE  LET absent == {k \in 1 .. (i - 1) : ~s.locals[k].init /\ s.locals[k].depth < s.locals[i].depth}
         IN  /\ IsFiniteSet(absent) /\ Cardinality(absent) \in Nat
             /\ Cardinality(absent) <= i - 1
             /\ StackIndex(s, i) = (i - 1) - Cardinality(absent)
<1> DEFINE absent == {k \in 1 .. (i - 1) : ~s.locals[k].init /\ s.locals[k].depth < s.locals[i].depth}
<1>1. IsFiniteSet(1 .. (i - 1)) /\ Cardinality(1 .. (i - 1)) = i - 1
  BY FS_Interval
<1>2. absent \subseteq 1 .. (i - 1)
  OBVIOUS
<1>3. StackIndex(s, i) = (i - 1) - Cardinality(absent)
  BY DEF StackIndex
<1> HIDE DEF absent
<1>4. IsFiniteSet(absent) /\ Cardinality(absent) <= i - 1
  BY <1>1, <1>2, FS_Subset
<1>5. Cardinality(absent) \in Nat
  BY <1>4, FS_CardinalityType
<1> QED BY <1>3, <1>4, <1>5 DEF absent

(* A local is where the values below it say: its index is the number of
   locals before it that are on the stack, or will be by then because they
   belong to the same scope (Scope::stack_index), although others, of outer
   scopes, are declared and not there yet. *)
THEOREM SlotsCountValues ==
  ASSUME NEW s, WellNested(s), NEW i \in 1 .. Len(s.locals)
  PROVE  StackIndex(s, i) = Cardinality({k \in 1 .. (i - 1) :
                               s.locals[k].init \/ s.locals[k].depth = s.locals[i].depth})
<1>0. Len(s.locals) \in Nat /\ i \in Nat \ {0}
  BY SeqIs DEF WellNested
<1> DEFINE A == {k \in 1 .. (i - 1) : ~s.locals[k].init /\ s.locals[k].depth < s.locals[i].depth}
           B == {k \in 1 .. (i - 1) : s.locals[k].init \/ s.locals[k].depth = s.locals[i].depth}
<1>1. /\ IsFiniteSet(A) /\ Cardinality(A) \in Nat
      /\ StackIndex(s, i) = (i - 1) - Cardinality(A)
  BY <1>0, Unslotted
<1>2. IsFiniteSet(1 .. (i - 1)) /\ Cardinality(1 .. (i - 1)) = i - 1
  <2>1. i - 1 \in Int /\ i - 1 >= 0
    BY <1>0
  <2>2. /\ IsFiniteSet(1 .. (i - 1))
        /\ Cardinality(1 .. (i - 1)) = IF 1 > i - 1 THEN 0 ELSE (i - 1) - 1 + 1
    BY <2>1, FS_Interval
  <2> QED BY <1>0, <2>2
<1>3. ASSUME NEW k \in 1 .. (i - 1)
      PROVE  k \in A <=> k \notin B
  <2>1. k \in 1 .. Len(s.locals) /\ k < i
    BY <1>0
  <2>2. /\ s.locals[k].depth <= s.locals[i].depth
        /\ s.locals[k].depth \in Nat /\ s.locals[i].depth \in Nat
    BY <2>1 DEF WellNested
  <2> QED BY <2>2
<1>4. A \cup B = 1 .. (i - 1) /\ A \cap B = {} /\ B \subseteq 1 .. (i - 1)
  BY <1>3
<1> HIDE DEF A, B
<1>5. IsFiniteSet(B) /\ Cardinality(B) \in Nat
  BY <1>2, <1>4, FS_Subset, FS_CardinalityType
<1>6. Cardinality(A \cup B) = Cardinality(A) + Cardinality(B) - Cardinality(A \cap B)
  BY <1>1, <1>5, FS_Union
<1>7. Cardinality({}) = 0
  BY FS_EmptySet
<1>8. i - 1 = Cardinality(A) + Cardinality(B)
  <2>1. Cardinality(A \cup B) = i - 1 /\ Cardinality(A \cap B) = 0
    BY <1>2, <1>4, <1>7
  <2> QED BY <1>1, <1>5, <1>6, <2>1
<1> QED BY <1>0, <1>1, <1>5, <1>8 DEF B

(* No two locals that can be on the stack at once share a slot, and later
   locals are above earlier ones. *)
THEOREM SlotsAreDistinct ==
  ASSUME NEW s, WellNested(s), NEW i \in 1 .. Len(s.locals), NEW j \in 1 .. Len(s.locals),
         i < j, s.locals[i].init
  PROVE  /\ StackIndex(s, i) \in Nat /\ StackIndex(s, j) \in Nat
         /\ StackIndex(s, i) < StackIndex(s, j)
<1>0. Len(s.locals) \in Nat /\ i \in Nat \ {0} /\ j \in Nat \ {0}
  BY SeqIs DEF WellNested
<1> DEFINE A == {k \in 1 .. (i - 1) : ~s.locals[k].init /\ s.locals[k].depth < s.locals[i].depth}
           B == {k \in 1 .. (j - 1) : ~s.locals[k].init /\ s.locals[k].depth < s.locals[j].depth}
           C == (i + 1) .. (j - 1)
<1>1. /\ IsFiniteSet(A) /\ Cardinality(A) \in Nat /\ Cardinality(A) <= i - 1
      /\ StackIndex(s, i) = (i - 1) - Cardinality(A)
  BY <1>0, Unslotted
<1>2. /\ IsFiniteSet(B) /\ Cardinality(B) \in Nat /\ Cardinality(B) <= j - 1
      /\ StackIndex(s, j) = (j - 1) - Cardinality(B)
  BY <1>0, Unslotted
<1>3. IsFiniteSet(C) /\ Cardinality(C) = j - 1 - i
  <2>1. i + 1 \in Int /\ j - 1 \in Int /\ i + 1 <= j - 1 + 1
    BY <1>0
  <2>2. /\ IsFiniteSet((i + 1) .. (j - 1))
        /\ Cardinality((i + 1) .. (j - 1)) = IF i + 1 > j - 1 THEN 0 ELSE (j - 1) - (i + 1) + 1
    BY <2>1, FS_Interval
  <2> QED BY <1>0, <2>2
<1>4. B \subseteq A \cup C
  <2> SUFFICES ASSUME NEW k \in B PROVE k \in A \cup C
    OBVIOUS
  <2>1. k \in 1 .. (j - 1) /\ ~s.locals[k].init /\ k \in 1 .. Len(s.locals) /\ k # i
    BY <1>0
  <2>2. CASE k < i
    <3>1. s.locals[k].depth <= s.locals[i].depth /\ s.locals[k].depth # s.locals[i].depth
      BY <1>0, <2>1, <2>2 DEF WellNested
    <3>2. s.locals[k].depth \in Nat /\ s.locals[i].depth \in Nat
      BY <2>1 DEF WellNested
    <3> QED BY <1>0, <2>1, <2>2, <3>1, <3>2
  <2>3. CASE k > i
    BY <1>0, <2>1, <2>3
  <2> QED BY <1>0, <2>1, <2>2, <2>3
<1> HIDE DEF A, B, C
<1>5. IsFiniteSet(A \cup C) /\ Cardinality(A \cup C) <= Cardinality(A) + Cardinality(C)
  <2>1. Cardinality(A \cup C) = Cardinality(A) + Cardinality(C) - Cardinality(A \cap C)
    BY <1>1, <1>3, FS_Union
  <2>2. Cardinality(A \cap C) \in Nat
    BY <1>1, FS_Intersection, FS_CardinalityType
  <2>3. Cardinality(C) \in Nat
    BY <1>3, FS_CardinalityType
  <2> QED BY <1>1, <1>3, <2>1, <2>2, <2>3, FS_Union
<1>6. Cardinality(B) <= Cardinality(A \cup C)
  BY <1>4, <1>5, FS_Subset
<1>7. Cardinality(A \cup C) \in Nat
  BY <1>5, FS_CardinalityType
<1>8. \A p, q, a, b \in Nat, c, d \in Int :
         /\ c = q - 1 - p /\ d <= a + c /\ b <= d /\ a <= p - 1 /\ b <= q - 1
         => /\ (p - 1) - a \in Nat /\ (q - 1) - b \in Nat
            /\ (p - 1) - a < (q - 1) - b
  OBVIOUS
<1>9. Cardinality(C) \in Int /\ Cardinality(A \cup C) \in Int /\ i \in Nat /\ j \in Nat
  BY <1>0, <1>3, <1>7
<1> QED BY <1>1, <1>2, <1>3, <1>5, <1>6, <1>8, <1>9

(* The locals of a scope are a sequence, and have depths. *)
LEMMA ScopeFields ==
  ASSUME NEW s, WellNested(s)
  PROVE  /\ Len(s.locals) \in Nat /\ DOMAIN s.locals = 1 .. Len(s.locals)
         /\ \A i \in 1 .. Len(s.locals) : s.locals[i].depth \in Nat
BY SeqIs DEF WellNested

(* Declaring a local (declare_local, declare_phantom). *)
LEMMA DeclareNests ==
  ASSUME NEW s, WellNested(s), NEW x, NEW init \in BOOLEAN,
         init => \A i \in 1 .. Len(s.locals) : s.locals[i].depth = s.depth => s.locals[i].init
  PROVE  WellNested(Declare(s, x, init))
<1> PICK e : e = [name |-> x, depth |-> s.depth, init |-> init,
                  needsFinaliser |-> FALSE, mustThunk |-> FALSE]
  OBVIOUS
<1> PICK n : n = Len(s.locals)
  OBVIOUS
<1>1. {"depth", "init"} \subseteq DOMAIN e /\ e.depth = s.depth /\ e.init = init
  OBVIOUS
<1>2. n \in Nat /\ IsSeq(s.locals)
  BY ScopeFields DEF WellNested
<1> PICK t : t = Append(s.locals, e)
  OBVIOUS
<1>3. IsSeq(t) /\ Len(t) = n + 1 /\ (\A i \in 1 .. n : t[i] = s.locals[i]) /\ t[n + 1] = e
  BY <1>2, AppendIs
<1>4. /\ Declare(s, x, init).locals = t /\ Declare(s, x, init).depth = s.depth
      /\ DOMAIN Declare(s, x, init) = DOMAIN s
  BY DEF Declare, WellNested
<1> PICK d : d = Declare(s, x, init)
  OBVIOUS
<1>5. /\ {"locals", "depth"} \subseteq DOMAIN d /\ d.depth = s.depth /\ d.locals = t
      /\ s.depth \in Nat /\ Len(t) = n + 1 /\ IsSeq(t)
  BY <1>3, <1>4 DEF WellNested
<1>6. ASSUME NEW i \in 1 .. (n + 1)
      PROVE  /\ {"depth", "init"} \subseteq DOMAIN t[i]
             /\ t[i].depth \in Nat /\ t[i].depth <= s.depth
  <2>1. CASE i = n + 1
    BY <1>1, <1>3, <1>5, <2>1
  <2>2. CASE i # n + 1
    <3>1. i \in 1 .. n
      BY <1>2, <2>2
    <3> QED BY <1>3, <3>1 DEF WellNested
  <2> QED BY <2>1, <2>2
<1>7. ASSUME NEW i \in 1 .. (n + 1), NEW j \in 1 .. (n + 1), i < j
      PROVE  /\ t[i].depth <= t[j].depth
             /\ (t[i].depth = t[j].depth /\ t[j].init) => t[i].init
  <2>1. i \in 1 .. n /\ t[i] = s.locals[i]
    BY <1>2, <1>3, <1>7
  <2>2. CASE j = n + 1
    BY <1>1, <1>3, <1>6, <2>1, <2>2
  <2>3. CASE j # n + 1
    <3>1. j \in 1 .. n
      BY <1>2, <2>3
    <3> QED BY <1>3, <1>7, <2>1, <3>1 DEF WellNested
  <2> QED BY <2>2, <2>3
<1>8. WellNested(d)
  BY <1>5, <1>6, <1>7 DEF WellNested
<1> QED BY <1>8

\* s with e at position i.
With(s, i, e) == [s EXCEPT ![i] = e]

(* Replacing a local keeps the others. *)
LEMMA Updated ==
  \A s, i, e : IsSeq(s) /\ i \in 1 .. Len(s) =>
     /\ IsSeq(With(s, i, e)) /\ Len(With(s, i, e)) = Len(s) /\ With(s, i, e)[i] = e
     /\ \A j \in 1 .. Len(s) : j # i => With(s, i, e)[j] = s[j]
<1> SUFFICES ASSUME NEW s, NEW i, NEW e, IsSeq(s), i \in 1 .. Len(s)
             PROVE  /\ IsSeq(With(s, i, e)) /\ Len(With(s, i, e)) = Len(s) /\ With(s, i, e)[i] = e
                    /\ \A j \in 1 .. Len(s) : j # i => With(s, i, e)[j] = s[j]
  OBVIOUS
<1>1. /\ IsSeq([s EXCEPT ![i] = e]) /\ Len([s EXCEPT ![i] = e]) = Len(s)
      /\ \A j \in 1 .. Len(s) : j # i => [s EXCEPT ![i] = e][j] = s[j]
      /\ i \in 1 .. Len(s) => [s EXCEPT ![i] = e][i] = e
  BY UpdateIs, Zenon
<1>2. With(s, i, e) = [s EXCEPT ![i] = e]
  BY DEF With
<1> QED BY <1>1, <1>2, Zenon

(* Marking the first local of its depth that is not initialised yet. *)
LEMMA MarkInitialisedNests ==
  ASSUME NEW s, WellNested(s), NEW idx \in 1 .. Len(s.locals),
         \A i \in 1 .. (idx - 1) : s.locals[i].depth = s.locals[idx].depth => s.locals[i].init
  PROVE  WellNested(MarkInitialised(s, idx))
<1> PICK n : n = Len(s.locals)
  OBVIOUS
<1>1. n \in Nat /\ IsSeq(s.locals) /\ idx \in 1 .. n
  BY ScopeFields DEF WellNested
<1> PICK e : e = [s.locals[idx] EXCEPT !.init = TRUE]
  OBVIOUS
<1>2. {"depth", "init"} \subseteq DOMAIN e /\ e.depth = s.locals[idx].depth /\ e.init = TRUE
  BY <1>1 DEF WellNested
<1> PICK t : t = With(s.locals, idx, e)
  OBVIOUS
<1>3. IsSeq(t) /\ Len(t) = n /\ (\A j \in 1 .. n : j # idx => t[j] = s.locals[j]) /\ t[idx] = e
  BY <1>1, Updated
<1>4. /\ {"locals", "depth"} \subseteq DOMAIN MarkInitialised(s, idx)
      /\ MarkInitialised(s, idx).depth = s.depth /\ MarkInitialised(s, idx).locals = t
      /\ s.depth \in Nat
  BY DEF MarkInitialised, WellNested, With
<1> PICK d : d = MarkInitialised(s, idx)
  OBVIOUS
<1>8. /\ {"locals", "depth"} \subseteq DOMAIN d /\ d.depth = s.depth /\ d.locals = t
      /\ s.depth \in Nat
  BY <1>4
<1>5. ASSUME NEW i \in 1 .. n
      PROVE  /\ t[i].depth = s.locals[i].depth
             /\ s.locals[i].init => t[i].init
             /\ {"depth", "init"} \subseteq DOMAIN t[i]
             /\ t[i].depth \in Nat /\ t[i].depth <= s.depth
  <2>1. /\ {"depth", "init"} \subseteq DOMAIN s.locals[i]
        /\ s.locals[i].depth \in Nat /\ s.locals[i].depth <= s.depth
    BY <1>1 DEF WellNested
  <2>2. CASE i = idx
    BY <1>2, <1>3, <2>1, <2>2
  <2>3. CASE i # idx
    BY <1>3, <2>1, <2>3
  <2> QED BY <2>2, <2>3
<1>6. ASSUME NEW i \in 1 .. n, NEW j \in 1 .. n, i < j
      PROVE  /\ t[i].depth <= t[j].depth
             /\ (t[i].depth = t[j].depth /\ t[j].init) => t[i].init
  <2>1. /\ s.locals[i].depth <= s.locals[j].depth
        /\ (s.locals[i].depth = s.locals[j].depth /\ s.locals[j].init) => s.locals[i].init
    BY <1>6 DEF WellNested
  <2>2. t[i].depth = s.locals[i].depth /\ t[j].depth = s.locals[j].depth
    BY <1>5
  <2>3. CASE j = idx
    <3>1. i \in 1 .. (idx - 1)
      BY <1>1, <1>6, <2>3
    <3> QED BY <1>5, <2>1, <2>2, <2>3, <3>1
  <2>4. CASE j # idx
    BY <1>3, <1>5, <2>1, <2>2, <2>4
  <2> QED BY <2>3, <2>4
<1>7. WellNested(d)
  <2>1. d.locals = t /\ d.depth = s.depth /\ Len(d.locals) = n /\ IsSeq(d.locals)
    BY <1>3, <1>8
  <2>2. \A i \in 1 .. n :
          /\ {"depth", "init"} \subseteq DOMAIN d.locals[i]
          /\ d.locals[i].depth \in Nat /\ d.locals[i].depth <= d.depth
    BY <1>5, <2>1
  <2>3. \A i, j \in 1 .. n : i < j =>
          /\ d.locals[i].depth <= d.locals[j].depth
          /\ (d.locals[i].depth = d.locals[j].depth /\ d.locals[j].init) => d.locals[i].init
    BY <1>6, <2>1
  <2> QED BY <1>8, <2>1, <2>2, <2>3 DEF WellNested
<1> QED BY <1>7

(* A scope inside the scope (begin_scope). *)
LEMMA BeginScopeNests ==
  ASSUME NEW s, WellNested(s)
  PROVE  WellNested(BeginScope(s))
<1> PICK d : d = BeginScope(s)
  OBVIOUS
<1>1. /\ {"locals", "depth"} \subseteq DOMAIN d /\ d.depth = s.depth + 1 /\ d.locals = s.locals
      /\ s.depth \in Nat
  BY DEF BeginScope, WellNested
<1>2. \A i \in 1 .. Len(s.locals) : s.locals[i].depth <= s.depth + 1
  BY <1>1 DEF WellNested
<1>3. WellNested(d)
  BY <1>1, <1>2 DEF WellNested
<1> QED BY <1>3

(* What is left when a scope ends are the locals of the scopes around it. *)
LEMMA KeptIs ==
  ASSUME NEW s, WellNested(s)
  PROVE  /\ Kept(s) \in 0 .. Len(s.locals)
         /\ \A i \in (Kept(s) + 1) .. Len(s.locals) : s.locals[i].depth = s.depth
         /\ \A i \in 1 .. Kept(s) : s.locals[i].depth < s.depth
<1> DEFINE outer == {i \in DOMAIN s.locals : s.locals[i].depth # s.depth}
           n == Len(s.locals)
<1>1. n \in Nat /\ DOMAIN s.locals = 1 .. n
  BY ScopeFields
<1>2. CASE outer = {}
  <2>1. Kept(s) = 0
    BY <1>2 DEF Kept
  <2> QED BY <1>1, <1>2, <2>1
<1>3. CASE outer # {}
  <2> HIDE DEF n
  <2>1. PICK k \in outer : \A j \in outer : j <= k
    <3> DEFINE c == Cardinality(outer)
    <3>1. \A i, j \in 1 .. n : j \in outer /\ i < j => i \in outer
      <4> SUFFICES ASSUME NEW i \in 1 .. n, NEW j \in 1 .. n, j \in outer, i < j
                   PROVE  i \in outer
        OBVIOUS
      <4>1. /\ s.locals[i].depth \in Nat /\ s.locals[j].depth \in Nat /\ s.depth \in Nat
            /\ s.locals[i].depth <= s.locals[j].depth /\ s.locals[j].depth <= s.depth
        BY DEF WellNested, n
      <4>2. s.locals[i].depth # s.depth
        BY <4>1
      <4> QED BY <1>1, <4>2
    <3>2. \A j \in outer : j \in 1 .. n
      BY <1>1
    <3> HIDE DEF outer
    <3>3. IsFiniteSet(1 .. n) /\ outer \subseteq 1 .. n
      <4>1. 1 \in Int /\ n \in Int
        BY <1>1
      <4>2. IsFiniteSet(1 .. n)
        BY <4>1, FS_Interval
      <4>3. outer \subseteq 1 .. n
        BY <3>2
      <4> QED BY <4>2, <4>3
    <3>4. IsFiniteSet(outer) /\ c \in Nat
      BY <3>3, FS_Subset, FS_CardinalityType
    <3>5. ASSUME NEW j \in outer PROVE j <= c
      <4>1. 1 .. j \subseteq outer
        BY <1>1, <3>1, <3>2, <3>5
      <4>2. Cardinality(1 .. j) = j /\ j \in Nat
        BY <1>1, <3>2, <3>5, FS_Interval
      <4> QED BY <3>4, <4>1, <4>2, FS_Subset
    <3>6. c \in outer
      <4> SUFFICES ASSUME c \notin outer PROVE FALSE
        OBVIOUS
      <4>1. \A j \in outer : j \in 1 .. (c - 1)
        <5> SUFFICES ASSUME NEW j \in outer PROVE j \in 1 .. (c - 1)
          OBVIOUS
        <5>1. j \in 1 .. n /\ j <= c /\ j # c
          BY <3>2, <3>5
        <5> HIDE DEF c
        <5> QED BY <1>1, <3>4, <5>1
      <4>2. PICK j \in outer : j \in 1 .. (c - 1)
        BY <1>3, <4>1
      <4>3. c - 1 \in Nat
        <5> HIDE DEF c
        <5> QED BY <3>4, <4>2
      <4>4. Cardinality(1 .. (c - 1)) = c - 1 /\ IsFiniteSet(1 .. (c - 1))
        <5> HIDE DEF c
        <5> QED BY <4>3, FS_Interval
      <4>5. outer \subseteq 1 .. (c - 1)
        BY <4>1
      <4>6. c <= c - 1
        <5>1. Cardinality(outer) <= Cardinality(1 .. (c - 1))
          BY <4>4, <4>5, FS_Subset
        <5> QED BY <4>4, <5>1
      <4>7. c \in Nat
        BY <3>4
      <4> HIDE DEF c
      <4> QED BY <4>6, <4>7
    <3> QED BY <3>5, <3>6
  <2>2. Kept(s) = CHOOSE i \in outer : \A j \in outer : j <= i
    BY <1>3 DEF Kept
  <2>3. Kept(s) \in outer /\ \A j \in outer : j <= Kept(s)
    BY <2>1, <2>2
  <2> PICK q : q = Kept(s)
    OBVIOUS
  <2>4. q \in 1 .. n /\ s.locals[q].depth # s.depth
    BY <1>1, <2>3
  <2>5. ASSUME NEW i \in (q + 1) .. n PROVE s.locals[i].depth = s.depth
    <3>1. i \in 1 .. n /\ ~(i <= q)
      BY <1>1, <2>4
    <3> QED BY <1>1, <2>3, <3>1
  <2>6. ASSUME NEW i \in 1 .. q PROVE s.locals[i].depth < s.depth
    <3>1. i \in 1 .. n /\ (i < q \/ i = q)
      BY <1>1, <2>4
    <3>2. s.locals[i].depth <= s.locals[q].depth
      BY <2>4, <3>1 DEF WellNested, n
    <3>3. /\ s.locals[q].depth <= s.depth /\ s.depth \in Nat
          /\ s.locals[q].depth \in Nat /\ s.locals[i].depth \in Nat
      BY <2>4, <3>1 DEF WellNested, n
    <3> QED BY <2>4, <3>2, <3>3
  <2>7. q \in 0 .. n
    BY <1>1, <2>4
  <2> QED BY <2>5, <2>6, <2>7 DEF n
<1> QED BY <1>2, <1>3

(* Ending a scope (end_scope) keeps the nesting, and the slots of the
   locals that are left. *)
LEMMA EndScopeNests ==
  ASSUME NEW s, WellNested(s), s.depth > 0
  PROVE  /\ WellNested(EndScope(s))
         /\ \A i \in 1 .. Len(EndScope(s).locals) :
              StackIndex(EndScope(s), i) = StackIndex(s, i)
<1> PICK q : q = Kept(s)
  OBVIOUS
<1> PICK n : n = Len(s.locals)
  OBVIOUS
<1>1. n \in Nat /\ IsSeq(s.locals) /\ q \in 0 .. n /\ q \in Nat
  <2>1. n \in Nat /\ IsSeq(s.locals)
    BY ScopeFields DEF WellNested
  <2>2. q \in 0 .. n
    BY KeptIs
  <2> QED BY <2>1, <2>2
<1>2. \A i \in 1 .. q : s.locals[i].depth < s.depth
  BY KeptIs
<1> PICK t : t = SubSeq(s.locals, 1, q)
  OBVIOUS
<1>3. IsSeq(t) /\ Len(t) = q /\ \A i \in 1 .. q : t[i] = s.locals[i]
  <2>1. PICK S : s.locals \in Seq(S)
    BY <1>1 DEF IsSeq
  <2>2. SubSeq(s.locals, 1, q) \in Seq(S)
    BY <1>1, <2>1
  <2>3. IsSeq(t)
    BY <2>2, SomeSeq
  <2>4. t = [i \in 1 .. q |-> s.locals[i]]
    BY <1>1, <2>1
  <2>5. Len(t) = q
    BY <1>1, <2>3, <2>4, SeqIs
  <2> QED BY <2>3, <2>4, <2>5
<1> PICK d : d = EndScope(s)
  OBVIOUS
<1>4. /\ {"locals", "depth"} \subseteq DOMAIN d /\ d.depth = s.depth - 1 /\ d.locals = t
      /\ s.depth \in Nat
  BY DEF EndScope, WellNested
<1>5. ASSUME NEW i \in 1 .. q
      PROVE  /\ i \in 1 .. n /\ t[i] = s.locals[i]
             /\ {"depth", "init"} \subseteq DOMAIN t[i]
             /\ t[i].depth \in Nat /\ t[i].depth <= s.depth - 1
  <2>1. i \in 1 .. n /\ t[i] = s.locals[i]
    BY <1>1, <1>3
  <2>2. {"depth", "init"} \subseteq DOMAIN s.locals[i] /\ s.locals[i].depth \in Nat
    BY <2>1 DEF WellNested
  <2>3. s.locals[i].depth <= s.depth - 1
    BY <1>2, <1>4, <2>2
  <2> QED BY <2>1, <2>2, <2>3
<1>6. \A i, j \in 1 .. q : i < j =>
         /\ t[i].depth <= t[j].depth
         /\ (t[i].depth = t[j].depth /\ t[j].init) => t[i].init
  <2> SUFFICES ASSUME NEW i \in 1 .. q, NEW j \in 1 .. q, i < j
               PROVE  /\ t[i].depth <= t[j].depth
                      /\ (t[i].depth = t[j].depth /\ t[j].init) => t[i].init
    OBVIOUS
  <2>1. i \in 1 .. n /\ j \in 1 .. n /\ t[i] = s.locals[i] /\ t[j] = s.locals[j]
    BY <1>5
  <2> QED BY <2>1 DEF WellNested
<1>7. WellNested(d)
  <2>1. s.depth - 1 \in Nat
    BY <1>4
  <2>2. d.depth \in Nat /\ d.depth = s.depth - 1 /\ d.locals = t /\ Len(d.locals) = q /\ IsSeq(d.locals)
    BY <1>3, <1>4, <2>1
  <2>3. \A i \in 1 .. q :
          /\ {"depth", "init"} \subseteq DOMAIN d.locals[i]
          /\ d.locals[i].depth \in Nat /\ d.locals[i].depth <= d.depth
    BY <1>5, <2>2
  <2>4. \A i, j \in 1 .. q : i < j =>
          /\ d.locals[i].depth <= d.locals[j].depth
          /\ (d.locals[i].depth = d.locals[j].depth /\ d.locals[j].init) => d.locals[i].init
    BY <1>6, <2>2
  <2> QED BY <1>4, <2>2, <2>3, <2>4 DEF WellNested
<1>8. ASSUME NEW i \in 1 .. q PROVE StackIndex(d, i) = StackIndex(s, i)
  <2>1. \A k \in 1 .. i : t[k] = s.locals[k]
    BY <1>1, <1>3
  <2>2. {k \in 1 .. (i - 1) : ~t[k].init /\ t[k].depth < t[i].depth}
        = {k \in 1 .. (i - 1) : ~s.locals[k].init /\ s.locals[k].depth < s.locals[i].depth}
    <3>1. t[i] = s.locals[i] /\ \A k \in 1 .. (i - 1) : t[k] = s.locals[k]
      BY <1>1, <2>1
    <3> QED BY <3>1
  <2> QED BY <1>4, <2>2 DEF StackIndex
<1> QED BY <1>3, <1>4, <1>7, <1>8

(* Every operation of the compiler on its scope keeps it nested, as long as
   the locals of one depth are initialised in the order they are declared. *)
THEOREM ScopesStayNested ==
  /\ WellNested(EmptyScope)
  /\ \A s : WellNested(s) => WellNested(Inherit(s)) /\ WellNested(BeginScope(s))
  /\ \A s : WellNested(s) /\ s.depth > 0 => WellNested(EndScope(s))
  /\ \A s, x : \A init \in BOOLEAN :
       (/\ WellNested(s)
        /\ init => \A i \in 1 .. Len(s.locals) : s.locals[i].depth = s.depth => s.locals[i].init)
       => WellNested(Declare(s, x, init))
  /\ \A s : \A idx \in 1 .. Len(s.locals) :
       (/\ WellNested(s)
        /\ \A i \in 1 .. (idx - 1) : s.locals[i].depth = s.locals[idx].depth => s.locals[i].init)
       => WellNested(MarkInitialised(s, idx))
<1>1. \A s : /\ {"locals", "depth"} \subseteq DOMAIN s /\ s.depth \in Nat /\ s.locals = <<>>
             => WellNested(s)
  <2>1. IsSeq(<<>>) /\ Len(<<>>) = 0
    BY DEF IsSeq
  <2> QED BY <2>1 DEF WellNested
<1>2. /\ {"locals", "depth"} \subseteq DOMAIN EmptyScope
      /\ EmptyScope.depth \in Nat /\ EmptyScope.locals = <<>>
  BY DEF EmptyScope
<1>3. ASSUME NEW s, WellNested(s) PROVE WellNested(Inherit(s))
  <2>1. /\ {"locals", "depth"} \subseteq DOMAIN Inherit(s)
        /\ Inherit(s).depth = s.depth + 1 /\ Inherit(s).locals = <<>>
    BY DEF Inherit, EmptyScope
  <2>2. s.depth + 1 \in Nat
    BY <1>3 DEF WellNested
  <2> QED BY <1>1, <2>1, <2>2
<1> QED BY <1>1, <1>2, <1>3, BeginScopeNests, EndScopeNests, DeclareNests, MarkInitialisedNests
===============================================================================
