---------------------------- MODULE FinitoDoorProofs ----------------------------
(***************************************************************************)
(* Proofs about finito-door in Postgres, for any number of doors, threads  *)
(* and connections.  That the police is asked for once is a property of the *)
(* door when events are applied to it one after the other; that committing *)
(* a transaction is such a step of FSMBackend (CommitAdvances) carries it  *)
(* over to racing threads and to whatever fails in between.  That no       *)
(* action is performed twice (ActionsAtMostOnce) makes it one call.        *)
(***************************************************************************)
EXTENDS MCFinito, FinitoPostgresProofs

(* The machines are doors, none of which is disabled when it is inserted.  *)
MachinesAreDoors ==
  /\ States = DoorStates
  /\ Events \subseteq DoorEvents
  /\ \A s \in States, e \in Events : AdvanceFSM[<<s, e>>] = advance(s, e)
  /\ \A s \in Initial : s # Door("Disabled")

(***************************************************************************)
(* A disabled door stays as it is and asks for nothing.                    *)
(***************************************************************************)
LEMMA DisabledIsFinal ==
  ASSUME NEW e
  PROVE  /\ advance(Door("Disabled"), e).state = Door("Disabled")
         /\ advance(Door("Disabled"), e).actions = <<>>
<1> DEFINE s == Door("Disabled")
<1>1. s.variant = "Disabled"
  BY DEF Door
<1> HIDE DEF s
<1>2. handle(s, e) = <<s, <<>>>>
  BY <1>1 DEF handle
<1>3. advance(s, e).state = s /\ advance(s, e).actions = <<>> \o <<>>
  BY <1>2 DEF advance
<1> QED BY <1>3 DEF s

(* Lists of one or two actions.                                            *)
LEMMA ShortLists ==
  ASSUME NEW a, NEW b, NEW K
  PROVE  /\ <<a>> \o <<b>> = <<a, b>>
         /\ <<>> \in Seq(K)
         /\ a \in K => <<a>> \in Seq(K)
<1>1. <<>> \in Seq(K) /\ (a \in K => <<a>> \in Seq(K))
  OBVIOUS
<1>2. <<a>> \in Seq({a, b}) /\ <<b>> \in Seq({a, b}) /\ <<a, b>> \in Seq({a, b})
  OBVIOUS
<1>3. <<a>> \o <<b>> = <<a, b>>
  <2>1. Len(<<a>>) = 1 /\ Len(<<b>>) = 1 /\ Len(<<a, b>>) = 2 /\ <<a>>[1] = a /\ <<b>>[1] = b
    OBVIOUS
  <2> DEFINE c == <<a>> \o <<b>>
             d == <<a, b>>
  <2>2. c \in Seq({a, b}) /\ Len(c) = 2 /\ c[1] = a /\ c[2] = b
    BY <1>2, <2>1, Concatenation
  <2>3. d \in Seq({a, b}) /\ Len(d) = 2 /\ d[1] = a /\ d[2] = b
    BY <1>2
  <2> HIDE DEF c, d
  <2>4. c = d
    BY <2>2, <2>3, SeqEqual
  <2> QED BY <2>4 DEF c, d
<1> QED BY <1>1, <1>3

(***************************************************************************)
(* The step that disables a door calls the police, once, and no other step *)
(* does.                                                                   *)
(***************************************************************************)
LEMMA PoliceWhenDisabled ==
  ASSUME NEW s \in DoorStates, s # Door("Disabled"), NEW e \in DoorEvents
  PROVE  IF advance(s, e).state = Door("Disabled")
         THEN advance(s, e).actions = <<"CallThePolice", "disabled">>
         ELSE advance(s, e).actions \in Seq(DoorActions \ {"CallThePolice"})
<1> DEFINE new == handle(s, e)[1]
           acts == handle(s, e)[2]
           Others == DoorActions \ {"CallThePolice"}
<1>1. /\ advance(s, e).state = new
      /\ advance(s, e).actions = acts \o (IF new.variant # s.variant THEN enter(new) ELSE <<>>)
  BY DEF advance
<1>2. s.variant \in {"Opened", "Closed", "Locked"}
  BY DEF DoorStates, Door, Locked
<1>3. Door("Disabled").variant = "Disabled" /\ enter(Door("Disabled")) = <<"disabled">>
  BY DEF Door, enter
<1>4. ASSUME new = Door("Disabled"), acts = <<"CallThePolice">>
      PROVE  advance(s, e).actions = <<"CallThePolice", "disabled">>
  <2>1. advance(s, e).actions = <<"CallThePolice">> \o <<"disabled">>
    BY <1>1, <1>2, <1>3, <1>4
  <2> QED BY <2>1, ShortLists
<1>5. ASSUME new.variant \in {"Opened", "Closed", "Locked"}, acts \in Seq(Others)
      PROVE  new # Door("Disabled") /\ advance(s, e).actions \in Seq(Others)
  <2>1. enter(new) \in {<<"opened">>, <<"closed">>, <<"locked">>}
    BY <1>5 DEF enter
  <2>2. enter(new) \in Seq(Others) /\ <<>> \in Seq(Others)
    <3>1. "opened" \in Others /\ "closed" \in Others /\ "locked" \in Others
      BY DEF DoorActions
    <3> HIDE DEF Others
    <3> QED BY <2>1, <3>1, ShortLists
  <2> HIDE DEF new, acts
  <2> QED BY <1>1, <1>3, <1>5, <2>2
<1>6. \/ new = Door("Disabled") /\ acts = <<"CallThePolice">>
      \/ new.variant \in {"Opened", "Closed", "Locked"} /\ acts \in Seq(Others)
  <2>1. <<>> \in Seq(Others) /\ <<"invalid code entered">> \in Seq(Others)
    <3>1. "invalid code entered" \in Others
      BY DEF DoorActions
    <3> HIDE DEF Others
    <3> QED BY <3>1, ShortLists
  <2>2. \A v : Door(v).variant = v
    BY DEF Door
  <2>3. \A c, n : Locked(c, n).variant = "Locked"
    BY DEF Locked
  <2> HIDE DEF Others
  <2>4. \/ handle(s, e) = <<Door("Closed"), <<>>>>
        \/ handle(s, e) = <<Door("Opened"), <<>>>>
        \/ handle(s, e) = <<Locked(e.code, 3), <<>>>>
        \/ handle(s, e) = <<Door("Disabled"), <<"CallThePolice">>>>
        \/ handle(s, e) = <<Locked(s.code, s.attempts - 1), <<"invalid code entered">>>>
        \/ handle(s, e) = <<s, <<>>>>
    <3>1. CASE s.variant = "Locked" /\ e.event = "Unlock"
      BY <3>1, Zenon DEF handle
    <3>2. CASE s.variant = "Opened" /\ e = Close
      BY <3>2 DEF handle
    <3>3. CASE s.variant = "Closed" /\ e = Open
      <4>1. e.event # "Lock"
        BY <3>3 DEF Open
      <4> QED BY <3>3, <4>1 DEF handle
    <3>4. CASE s.variant = "Closed" /\ e # Open /\ e.event = "Lock"
      BY <3>4 DEF handle
    <3>5. CASE /\ ~ (s.variant = "Locked" /\ e.event = "Unlock")
               /\ ~ (s.variant = "Opened" /\ e = Close)
               /\ ~ (s.variant = "Closed" /\ e = Open)
               /\ ~ (s.variant = "Closed" /\ e.event = "Lock")
      BY <3>5 DEF handle
    <3> QED BY <3>1, <3>2, <3>3, <3>4, <3>5
  <2>5. ASSUME NEW n, NEW a, handle(s, e) = <<n, a>> PROVE new = n /\ acts = a
    BY <2>5
  <2> HIDE DEF new, acts
  <2>6. \/ new = Door("Closed") /\ acts = <<>>
        \/ new = Door("Opened") /\ acts = <<>>
        \/ new = Locked(e.code, 3) /\ acts = <<>>
        \/ new = Door("Disabled") /\ acts = <<"CallThePolice">>
        \/ new = Locked(s.code, s.attempts - 1) /\ acts = <<"invalid code entered">>
        \/ new = s /\ acts = <<>>
    BY <2>4, <2>5, Zenon
  <2>7. new = s => new.variant \in {"Opened", "Closed", "Locked"}
    BY <1>2
  <2>8. new = Door("Closed") \/ new = Door("Opened") => new.variant \in {"Opened", "Closed", "Locked"}
    BY <2>2
  <2>9. \A c, n : new = Locked(c, n) => new.variant \in {"Opened", "Closed", "Locked"}
    BY <2>3
  <2> QED BY <2>1, <2>6, <2>7, <2>8, <2>9, Zenon
<1> QED BY <1>1, <1>3, <1>4, <1>5, <1>6

--------------------------------------------------------------------------------
(* The actions in the list q with which the machine m calls the police.    *)
Calls(q, m) == {a \in DOMAIN q : q[a].machine = m /\ q[a].kind = "CallThePolice"}

(* What is said of one door, in the state s, and the calls asked for.      *)
Once(calls, s) == (\A a, b \in calls : a = b) /\ (calls # {} <=> s = Door("Disabled"))

(***************************************************************************)
(* The part of PoliceCalledOnce that is about the rows of actions.         *)
(***************************************************************************)
PoliceAskedOnce ==
  \A m \in Machines :
    Once({a \in DOMAIN actions : actions[a].machine = m /\ actions[a].kind = "CallThePolice"}, state[m])

(* PoliceAskedOnce in the terms of FSMBackend.                             *)
LEMMA CallsOfBackend ==
  /\ PoliceAskedOnce <=> \A m \in Machines : Once(Calls(requestedBar, m), state[m])
  /\ PoliceAskedOnce' <=> \A m \in Machines : Once(Calls(requestedBar', m), state'[m])
<1> DEFINE calls(m) == {a \in DOMAIN actions : actions[a].machine = m /\ actions[a].kind = "CallThePolice"}
<1>1. \A m : Calls(requestedBar, m) = calls(m) /\ Calls(requestedBar', m) = calls(m)'
  BY DEF Calls, requestedBar
<1>2. PoliceAskedOnce <=> \A m \in Machines : Once(calls(m), state[m])
  BY DEF PoliceAskedOnce
<1>3. PoliceAskedOnce' <=> \A m \in Machines : Once(calls(m)', state'[m])
  BY DEF PoliceAskedOnce, Once
<1> HIDE DEF calls
<1> QED BY <1>1, <1>2, <1>3

(* A machine that asks for some actions, none of them a call.              *)
LEMMA CallsOfOthers ==
  ASSUME NEW S, NEW q \in Seq(S), NEW asked \in Seq(S), NEW m,
         \A i \in DOMAIN asked : asked[i].machine # m \/ asked[i].kind # "CallThePolice"
  PROVE  Calls(q \o asked, m) = Calls(q, m)
<1>1. /\ q \o asked \in Seq(S) /\ Len(q \o asked) = Len(q) + Len(asked)
      /\ \A i \in 1..Len(q) : (q \o asked)[i] = q[i]
      /\ \A i \in 1..Len(asked) : (q \o asked)[Len(q) + i] = asked[i]
  BY Concatenation
<1>2. DOMAIN q = 1..Len(q) /\ DOMAIN asked = 1..Len(asked) /\ Len(q) \in Nat /\ Len(asked) \in Nat
      /\ DOMAIN (q \o asked) = 1..(Len(q) + Len(asked))
  BY <1>1
<1>3. ASSUME NEW a \in 1..(Len(q) + Len(asked)), a \notin 1..Len(q)
      PROVE  \E i \in DOMAIN asked : (q \o asked)[a] = asked[i]
  <2>1. a - Len(q) \in 1..Len(asked) /\ Len(q) + (a - Len(q)) = a
    BY <1>2, <1>3
  <2> QED BY <1>1, <1>2, <2>1
<1>4. 1..Len(q) \subseteq 1..(Len(q) + Len(asked))
  BY <1>2
<1> DEFINE c == q \o asked
<1>5. /\ DOMAIN c = 1..(Len(q) + Len(asked)) /\ \A i \in 1..Len(q) : c[i] = q[i]
      /\ \A a \in 1..(Len(q) + Len(asked)) : a \notin 1..Len(q) => \E i \in DOMAIN asked : c[a] = asked[i]
  BY <1>1, <1>2, <1>3
<1> HIDE DEF c
<1>6. Calls(c, m) = Calls(q, m)
  BY <1>2, <1>4, <1>5 DEF Calls
<1> QED BY <1>6 DEF c

(* A machine that asks for a call and then for something else.             *)
LEMMA CallsOfOne ==
  ASSUME NEW S, NEW q \in Seq(S), NEW asked \in Seq(S), NEW m, Calls(q, m) = {},
         Len(asked) = 2, asked[1].machine = m, asked[1].kind = "CallThePolice",
         asked[2].kind # "CallThePolice"
  PROVE  Calls(q \o asked, m) = {Len(q) + 1}
<1> DEFINE c == q \o asked
           n == Len(q)
<1>1. n \in Nat /\ DOMAIN q = 1..n
  OBVIOUS
<1>2. /\ DOMAIN c = 1..(n + 2) /\ \A i \in 1..n : c[i] = q[i]
      /\ c[n + 1] = asked[1] /\ c[n + 2] = asked[2]
  BY Concatenation
<1> HIDE DEF c, n
<1>3. \A a \in 1..(n + 2) : a \in 1..n \/ a = n + 1 \/ a = n + 2
  BY <1>1
<1>4. \A a \in 1..n : ~ (c[a].machine = m /\ c[a].kind = "CallThePolice")
  BY <1>1, <1>2 DEF Calls
<1>5. Calls(c, m) = {a \in 1..(n + 2) : c[a].machine = m /\ c[a].kind = "CallThePolice"}
  BY <1>2 DEF Calls
<1>6. n + 1 \in 1..(n + 2)
  BY <1>1
<1>7. Calls(c, m) = {n + 1}
  BY <1>2, <1>3, <1>4, <1>5, <1>6
<1> QED BY <1>7 DEF c, n

(***************************************************************************)
(* An event that FSMBackend applies keeps PoliceAskedOnce.                 *)
(***************************************************************************)
LEMMA PoliceAdvance ==
  ASSUME MachinesAreDoors, IInv, PoliceAskedOnce,
         NEW m \in Machines, NEW e \in Events, Backend!Advance(m, e)
  PROVE  PoliceAskedOnce'
<1> DEFINE q == requestedBar
           next == AdvanceFSM[<<state[m], e>>]
           asked == [i \in DOMAIN next.actions |-> [machine |-> m, kind |-> next.actions[i]]]
<1>1. state[m] \in States /\ \A o \in Machines : Once(Calls(q, o), state[o])
  BY CallsOfBackend DEF IInv, TablesTyped, Backend!Advance
<1>2. state' = [state EXCEPT ![m] = next.state] /\ requestedBar' = q \o asked
  BY DEF Backend!Advance, requestedBar
<1>3. \A o \in Machines : state'[o] = IF o = m THEN next.state ELSE state[o]
  BY <1>2 DEF IInv, TablesTyped
<1>4. next = advance(state[m], e) /\ next.actions \in Seq(Kinds)
  BY <1>1, NextTyped DEF MachinesAreDoors
<1>5. q \in Seq(Asked) /\ asked \in Seq(Asked)
  <2>1. actions \in Seq(ActionRows)
    BY DEF IInv, TablesTyped
  <2>2. \A a \in 1..Len(actions) : actions[a] \in ActionRows
    BY <2>1
  <2>3. q = [a \in 1..Len(actions) |-> [machine |-> actions[a].machine, kind |-> actions[a].kind]]
    BY <2>1 DEF requestedBar
  <2>4. q \in Seq(Asked)
    BY <2>1, <2>2, <2>3 DEF Asked, ActionRows
  <2>5. asked \in Seq(Asked)
    <3>1. \A acts \in Seq(Kinds) :
            [i \in DOMAIN acts |-> [machine |-> m, kind |-> acts[i]]] \in Seq(Asked)
      <4> SUFFICES ASSUME NEW acts \in Seq(Kinds)
                   PROVE  [i \in DOMAIN acts |-> [machine |-> m, kind |-> acts[i]]] \in Seq(Asked)
        OBVIOUS
      <4>1. DOMAIN acts = 1..Len(acts) /\ Len(acts) \in Nat /\ \A i \in 1..Len(acts) : acts[i] \in Kinds
        OBVIOUS
      <4>2. \A i \in 1..Len(acts) : [machine |-> m, kind |-> acts[i]] \in Asked
        BY <4>1 DEF Asked
      <4> QED BY <4>1, <4>2
    <3> HIDE DEF next
    <3> QED BY <1>4, <3>1
  <2> QED BY <2>4, <2>5
<1>6. Len(asked) = Len(next.actions) /\ DOMAIN asked = DOMAIN next.actions
      /\ \A i \in DOMAIN asked : asked[i].machine = m /\ asked[i].kind = next.actions[i]
  BY <1>4
<1> HIDE DEF q, asked, next
<1>7. ASSUME NEW o \in Machines, o # m PROVE Once(Calls(q \o asked, o), state'[o])
  <2>1. Calls(q \o asked, o) = Calls(q, o)
    BY <1>5, <1>6, <1>7, CallsOfOthers
  <2> QED BY <1>1, <1>3, <1>7, <2>1
<1>8. CASE state[m] = Door("Disabled")
  <2>1. next.state = Door("Disabled") /\ next.actions = <<>>
    BY <1>4, <1>8, DisabledIsFinal
  <2>2. DOMAIN asked = {}
    BY <1>6, <2>1
  <2>3. Calls(q \o asked, m) = Calls(q, m)
    BY <1>5, <2>2, CallsOfOthers
  <2>4. Once(Calls(q \o asked, m), state'[m])
    BY <1>1, <1>3, <1>8, <2>1, <2>3
  <2> QED BY <1>2, <1>7, <2>4, CallsOfBackend
<1>9. CASE state[m] # Door("Disabled")
  <2>1. state[m] \in DoorStates /\ e \in DoorEvents /\ Calls(q, m) = {}
    BY <1>1, <1>9 DEF MachinesAreDoors, Once
  <2>2. CASE next.state = Door("Disabled")
    <3>1. next.actions = <<"CallThePolice", "disabled">>
      BY <1>4, <1>9, <2>1, <2>2, PoliceWhenDisabled
    <3>2. Len(next.actions) = 2 /\ DOMAIN next.actions = {1, 2}
          /\ next.actions[1] = "CallThePolice" /\ next.actions[2] # "CallThePolice"
      BY <3>1
    <3>3. Calls(q \o asked, m) = {Len(q) + 1}
      <4>1. /\ Len(asked) = 2 /\ asked[1].machine = m
            /\ asked[1].kind = "CallThePolice" /\ asked[2].kind # "CallThePolice"
        BY <1>6, <3>2
      <4> QED BY <1>5, <2>1, <4>1, CallsOfOne
    <3>4. state'[m] = Door("Disabled")
      <4>1. state'[m] = next.state
        BY <1>3
      <4> QED BY <2>2, <4>1
    <3>5. \A c : Once({c}, Door("Disabled"))
      BY DEF Once
    <3>6. Once(Calls(q \o asked, m), state'[m])
      BY <3>3, <3>4, <3>5
    <3> QED BY <1>2, <1>7, <3>6, CallsOfBackend
  <2>3. CASE next.state # Door("Disabled")
    <3>1. next.actions \in Seq(DoorActions \ {"CallThePolice"})
      BY <1>4, <1>9, <2>1, <2>3, PoliceWhenDisabled
    <3>2. \A i \in DOMAIN next.actions : next.actions[i] # "CallThePolice"
      BY <3>1
    <3>3. Calls(q \o asked, m) = {}
      BY <1>5, <1>6, <2>1, <3>2, CallsOfOthers
    <3>4. Once(Calls(q \o asked, m), state'[m])
      BY <1>3, <2>3, <3>3 DEF Once
    <3> QED BY <1>2, <1>7, <3>4, CallsOfBackend
  <2> QED BY <2>2, <2>3
<1> QED BY <1>8, <1>9

(***************************************************************************)
(* Every step keeps PoliceAskedOnce: the tables change by inserting a     *)
(* machine, by an event that is applied, or by the status of an action.    *)
(***************************************************************************)
LEMMA PoliceStep ==
  ASSUME MachinesAreDoors, IInv, PoliceAskedOnce, [Next]_vars
  PROVE  PoliceAskedOnce'
<1>1. ASSUME NEW m \in Machines, NEW s \in Initial, InsertMachine(m, s) PROVE PoliceAskedOnce'
  <2>1. requestedBar' = requestedBar
    BY <1>1 DEF InsertMachine, requestedBar
  <2>2. \A o \in Machines : state'[o] = IF o = m THEN s ELSE state[o]
    BY <1>1 DEF InsertMachine, IInv, TablesTyped
  <2>3. state[m] = NoState /\ s # Door("Disabled") /\ Door("Disabled") \in States
    BY <1>1 DEF InsertMachine, MachinesAreDoors, DoorStates
  <2>4. state[m] # Door("Disabled") /\ state'[m] # Door("Disabled")
    BY <2>2, <2>3, NoneAssumption
  <2> QED BY <2>1, <2>2, <2>4, CallsOfBackend DEF Once
<1>2. ASSUME UNCHANGED <<state, requestedBar>> PROVE PoliceAskedOnce'
  BY <1>2, CallsOfBackend
<1>3. ASSUME NEW t \in Threads, Commit(t) \/ CommitUnacknowledged(t) PROVE PoliceAskedOnce'
  <2>1. Apply(t)
    BY <1>3 DEF Commit, CommitUnacknowledged
  <2>2. machine[t] \in Machines /\ event[t] \in Events /\ Backend!Advance(machine[t], event[t])
    BY <2>1, CommitAdvances
  <2>3. PICK m \in Machines, e \in Events : m = machine[t] /\ e = event[t]
    BY <2>2
  <2>4. Backend!Advance(m, e)
    BY <2>2, <2>3 DEF Backend!Advance
  <2> QED BY <2>4, PoliceAdvance
<1>4. ASSUME NEW t \in Threads, RecordStatus(t) PROVE PoliceAskedOnce'
  BY <1>2, <1>4, StatusStep DEF RecordStatus
<1>5. ASSUME UNCHANGED tableVars PROVE PoliceAskedOnce'
  BY <1>2, <1>5 DEF tableVars, requestedBar
<1>6. ASSUME NEW t \in Threads, Run(t)
      PROVE  Commit(t) \/ CommitUnacknowledged(t) \/ RecordStatus(t) \/ UNCHANGED tableVars
  BY <1>6 DEF Run, Begin, ReadState, NotFound, PoolTimeout, AdvanceFails, RunActions, GetAction,
              Act, ActFails, ActPanics, RunActionFails, NextEvent, Return
<1>7. ASSUME NEW t \in Threads, NEW m \in Machines, NEW e \in Events, Call(t, m, e)
      PROVE  UNCHANGED tableVars
  BY <1>7 DEF Call
<1>8. Crash \/ UNCHANGED vars => UNCHANGED tableVars
  BY DEF Crash, vars, tableVars
<1> QED BY <1>1, <1>3, <1>4, <1>5, <1>6, <1>7, <1>8 DEF Next

(***************************************************************************)
(* For doors in Postgres, any number of them and of threads that send them *)
(* events, whatever fails or crashes: the police is asked for once, in the *)
(* step that disables the door, and called at most once: PoliceCalledOnce. *)
(***************************************************************************)
THEOREM PoliceIsCalledOnce ==
  ASSUME MachinesAreDoors
  PROVE  Spec => []PoliceCalledOnce
<1>1. Init => PoliceAskedOnce
  <2> SUFFICES ASSUME Init PROVE PoliceAskedOnce
    OBVIOUS
  <2>1. DOMAIN actions = {} /\ \A m \in Machines : state[m] = NoState
    BY DEF Init
  <2>2. NoState # Door("Disabled")
    BY NoneAssumption DEF MachinesAreDoors, DoorStates
  <2> QED BY <2>1, <2>2 DEF PoliceAskedOnce, Once
<1>2. IInv /\ PoliceAskedOnce /\ [Next]_vars => PoliceAskedOnce'
  BY PoliceStep
<1>3. PoliceAskedOnce /\ EffectsAtMostOnce => PoliceCalledOnce
  BY DEF PoliceAskedOnce, Once, EffectsAtMostOnce, PoliceCalledOnce
<1> QED BY <1>1, <1>2, <1>3, Invariant, ActionsAtMostOnce, PTL DEF Spec
================================================================================
