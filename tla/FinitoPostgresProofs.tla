--------------------------- MODULE FinitoPostgresProofs ---------------------------
(***************************************************************************)
(* Proofs about FinitoPostgres, for every set of machines and threads,     *)
(* every state machine, every pool size, and any failures and crashes: the *)
(* row lock is held only between the locking read and the commit, the      *)
(* tables implement the abstract FSMBackend, the actions of an event run   *)
(* in the order it returned them and no more than once, an action that is  *)
(* marked as completed has run, and no connection of the pool leaks.       *)
(***************************************************************************)
EXTENDS FinitoPostgres, SequenceTheorems, FunctionTheorems, FiniteSetTheorems, TLAPS

ActionRows == [machine : Machines, event : Nat, kind : Kinds, status : Statuses]

(* The part of the types that the row lock and the refinement rest on. *)
TablesTyped ==
  /\ state \in [Machines -> States \union {NoState}]
  /\ events \in [Machines -> Seq(Events)]
  /\ actions \in Seq(ActionRows)
  /\ begun \in Nat

CallsTyped ==
  /\ rowLock \in [Machines -> Threads \union {None}]
  /\ pc \in [Threads -> {"idle", "conn", "lock", "commit", "runConn", "run", "act", "record"}]
  /\ machine \in [Threads -> Machines \union {None}]
  /\ event \in [Threads -> Events \union {None}]
  /\ read \in [Threads -> States \union {NoState}]

Outcomes == [status : Statuses, events : Seq(Events)]
Loops    == [todo : Seq(DOMAIN actions), events : Seq(Events)]

LoopsTyped ==
  /\ loops \in [Threads -> Seq(Loops)]
  /\ outcome \in [Threads -> Outcomes \union {None}]
  /\ effects \in Seq(DOMAIN actions)
  /\ free \in Nat

(* A call that has not ended knows its machine, and its event until that   *)
(* is applied; a finished level of advance is a loop of run_actions, which *)
(* performs the first of the actions that are left.                        *)
Calling ==
  \A t \in Threads :
    /\ ~At(t, "idle") => machine[t] \in Machines
    /\ pc[t] \in {"conn", "lock", "commit"} => event[t] \in Events
    /\ pc[t] \in {"runConn", "run", "act", "record"} => loops[t] # <<>>
    /\ pc[t] \in {"act", "record"} => Loop(t).todo # <<>>
    /\ At(t, "record") => outcome[t] \in Outcomes

(* Between the locking read and the commit the machine's row is locked and *)
(* has the state that was read.                                            *)
LockedRead ==
  \A t \in Threads :
    At(t, "commit") => /\ rowLock[machine[t]] = t
                       /\ read[t] = state[machine[t]]
                       /\ read[t] # NoState

IInv == TablesTyped /\ CallsTyped /\ LoopsTyped /\ Calling /\ NoLockWhileWaiting /\ LockedRead

--------------------------------------------------------------------------------
(***************************************************************************)
(* Init establishes the invariant.                                         *)
(***************************************************************************)
LEMMA InitIInv == Init => IInv
<1> SUFFICES ASSUME Init PROVE IInv
  OBVIOUS
<1> USE DEF Init
<1>1. TablesTyped
  BY DEF TablesTyped
<1>2. CallsTyped
  BY DEF CallsTyped
<1>3. LoopsTyped
  BY PoolAssumption DEF LoopsTyped
<1>4. Calling /\ NoLockWhileWaiting /\ LockedRead
  BY NoneAssumption DEF Calling, NoLockWhileWaiting, LockedRead, At
<1> QED BY <1>1, <1>2, <1>3, <1>4 DEF IInv

(***************************************************************************)
(* What advance computes from a state and an event of the machine is a     *)
(* state and a sequence of its actions.                                    *)
(***************************************************************************)
LEMMA NextTyped ==
  ASSUME NEW s \in States, NEW e \in Events
  PROVE  /\ AdvanceFSM[<<s, e>>].state \in States
         /\ AdvanceFSM[<<s, e>>].actions \in Seq(Kinds)
<1>1. <<s, e>> \in States \X Events
  OBVIOUS
<1>2. AdvanceFSM[<<s, e>>] \in [state : States, actions : Seq(Kinds)]
  BY <1>1, FSMAssumption
<1> QED BY <1>2

(***************************************************************************)
(* Ids stay ids as long as no action is added.                             *)
(***************************************************************************)
LEMMA LoopsStayTyped ==
  ASSUME DOMAIN actions' = DOMAIN actions,
         loops' \in [Threads -> Seq(Loops)],
         outcome' \in [Threads -> Outcomes \union {None}],
         effects' \in Seq(DOMAIN actions),
         free' \in Nat
  PROVE  LoopsTyped'
<1>1. Loops' = Loops /\ Outcomes' = Outcomes
  BY DEF Loops, Outcomes, Statuses
<1> QED BY <1>1 DEF LoopsTyped

(***************************************************************************)
(* What a call holds of the pool is a number of connections.               *)
(***************************************************************************)
LEMMA HeldIsNat ==
  ASSUME LoopsTyped, Calling, NEW t \in Threads
  PROVE  Held(t) \in Nat
<1>1. Len(loops[t]) \in Nat /\ (loops[t] # <<>> => Len(loops[t]) >= 1)
  BY DEF LoopsTyped
<1>2. pc[t] = "runConn" => loops[t] # <<>>
  BY DEF Calling
<1> QED BY <1>1, <1>2 DEF Held

(***************************************************************************)
(* Ending a call, however it ends, keeps the invariant.                    *)
(***************************************************************************)
LEMMA AbandonStep ==
  ASSUME IInv, NEW t \in Threads, Abandon(t), UNCHANGED <<tableVars, begun>>, effects' \in Seq(DOMAIN actions)
  PROVE  IInv'
<1> USE NoneAssumption DEF IInv
<1>1. TablesTyped'
  BY DEF TablesTyped, tableVars
<1>2. CallsTyped'
  BY DEF CallsTyped, Abandon, RollBack
<1>3. LoopsTyped'
  <2>1. DOMAIN actions' = DOMAIN actions /\ Held(t) \in Nat
    BY HeldIsNat DEF tableVars
  <2>2. /\ loops' \in [Threads -> Seq(Loops)]
        /\ outcome' \in [Threads -> Outcomes \union {None}]
        /\ effects' \in Seq(DOMAIN actions) 
        /\ free' \in Nat
    BY <2>1 DEF LoopsTyped, Abandon, ReturnConnections
  <2> QED BY <2>1, <2>2, LoopsStayTyped
<1>4. Calling'
  BY DEF CallsTyped, LoopsTyped, Calling, Abandon, At, Loop
<1>5. NoLockWhileWaiting'
  BY DEF CallsTyped, NoLockWhileWaiting, Abandon, RollBack, At
<1>6. LockedRead'
  BY DEF CallsTyped, Calling, LockedRead, Abandon, RollBack, tableVars, At
<1> QED BY <1>1, <1>2, <1>3, <1>4, <1>5, <1>6

(***************************************************************************)
(* Replacing the innermost loop by a well-typed one leaves loops typed,    *)
(* and the loop and its tails are well typed to begin with.                *)
(***************************************************************************)
LEMMA LoopTyped ==
  ASSUME LoopsTyped, NEW t \in Threads, loops[t] # <<>>
  PROVE  /\ Loop(t) \in Loops
         /\ Tail(loops[t]) \in Seq(Loops)
         /\ Loop(t).todo # <<>> => /\ Head(Loop(t).todo) \in DOMAIN actions
                                   /\ Tail(Loop(t).todo) \in Seq(DOMAIN actions)
         /\ Loop(t).events # <<>> => /\ Head(Loop(t).events) \in Events
                                     /\ Tail(Loop(t).events) \in Seq(Events)
<1>1. loops[t] \in Seq(Loops)
  BY DEF LoopsTyped
<1>2. Head(loops[t]) \in Loops /\ Tail(loops[t]) \in Seq(Loops)
  BY <1>1
<1>3. Loop(t).todo \in Seq(DOMAIN actions) /\ Loop(t).events \in Seq(Events)
  BY <1>2 DEF Loop, Loops
<1>4. \A q \in Seq(DOMAIN actions) : q # <<>> => Head(q) \in DOMAIN actions /\ Tail(q) \in Seq(DOMAIN actions)
  OBVIOUS
<1>5. \A q \in Seq(Events) : q # <<>> => Head(q) \in Events /\ Tail(q) \in Seq(Events)
  OBVIOUS
<1> QED BY <1>2, <1>3, <1>4, <1>5 DEF Loop

(*****************************************************************************)
(* Replacing the innermost loop of a thread by a well-formed one keeps       *)
(* every stack of run_actions loops well-formed and leaves the other         *)
(* threads' loops alone.                                                     *)
(*****************************************************************************)
LEMMA SetLoopTyped ==
  ASSUME LoopsTyped, NEW t \in Threads, loops[t] # <<>>, NEW loop \in Loops, SetLoop(t, loop)
  PROVE  /\ loops' \in [Threads -> Seq(Loops)]
         /\ loops'[t] # <<>> /\ Head(loops'[t]) = loop
         /\ \A u \in Threads \ {t} : loops'[u] = loops[u]
<1>1. Tail(loops[t]) \in Seq(Loops)
  BY LoopTyped
<1>2. <<loop>> \o Tail(loops[t]) \in Seq(Loops) /\ <<loop>> \o Tail(loops[t]) # <<>>
  BY <1>1
<1>3. loops' = [loops EXCEPT ![t] = <<loop>> \o Tail(loops[t])]
  BY DEF SetLoop
<1> QED BY <1>2, <1>3 DEF LoopsTyped

--------------------------------------------------------------------------------
(***************************************************************************)
(* The transaction of advance keeps the invariant.                         *)
(***************************************************************************)
LEMMA BeginStep == ASSUME IInv, NEW t \in Threads, Begin(t) PROVE IInv'
<1> USE DEF IInv, Begin, Goto, At
<1>1. TablesTyped'
  BY DEF TablesTyped, tableVars
<1>2. LoopsTyped'
  BY LoopsStayTyped DEF LoopsTyped, tableVars
<1>3. CallsTyped'
  BY DEF TablesTyped, CallsTyped
<1>4. Calling'
  BY DEF CallsTyped, Calling, Loop, Outcomes, Statuses
<1>5. NoLockWhileWaiting' /\ LockedRead'
  BY DEF CallsTyped, NoLockWhileWaiting, LockedRead, tableVars
<1> QED BY <1>1, <1>2, <1>3, <1>4, <1>5

(*****************************************************************************)
(* get_machine_internal takes the row lock together with the state it        *)
(* reads, so the thread that holds the lock knows the current state.         *)
(*****************************************************************************)
LEMMA ReadStateStep == ASSUME IInv, NEW t \in Threads, ReadState(t) PROVE IInv'
<1> USE DEF IInv, ReadState, Goto, At
<1>1. machine[t] \in Machines
  BY DEF Calling
<1>2. TablesTyped' /\ LoopsTyped'
  BY LoopsStayTyped DEF TablesTyped, LoopsTyped, tableVars
<1>3. CallsTyped'
  BY <1>1 DEF TablesTyped, CallsTyped
<1>4. Calling'
  BY DEF CallsTyped, Calling, Loop, Outcomes, Statuses
<1>5. NoLockWhileWaiting'
  BY <1>1, NoneAssumption DEF CallsTyped, NoLockWhileWaiting
<1>6. LockedRead'
  BY <1>1, NoneAssumption DEF CallsTyped, Calling, LockedRead, tableVars
<1> QED BY <1>2, <1>3, <1>4, <1>5, <1>6

(*****************************************************************************)
(* A sequence over a set is a sequence over any larger set.                  *)
(*****************************************************************************)
LEMMA WiderSequences ==
  ASSUME NEW S, NEW T, S \subseteq T
  PROVE  Seq(S) \subseteq Seq(T)
OBVIOUS

(*****************************************************************************)
(* What a concatenation holds, position by position.                         *)
(*****************************************************************************)
LEMMA Concatenation ==
  ASSUME NEW S, NEW p \in Seq(S), NEW q \in Seq(S)
  PROVE  /\ p \o q \in Seq(S)
         /\ Len(p \o q) = Len(p) + Len(q)
         /\ \A i \in 1..Len(p) : (p \o q)[i] = p[i]
         /\ \A i \in 1..Len(q) : (p \o q)[Len(p) + i] = q[i]
OBVIOUS

(*****************************************************************************)
(* The tail of a sequence that is not empty, and when the tail is.           *)
(*****************************************************************************)
LEMMA TailOfSequence ==
  ASSUME NEW S, NEW q \in Seq(S), q # <<>>
  PROVE  /\ Tail(q) \in Seq(S)
         /\ Len(q) # 1 => Tail(q) # <<>>
<1>1. Tail(q) \in Seq(S) /\ Len(q) \in Nat /\ Len(Tail(q)) = Len(q) - 1
  OBVIOUS
<1>2. Len(<<>>) = 0
  OBVIOUS
<1>3. Len(q) # 1 => Len(Tail(q)) # 0
  BY <1>1
<1>4. Tail(q) = <<>> => Len(Tail(q)) = 0
  BY <1>2
<1> QED BY <1>1, <1>3, <1>4

(*****************************************************************************)
(* A function on 1..n is a sequence.                                         *)
(*****************************************************************************)
LEMMA FunctionIsSequence ==
  ASSUME NEW S, NEW n \in Nat, NEW f \in [1..n -> S]
  PROVE  f \in Seq(S)
OBVIOUS

(***************************************************************************)
(* A committing thread finds the machine's state to be what it has read,   *)
(* and appends well-typed rows to the tables.                              *)
(***************************************************************************)
LEMMA CommitTables ==
  ASSUME IInv, NEW t \in Threads, Apply(t)
  PROVE  /\ machine[t] \in Machines /\ event[t] \in Events
         /\ state[machine[t]] \in States /\ read[t] = state[machine[t]]
         /\ TablesTyped'
         /\ LET n == Len(AdvanceFSM[<<read[t], event[t]>>].actions)
            IN  n \in Nat /\ Len(actions) \in Nat /\ Len(actions') = Len(actions) + n
         /\ [i \in DOMAIN AdvanceFSM[<<read[t], event[t]>>].actions |->
               [machine |-> machine[t], event |-> Len(events[machine[t]]) + 1,
                kind |-> AdvanceFSM[<<read[t], event[t]>>].actions[i], status |-> "Pending"]]
              \in Seq(ActionRows)
<1> USE DEF IInv
<1>1. At(t, "commit") /\ pc[t] = "commit"
  BY DEF Apply, At
<1>2. machine[t] \in Machines /\ event[t] \in Events
  BY <1>1 DEF Calling, At
<1>3. read[t] = state[machine[t]] /\ state[machine[t]] \in States
  BY <1>1, <1>2, NoneAssumption DEF LockedRead, TablesTyped
<1> DEFINE next == AdvanceFSM[<<read[t], event[t]>>]
           rows == [i \in DOMAIN next.actions |->
                      [machine |-> machine[t], event |-> Len(events[machine[t]]) + 1,
                       kind |-> next.actions[i], status |-> "Pending"]]
<1>4. next.state \in States /\ next.actions \in Seq(Kinds)
  BY <1>2, <1>3, NextTyped
<1>5. rows \in Seq(ActionRows)
  <2>1. Len(events[machine[t]]) + 1 \in Nat
    BY <1>2 DEF TablesTyped
  <2>2. \A i \in DOMAIN next.actions :
          [machine |-> machine[t], event |-> Len(events[machine[t]]) + 1,
           kind |-> next.actions[i], status |-> "Pending"] \in ActionRows
    BY <1>2, <1>4, <2>1 DEF ActionRows, Statuses
  <2>3. Len(next.actions) \in Nat /\ DOMAIN next.actions = 1..Len(next.actions)
    BY <1>4
  <2>4. rows \in [1..Len(next.actions) -> ActionRows]
    BY <2>2, <2>3
  <2> HIDE DEF rows
  <2> QED BY <2>3, <2>4, FunctionIsSequence
<1>6. event[t] \in Events
  BY <1>2
<1>7. /\ state' = [state EXCEPT ![machine[t]] = next.state]
      /\ events' = [events EXCEPT ![machine[t]] = Append(@, event[t])]
      /\ actions' = actions \o rows
      /\ begun' = begun
  BY DEF Apply
<1>8. state' \in [Machines -> States \union {NoState}] /\ begun' \in Nat
  BY <1>4, <1>7 DEF TablesTyped
<1>9. events' \in [Machines -> Seq(Events)]
  <2>1. events \in [Machines -> Seq(Events)]
    BY DEF TablesTyped
  <2>2. Append(events[machine[t]], event[t]) \in Seq(Events)
    BY <1>2, <1>6, <2>1
  <2> QED BY <1>7, <2>1, <2>2
<1>10. actions' \in Seq(ActionRows)
  <2>1. actions \in Seq(ActionRows)
    BY DEF TablesTyped
  <2> HIDE DEF rows
  <2> QED BY <1>5, <1>7, <2>1
<1>11. Len(rows) = Len(next.actions) /\ Len(next.actions) \in Nat /\ Len(actions) \in Nat
  BY <1>4 DEF TablesTyped
<1>12. Len(actions') = Len(actions) + Len(next.actions)
  <2>1. actions \in Seq(ActionRows)
    BY DEF TablesTyped
  <2>2. actions' = actions \o rows
    BY <1>7
  <2>3. Len(actions \o rows) = Len(actions) + Len(rows)
    <3> HIDE DEF rows
    <3> QED BY <1>5, <2>1, Concatenation
  <2> QED BY <1>11, <2>2, <2>3
<1> QED BY <1>2, <1>3, <1>5, <1>8, <1>9, <1>10, <1>11, <1>12 DEF TablesTyped

(*****************************************************************************)
(* Committing appends well-typed rows, hands their numbers to run_actions    *)
(* and releases the row lock, all in one step.                               *)
(*****************************************************************************)
LEMMA CommitStep == ASSUME IInv, NEW t \in Threads, Commit(t) PROVE IInv'
<1> USE DEF IInv
<1> DEFINE n == Len(AdvanceFSM[<<read[t], event[t]>>].actions)
<1>1. At(t, "commit") /\ pc[t] = "commit"
  BY DEF Commit, Apply, At
<1>2. /\ machine[t] \in Machines /\ event[t] \in Events /\ read[t] \in States
      /\ TablesTyped'
  BY CommitTables DEF Commit
<1>3. CallsTyped'
  BY <1>2 DEF CallsTyped, Commit, Goto
<1>4. n \in Nat /\ Len(actions) \in Nat /\ Len(actions') = Len(actions) + n
  BY CommitTables DEF Commit
<1>5. DOMAIN actions = 1..Len(actions) /\ DOMAIN actions' = 1..(Len(actions) + n)
  BY <1>2, <1>4 DEF TablesTyped
<1>6. LoopsTyped' /\ loops'[t] # <<>> /\ \A u \in Threads \ {t} : loops'[u] = loops[u]
  <2> DEFINE new == [todo |-> NewIds(n), events |-> <<>>]
  <2>1. NewIds(n) \in Seq(DOMAIN actions')
    <3>1. NewIds(n) \in [1..n -> DOMAIN actions']
      BY <1>4, <1>5 DEF NewIds
    <3> QED BY <1>4, <3>1, FunctionIsSequence
  <2>2. DOMAIN actions \subseteq DOMAIN actions'
    BY <1>4, <1>5
  <2>3. Seq(DOMAIN actions) \subseteq Seq(DOMAIN actions')
    BY <2>2, WiderSequences
  <2>4. Loops \subseteq Loops'
    BY <2>3 DEF Loops
  <2>5. Seq(Loops) \subseteq Seq(Loops')
    BY <2>4, WiderSequences
  <2>6. new \in Loops'
    BY <2>1 DEF Loops
  <2>7. loops' = [loops EXCEPT ![t] = <<new>> \o loops[t]]
    BY DEF Commit
  <2>8. loops[t] \in Seq(Loops') /\ <<new>> \in Seq(Loops')
    BY <2>5, <2>6 DEF LoopsTyped
  <2> HIDE DEF new
  <2>9. <<new>> \o loops[t] \in Seq(Loops') /\ <<new>> \o loops[t] # <<>>
    BY <2>8
  <2>10. loops' \in [Threads -> Seq(Loops')]
    BY <2>5, <2>7, <2>9 DEF LoopsTyped
  <2>11. /\ effects' \in Seq(DOMAIN actions') /\ free' \in Nat
         /\ outcome' \in [Threads -> Outcomes' \union {None}]
    BY <2>3 DEF LoopsTyped, Commit, Outcomes, Statuses
  <2> QED BY <2>7, <2>9, <2>10, <2>11 DEF LoopsTyped
<1>9. Calling'
  BY <1>1, <1>2, <1>6 DEF CallsTyped, Calling, Commit, Goto, At, Loop, Outcomes, Statuses
<1>7. NoLockWhileWaiting'
  BY <1>1, <1>2, NoneAssumption DEF CallsTyped, NoLockWhileWaiting, Commit, Goto, At
<1>8. LockedRead'
  <2> SUFFICES ASSUME NEW u \in Threads, At(u, "commit")'
               PROVE  (rowLock[machine[u]] = u /\ read[u] = state[machine[u]] /\ read[u] # NoState)'
    BY DEF LockedRead
  <2>1. u # t /\ pc[u] = "commit" /\ machine'[u] = machine[u] /\ read'[u] = read[u]
    BY DEF CallsTyped, Commit, Goto, At
  <2>2. rowLock[machine[u]] = u /\ rowLock[machine[t]] = t
    BY <1>1, <2>1 DEF LockedRead, At
  <2>3. machine[u] # machine[t]
    BY <2>1, <2>2
  <2> QED BY <1>2, <2>1, <2>3 DEF LockedRead, Commit, Apply, CallsTyped, TablesTyped, At
<1> QED BY <1>2, <1>3, <1>6, <1>7, <1>8, <1>9

(***************************************************************************)
(* A commit that is not acknowledged changes the tables like one that is,  *)
(* and ends the call.                                                      *)
(***************************************************************************)
LEMMA UnacknowledgedStep == ASSUME IInv, NEW t \in Threads, CommitUnacknowledged(t) PROVE IInv'
<1> USE NoneAssumption DEF IInv, CommitUnacknowledged
<1>1. At(t, "commit") /\ pc[t] = "commit" /\ machine[t] \in Machines /\ TablesTyped'
  BY CommitTables DEF Apply, At
<1>2. CallsTyped'
  BY DEF CallsTyped, Abandon, RollBack
<1>3. LoopsTyped'
  <2> DEFINE n == Len(AdvanceFSM[<<read[t], event[t]>>].actions)
  <2>0. n \in Nat /\ Len(actions) \in Nat /\ Len(actions') = Len(actions) + n
    BY CommitTables
  <2> HIDE DEF n
  <2>6. DOMAIN actions = 1..Len(actions) /\ DOMAIN actions' = 1..(Len(actions) + n)
    BY <1>1, <2>0 DEF TablesTyped
  <2>1. DOMAIN actions \subseteq DOMAIN actions'
    BY <2>0, <2>6
  <2>2. Seq(DOMAIN actions) \subseteq Seq(DOMAIN actions')
    BY <2>1, WiderSequences
  <2>3. Loops \subseteq Loops'
    BY <2>2 DEF Loops
  <2>4. Seq(Loops) \subseteq Seq(Loops')
    BY <2>3, WiderSequences
  <2>5. Held(t) \in Nat
    BY HeldIsNat
  <2> QED BY <2>2, <2>4, <2>5 DEF LoopsTyped, Abandon, ReturnConnections, Outcomes, Statuses
<1>4. Calling'
  BY DEF CallsTyped, LoopsTyped, Calling, Abandon, At, Loop, Outcomes, Statuses
<1>5. NoLockWhileWaiting'
  BY DEF CallsTyped, NoLockWhileWaiting, Abandon, RollBack, At
<1>6. LockedRead'
  <2> SUFFICES ASSUME NEW u \in Threads, At(u, "commit")'
               PROVE  (rowLock[machine[u]] = u /\ read[u] = state[machine[u]] /\ read[u] # NoState)'
    BY DEF LockedRead
  <2>1. u # t /\ pc[u] = "commit" /\ machine'[u] = machine[u] /\ read'[u] = read[u]
    BY DEF CallsTyped, Abandon, At
  <2>2. rowLock[machine[u]] = u /\ rowLock[machine[t]] = t /\ machine[u] \in Machines
    BY <1>1, <2>1 DEF LockedRead, Calling, At
  <2>3. machine[u] # machine[t]
    BY <2>1, <2>2
  <2>4. rowLock'[machine[u]] = u
    BY <2>1, <2>2 DEF Abandon, RollBack
  <2>5. state'[machine[u]] = state[machine[u]]
    BY <1>1, <2>2, <2>3 DEF Apply, TablesTyped
  <2> QED BY <2>1, <2>4, <2>5 DEF LockedRead, At
<1> QED BY <1>1, <1>2, <1>3, <1>4, <1>5, <1>6

--------------------------------------------------------------------------------
(***************************************************************************)
(* The steps of a thread that is not in the middle of a transaction of     *)
(* advance leave the locks, and what was read under them, alone.           *)
(***************************************************************************)
LEMMA LocksStay ==
  ASSUME IInv, NEW t \in Threads, pc[t] \notin {"lock", "commit"},
         NEW step \in {"idle", "conn", "run", "act", "record"}, pc' = [pc EXCEPT ![t] = step],
         NEW m \in Machines \union {None}, machine' = [machine EXCEPT ![t] = m],
         NEW e \in Events \union {None}, event' = [event EXCEPT ![t] = e],
         UNCHANGED <<state, rowLock, read>>
  PROVE  CallsTyped' /\ NoLockWhileWaiting' /\ LockedRead'
<1> USE DEF IInv, At
<1>1. CallsTyped'
  BY DEF CallsTyped
<1>2. NoLockWhileWaiting'
  BY DEF CallsTyped, NoLockWhileWaiting
<1>3. LockedRead'
  BY DEF CallsTyped, LockedRead
<1> QED BY <1>1, <1>2, <1>3

(*****************************************************************************)
(* Inserting a machine touches nothing that a running call relies on: the    *)
(* machine had no row, so nobody has locked or read it.                      *)
(*****************************************************************************)
LEMMA InsertStep == ASSUME IInv, NEW m \in Machines, NEW s \in Initial, InsertMachine(m, s) PROVE IInv'
<1> USE DEF IInv, InsertMachine, callVars
<1>1. TablesTyped'
  BY FSMAssumption DEF TablesTyped
<1>2. CallsTyped' /\ LoopsTyped' /\ Calling' /\ NoLockWhileWaiting'
  BY LoopsStayTyped DEF CallsTyped, LoopsTyped, Calling, NoLockWhileWaiting, At, Loop, Outcomes, Statuses
<1>3. LockedRead'
  BY NoneAssumption DEF TablesTyped, CallsTyped, Calling, LockedRead, At
<1> QED BY <1>1, <1>2, <1>3

(*****************************************************************************)
(* A call of advance, from outside or from run_actions, starts by waiting    *)
(* for a connection, without a lock.                                         *)
(*****************************************************************************)
LEMMA CallStep ==
  ASSUME IInv, NEW t \in Threads, NEW m \in Machines, NEW e \in Events, Call(t, m, e) PROVE IInv'
<1> USE DEF IInv, Call, Goto, At
<1>1. TablesTyped' /\ LoopsTyped'
  BY LoopsStayTyped DEF TablesTyped, LoopsTyped, tableVars
<1>2. CallsTyped' /\ NoLockWhileWaiting' /\ LockedRead'
  <2>1. pc[t] \notin {"lock", "commit"} /\ UNCHANGED <<state, rowLock, read>>
    BY DEF tableVars
  <2> QED BY <2>1, LocksStay
<1>3. Calling'
  BY DEF CallsTyped, Calling, Loop, Outcomes, Statuses
<1> QED BY <1>1, <1>2, <1>3

(*****************************************************************************)
(* run_actions takes its connection and starts on its first action.          *)
(*****************************************************************************)
LEMMA RunActionsStep == ASSUME IInv, NEW t \in Threads, RunActions(t) PROVE IInv'
<1> USE DEF IInv, RunActions, Goto, At, callVars, tableVars
<1>1. TablesTyped' /\ LoopsTyped'
  BY LoopsStayTyped DEF TablesTyped, LoopsTyped
<1>2. CallsTyped' /\ NoLockWhileWaiting' /\ LockedRead'
  BY DEF CallsTyped, NoLockWhileWaiting, LockedRead
<1>3. Calling'
  BY DEF CallsTyped, Calling, Loop, Outcomes, Statuses
<1> QED BY <1>1, <1>2, <1>3

(*****************************************************************************)
(* get_action finds the row of the next action of the innermost loop; the    *)
(* row exists because the loop was given its number by the commit.           *)
(*****************************************************************************)
LEMMA GetActionStep == ASSUME IInv, NEW t \in Threads, GetAction(t) PROVE IInv'
<1> USE DEF IInv, At, Goto, callVars, tableVars
<1> DEFINE loop == [todo |-> Tail(Loop(t).todo), events |-> <<>>]
<1>1. pc[t] = "run" /\ loops[t] # <<>> /\ Loop(t).todo # <<>>
  BY DEF GetAction, Calling
<1>2. loop \in Loops
  BY <1>1, LoopTyped DEF Loops
<1>3. TablesTyped'
  BY DEF GetAction, TablesTyped
<1>4. /\ CallsTyped' /\ NoLockWhileWaiting' /\ LockedRead'
  BY <1>1 DEF GetAction, CallsTyped, NoLockWhileWaiting, LockedRead
<1>5. CASE Goto(t, "act") /\ UNCHANGED loops
  <2>1. LoopsTyped'
    BY <1>5, LoopsStayTyped DEF GetAction, LoopsTyped
  <2>2. Calling'
    BY <1>1, <1>5 DEF GetAction, CallsTyped, Calling, Loop, Outcomes, Statuses
  <2> QED BY <1>3, <1>4, <2>1, <2>2
<1>6. CASE SetLoop(t, loop) /\ UNCHANGED pc
  <2>1. /\ loops' \in [Threads -> Seq(Loops)] /\ loops'[t] # <<>>
        /\ \A u \in Threads \ {t} : loops'[u] = loops[u]
    BY <1>1, <1>2, <1>6, SetLoopTyped
  <2>2. LoopsTyped'
    BY <2>1, LoopsStayTyped DEF GetAction, LoopsTyped
  <2>3. Calling'
    BY <1>1, <1>6, <2>1 DEF GetAction, CallsTyped, Calling, Loop, Outcomes, Statuses
  <2> QED BY <1>3, <1>4, <2>2, <2>3
<1> QED BY <1>5, <1>6 DEF GetAction

(***************************************************************************)
(* Performing an action, with the outcomes act may have.                   *)
(***************************************************************************)
LEMMA EffectTyped ==
  ASSUME IInv, NEW t \in Threads, At(t, "act")
  PROVE  /\ Action(t) \in DOMAIN actions
         /\ Append(effects, Action(t)) \in Seq(DOMAIN actions)
         /\ Returns[actions[Action(t)].kind] \subseteq Seq(Events)
<1>1. loops[t] # <<>> /\ Loop(t).todo # <<>> /\ LoopsTyped
  BY DEF IInv, Calling, At
<1>2. Action(t) \in DOMAIN actions
  BY <1>1, LoopTyped DEF Action
<1>3. effects \in Seq(DOMAIN actions)
  BY <1>1 DEF LoopsTyped
<1>4. Append(effects, Action(t)) \in Seq(DOMAIN actions)
  BY <1>2, <1>3
<1>5. actions[Action(t)].kind \in Kinds
  <2>1. actions[Action(t)] \in ActionRows
    BY <1>2 DEF IInv, TablesTyped
  <2> QED BY <2>1 DEF ActionRows
<1> QED BY <1>2, <1>4, <1>5, FSMAssumption

(*****************************************************************************)
(* Running an action's side effect records it and moves on to storing its    *)
(* status, without touching the tables.                                      *)
(*****************************************************************************)
LEMMA ActStep == ASSUME IInv, NEW t \in Threads, Act(t) \/ ActFails(t) PROVE IInv'
<1> USE DEF IInv, At, Goto, callVars, tableVars
<1>1. pc[t] = "act" /\ pc' = [pc EXCEPT ![t] = "record"] /\ UNCHANGED <<tableVars, rowLock, begun, free, callVars, loops>>
  BY DEF Act, ActFails
<1>2. \E o \in Outcomes : outcome' = [outcome EXCEPT ![t] = o]
  <2>1. CASE Act(t)
    <3>1. PICK evs \in Returns[actions[Action(t)].kind] :
            outcome' = [outcome EXCEPT ![t] = [status |-> "Completed", events |-> evs]]
      BY <2>1 DEF Act
    <3>2. [status |-> "Completed", events |-> evs] \in Outcomes
      BY <1>1, EffectTyped DEF Outcomes, Statuses
    <3> QED BY <3>1, <3>2
  <2>2. CASE ActFails(t)
    <3>1. [status |-> "Failed", events |-> <<>>] \in Outcomes
      BY DEF Outcomes, Statuses
    <3> QED BY <2>2, <3>1 DEF ActFails
  <2> QED BY <2>1, <2>2
<1>3. effects' \in Seq(DOMAIN actions)
  <2>1. Append(effects, Action(t)) \in Seq(DOMAIN actions) /\ effects \in Seq(DOMAIN actions)
    BY <1>1, EffectTyped DEF LoopsTyped
  <2> QED BY <2>1 DEF Act, ActFails
<1>4. TablesTyped' /\ LoopsTyped'
  BY <1>1, <1>2, <1>3, LoopsStayTyped DEF TablesTyped, LoopsTyped
<1>5. CallsTyped' /\ NoLockWhileWaiting' /\ LockedRead'
  BY <1>1 DEF CallsTyped, NoLockWhileWaiting, LockedRead
<1>6. Calling'
  BY <1>1, <1>2 DEF CallsTyped, LoopsTyped, Calling, Loop, Outcomes, Statuses
<1> QED BY <1>4, <1>5, <1>6

(*****************************************************************************)
(* update_action_status changes the status of one row and nothing else.      *)
(*****************************************************************************)
LEMMA RecordStatusStep == ASSUME IInv, NEW t \in Threads, RecordStatus(t) PROVE IInv'
<1> USE DEF IInv, At, Goto, callVars
<1> DEFINE loop == [todo |-> Tail(Loop(t).todo), events |-> outcome[t].events]
<1>1. /\ pc[t] = "record" /\ pc' = [pc EXCEPT ![t] = "run"] /\ SetLoop(t, loop)
      /\ outcome' = [outcome EXCEPT ![t] = None] /\ UNCHANGED <<state, events, rowLock, begun, free, effects, callVars>>
      /\ actions' = [actions EXCEPT ![Action(t)].status = outcome[t].status]
  BY DEF RecordStatus
<1>2. loops[t] # <<>> /\ Loop(t).todo # <<>> /\ outcome[t] \in Outcomes
  BY <1>1 DEF Calling
<1>3. outcome[t].status \in Statuses /\ outcome[t].events \in Seq(Events)
  BY <1>2 DEF Outcomes
<1>4. loop \in Loops
  BY <1>2, <1>3, LoopTyped DEF Loops
<1>5. /\ loops' \in [Threads -> Seq(Loops)] /\ loops'[t] # <<>>
      /\ \A u \in Threads \ {t} : loops'[u] = loops[u]
  BY <1>1, <1>2, <1>4, SetLoopTyped
<1>6. actions' \in Seq(ActionRows) /\ DOMAIN actions' = DOMAIN actions
  <2>1. Action(t) \in DOMAIN actions
    BY <1>2, LoopTyped DEF Action
  <2>2. actions[Action(t)] \in ActionRows /\ actions \in Seq(ActionRows)
    BY <2>1 DEF TablesTyped
  <2>3. [actions[Action(t)] EXCEPT !.status = outcome[t].status] \in ActionRows
    BY <1>3, <2>2 DEF ActionRows
  <2> QED BY <1>1, <2>1, <2>2, <2>3
<1>7. TablesTyped' /\ LoopsTyped'
  BY <1>1, <1>5, <1>6, LoopsStayTyped DEF TablesTyped, LoopsTyped
<1>8. CallsTyped' /\ NoLockWhileWaiting' /\ LockedRead'
  BY <1>1 DEF CallsTyped, NoLockWhileWaiting, LockedRead
<1>9. Calling'
  BY <1>1, <1>5 DEF CallsTyped, LoopsTyped, Calling, Loop, Outcomes, Statuses
<1> QED BY <1>7, <1>8, <1>9

(*****************************************************************************)
(* A loop step that fails ends like one that succeeds without events: the    *)
(* action's status stays what it was and the loop goes on.                   *)
(*****************************************************************************)
LEMMA RunActionFailsStep == ASSUME IInv, NEW t \in Threads, RunActionFails(t) PROVE IInv'
<1> USE DEF IInv, At, Goto, callVars, tableVars
<1> DEFINE loop == [todo |-> Tail(Loop(t).todo), events |-> <<>>]
<1>1. /\ pc[t] \in {"run", "record"} /\ pc' = [pc EXCEPT ![t] = "run"] /\ SetLoop(t, loop)
      /\ outcome' = [outcome EXCEPT ![t] = None] /\ UNCHANGED <<tableVars, rowLock, begun, free, effects, callVars>>
  BY DEF RunActionFails
<1>2. loops[t] # <<>> /\ Loop(t).todo # <<>>
  BY DEF RunActionFails, Calling
<1>3. loop \in Loops
  BY <1>2, LoopTyped DEF Loops
<1>4. /\ loops' \in [Threads -> Seq(Loops)] /\ loops'[t] # <<>>
      /\ \A u \in Threads \ {t} : loops'[u] = loops[u]
  BY <1>1, <1>2, <1>3, SetLoopTyped
<1>5. TablesTyped' /\ LoopsTyped'
  BY <1>1, <1>4, LoopsStayTyped DEF TablesTyped, LoopsTyped
<1>6. CallsTyped' /\ NoLockWhileWaiting' /\ LockedRead'
  BY <1>1 DEF CallsTyped, NoLockWhileWaiting, LockedRead
<1>7. Calling'
  BY <1>1, <1>4 DEF CallsTyped, LoopsTyped, Calling, Loop, Outcomes, Statuses
<1> QED BY <1>5, <1>6, <1>7

(*****************************************************************************)
(* An event returned by an action starts a nested call of advance on the     *)
(* same machine, below the loop that is under way.                           *)
(*****************************************************************************)
LEMMA NextEventStep == ASSUME IInv, NEW t \in Threads, NextEvent(t) PROVE IInv'
<1> USE DEF IInv, At, Goto, tableVars
<1> DEFINE loop == [todo |-> Loop(t).todo, events |-> Tail(Loop(t).events)]
           e == Head(Loop(t).events)
<1>1. /\ pc[t] = "run" /\ pc' = [pc EXCEPT ![t] = "conn"] /\ SetLoop(t, loop) /\ Loop(t).events # <<>>
      /\ event' = [event EXCEPT ![t] = e]
      /\ UNCHANGED <<tableVars, rowLock, begun, free, effects, machine, read, outcome>>
  BY DEF NextEvent
<1>2. loops[t] # <<>> /\ machine[t] \in Machines
  BY <1>1 DEF Calling
<1>3. loop \in Loops /\ e \in Events
  BY <1>1, <1>2, LoopTyped DEF Loops
<1>4. /\ loops' \in [Threads -> Seq(Loops)] /\ loops'[t] # <<>>
      /\ \A u \in Threads \ {t} : loops'[u] = loops[u]
  BY <1>1, <1>2, <1>3, SetLoopTyped
<1>5. TablesTyped' /\ LoopsTyped'
  BY <1>1, <1>4, LoopsStayTyped DEF TablesTyped, LoopsTyped
<1>6. CallsTyped' /\ NoLockWhileWaiting' /\ LockedRead'
  BY <1>1, <1>3 DEF CallsTyped, NoLockWhileWaiting, LockedRead
<1>7. Calling'
  BY <1>1, <1>2, <1>3, <1>4 DEF CallsTyped, LoopsTyped, Calling, Loop, Outcomes, Statuses
<1> QED BY <1>5, <1>6, <1>7

(*****************************************************************************)
(* A loop that has no actions left is popped, and the call that it served    *)
(* ends or goes back to the enclosing loop.                                  *)
(*****************************************************************************)
LEMMA ReturnStep == ASSUME IInv, NEW t \in Threads, Return(t) PROVE IInv'
<1> USE DEF IInv, At, Goto, tableVars
<1>1. /\ pc[t] = "run" /\ loops' = [loops EXCEPT ![t] = Tail(loops[t])] /\ free' = free + 2
      /\ UNCHANGED <<tableVars, rowLock, begun, effects, event, read, outcome>>
  BY DEF Return
<1>2. loops[t] # <<>> /\ machine[t] \in Machines /\ loops[t] \in Seq(Loops)
  BY <1>1 DEF Calling, LoopsTyped
<1>3. Tail(loops[t]) \in Seq(Loops) /\ (Len(loops[t]) # 1 => Tail(loops[t]) # <<>>)
  BY <1>2, TailOfSequence
<1>4. TablesTyped' /\ LoopsTyped'
  BY <1>1, <1>3, LoopsStayTyped DEF TablesTyped, LoopsTyped
<1>5. CASE Len(loops[t]) = 1
  <2>1. pc' = [pc EXCEPT ![t] = "idle"] /\ machine' = [machine EXCEPT ![t] = None]
    BY <1>5 DEF Return
  <2>2. CallsTyped' /\ NoLockWhileWaiting' /\ LockedRead'
    BY <1>1, <2>1 DEF CallsTyped, NoLockWhileWaiting, LockedRead
  <2>3. Calling'
    BY <1>1, <2>1 DEF CallsTyped, LoopsTyped, Calling, Loop, Outcomes, Statuses
  <2> QED BY <1>4, <2>2, <2>3
<1>6. CASE Len(loops[t]) # 1
  <2>1. UNCHANGED <<pc, machine>>
    BY <1>6 DEF Return
  <2>2. CallsTyped' /\ NoLockWhileWaiting' /\ LockedRead'
    BY <1>1, <2>1 DEF CallsTyped, NoLockWhileWaiting, LockedRead
  <2>3. Calling'
    BY <1>1, <1>3, <1>6, <2>1 DEF CallsTyped, LoopsTyped, Calling, Loop, Outcomes, Statuses
  <2> QED BY <1>4, <2>2, <2>3
<1> QED BY <1>5, <1>6

(***************************************************************************)
(* A crash ends all calls.                                                 *)
(***************************************************************************)
LEMMA CrashStep == ASSUME IInv, Crash PROVE IInv'
<1> USE NoneAssumption DEF IInv, Crash, At, tableVars
<1>1. TablesTyped' /\ CallsTyped'
  BY DEF TablesTyped, CallsTyped
<1>2. LoopsTyped'
  BY LoopsStayTyped, PoolAssumption DEF LoopsTyped
<1>3. Calling' /\ NoLockWhileWaiting' /\ LockedRead'
  BY DEF Calling, NoLockWhileWaiting, LockedRead
<1> QED BY <1>1, <1>2, <1>3

--------------------------------------------------------------------------------
(***************************************************************************)
(* Every step of a thread, and every step, keeps the invariant.            *)
(***************************************************************************)
LEMMA RunStep == ASSUME IInv, NEW t \in Threads, Run(t) PROVE IInv'
<1>1. effects \in Seq(DOMAIN actions)
  BY DEF IInv, LoopsTyped
<1>2. CASE NotFound(t) \/ PoolTimeout(t) \/ AdvanceFails(t)
  BY <1>1, <1>2, AbandonStep DEF NotFound, PoolTimeout, AdvanceFails
<1>3. CASE ActPanics(t)
  <2>1. effects' \in Seq(DOMAIN actions)
    BY <1>1, <1>3, EffectTyped DEF ActPanics
  <2> QED BY <1>3, <2>1, AbandonStep DEF ActPanics
<1>4. CASE Begin(t) \/ ReadState(t) \/ Commit(t) \/ CommitUnacknowledged(t)
  BY <1>4, BeginStep, ReadStateStep, CommitStep, UnacknowledgedStep
<1>5. CASE RunActions(t) \/ GetAction(t) \/ Act(t) \/ ActFails(t)
  BY <1>5, RunActionsStep, GetActionStep, ActStep
<1>6. CASE RecordStatus(t) \/ RunActionFails(t) \/ NextEvent(t) \/ Return(t)
  BY <1>6, RecordStatusStep, RunActionFailsStep, NextEventStep, ReturnStep
<1> QED BY <1>2, <1>3, <1>4, <1>5, <1>6 DEF Run

(*****************************************************************************)
(* Every step of the backend preserves the inductive invariant.              *)
(*****************************************************************************)
LEMMA IInvStep == IInv /\ [Next]_vars => IInv'
<1> SUFFICES ASSUME IInv, [Next]_vars PROVE IInv'
  OBVIOUS
<1>1. ASSUME NEW m \in Machines, NEW s \in Initial, InsertMachine(m, s) PROVE IInv'
  BY <1>1, InsertStep
<1>2. ASSUME NEW t \in Threads, NEW m \in Machines, NEW e \in Events, Call(t, m, e) PROVE IInv'
  BY <1>2, CallStep
<1>3. ASSUME NEW t \in Threads, Run(t) PROVE IInv'
  BY <1>3, RunStep
<1>4. CASE Crash
  BY <1>4, CrashStep
<1>5. CASE UNCHANGED vars
  <2> USE <1>5 DEF IInv, vars, tableVars, callVars, At
  <2>1. TablesTyped' /\ CallsTyped' /\ LoopsTyped'
    BY LoopsStayTyped DEF TablesTyped, CallsTyped, LoopsTyped
  <2>2. Calling' /\ NoLockWhileWaiting' /\ LockedRead'
    BY DEF Calling, NoLockWhileWaiting, LockedRead, Loop, Outcomes, Statuses
  <2> QED BY <2>1, <2>2
<1> QED BY <1>1, <1>2, <1>3, <1>4, <1>5 DEF Next

(*****************************************************************************)
(* The inductive invariant holds in every state that the backend reaches.    *)
(*****************************************************************************)
THEOREM Invariant == Spec => []IInv
BY InitIInv, IInvStep, PTL DEF Spec

(***************************************************************************)
(* Every variable keeps its type; in particular, every id that is held by  *)
(* a call or was performed is that of a row of the table actions.          *)
(***************************************************************************)
THEOREM TypeCorrect == Spec => []TypeOK
<1>1. IInv => TypeOK
  BY DEF IInv, TablesTyped, CallsTyped, LoopsTyped, ActionRows, Loops, Outcomes, TypeOK
<1> QED BY <1>1, Invariant, PTL

(***************************************************************************)
(* A row lock is held only from the locking read to the commit: no call    *)
(* waits for a connection, or performs actions, with a machine locked.     *)
(***************************************************************************)
THEOREM LocksAreShort == Spec => []NoLockWhileWaiting
<1>1. IInv => NoLockWhileWaiting
  BY DEF IInv
<1> QED BY <1>1, Invariant, PTL

--------------------------------------------------------------------------------
requestedBar == [a \in DOMAIN actions |-> [machine |-> actions[a].machine, kind |-> actions[a].kind]]

(***************************************************************************)
(* Changing the status of actions changes nothing that was requested.      *)
(***************************************************************************)
LEMMA StatusStep ==
  ASSUME IInv, NEW t \in Threads, RecordStatus(t)
  PROVE  requestedBar' = requestedBar
<1>1. actions' = [actions EXCEPT ![Action(t)].status = outcome[t].status]
  BY DEF RecordStatus
<1>2. loops[t] # <<>> /\ Loop(t).todo # <<>> /\ LoopsTyped
  BY DEF RecordStatus, IInv, Calling, At
<1>3. Action(t) \in DOMAIN actions
  BY <1>2, LoopTyped DEF Action
<1>4. \A a \in DOMAIN actions : actions[a] \in ActionRows
  BY DEF IInv, TablesTyped
<1>5. DOMAIN actions' = DOMAIN actions
  BY <1>1
<1>6. \A a \in DOMAIN actions : actions'[a].machine = actions[a].machine /\ actions'[a].kind = actions[a].kind
  BY <1>1, <1>3, <1>4 DEF ActionRows
<1> QED BY <1>5, <1>6 DEF requestedBar

(***************************************************************************)
(* What a sequence of rows requests.                                       *)
(***************************************************************************)
Requests(rows) == [a \in DOMAIN rows |-> [machine |-> rows[a].machine, kind |-> rows[a].kind]]

Asked == [machine : Machines, kind : Kinds]

(*****************************************************************************)
(* The requests of a sequence of rows are as many as its rows, each with     *)
(* the row's machine and action.                                             *)
(*****************************************************************************)
LEMMA RequestsOfRows ==
  ASSUME NEW r \in Seq(ActionRows)
  PROVE  /\ Requests(r) \in Seq(Asked)
         /\ Len(Requests(r)) = Len(r) /\ DOMAIN Requests(r) = 1..Len(r) /\ Len(r) \in Nat
         /\ \A a \in 1..Len(r) : Requests(r)[a] = [machine |-> r[a].machine, kind |-> r[a].kind]
<1>1. Len(r) \in Nat /\ DOMAIN r = 1..Len(r)
  OBVIOUS
<1>2. \A a \in 1..Len(r) : r[a] \in ActionRows
  BY <1>1
<1>3. Requests(r) \in [1..Len(r) -> Asked]
  BY <1>1, <1>2 DEF Requests, ActionRows, Asked
<1>4. Requests(r) \in Seq(Asked)
  BY <1>1, <1>3, FunctionIsSequence
<1> QED BY <1>1, <1>3, <1>4 DEF Requests

(*****************************************************************************)
(* Appending rows to the actions table appends their requests to the         *)
(* requests.                                                                 *)
(*****************************************************************************)
LEMMA RequestsOfConcatenation ==
  ASSUME NEW p \in Seq(ActionRows), NEW q \in Seq(ActionRows)
  PROVE  Requests(p \o q) = Requests(p) \o Requests(q)
<1> DEFINE c == p \o q
           P == Requests(p)
           Q == Requests(q)
           C == Requests(c)
<1>1. c \in Seq(ActionRows) /\ Len(c) = Len(p) + Len(q)
  BY Concatenation
<1>2. /\ P \in Seq(Asked) /\ Len(P) = Len(p) /\ Len(p) \in Nat
      /\ \A a \in 1..Len(p) : P[a] = [machine |-> p[a].machine, kind |-> p[a].kind]
  BY RequestsOfRows
<1>3. /\ Q \in Seq(Asked) /\ Len(Q) = Len(q) /\ Len(q) \in Nat
      /\ \A a \in 1..Len(q) : Q[a] = [machine |-> q[a].machine, kind |-> q[a].kind]
  BY RequestsOfRows
<1>4. /\ C \in Seq(Asked) /\ Len(C) = Len(p) + Len(q)
      /\ \A a \in 1..(Len(p) + Len(q)) : C[a] = [machine |-> c[a].machine, kind |-> c[a].kind]
  <2> HIDE DEF c
  <2> QED BY <1>1, RequestsOfRows
<1>5. /\ \A a \in 1..Len(p) : c[a] = p[a]
      /\ \A a \in 1..Len(q) : c[Len(p) + a] = q[a]
  BY Concatenation
<1> HIDE DEF c, P, Q, C
<1>6. /\ P \o Q \in Seq(Asked) /\ Len(P \o Q) = Len(p) + Len(q)
      /\ \A a \in 1..Len(p) : (P \o Q)[a] = P[a]
      /\ \A a \in 1..Len(q) : (P \o Q)[Len(p) + a] = Q[a]
  <2>1. P \in Seq(Asked) /\ Q \in Seq(Asked)
    BY <1>2, <1>3
  <2>2. /\ P \o Q \in Seq(Asked) /\ Len(P \o Q) = Len(P) + Len(Q)
        /\ \A a \in 1..Len(P) : (P \o Q)[a] = P[a]
        /\ \A a \in 1..Len(Q) : (P \o Q)[Len(P) + a] = Q[a]
    BY <2>1, Concatenation
  <2> QED BY <1>2, <1>3, <2>2
<1>7. ASSUME NEW a \in 1..(Len(p) + Len(q))
      PROVE  C[a] = (P \o Q)[a]
  <2>1. CASE a \in 1..Len(p)
    BY <1>2, <1>4, <1>5, <1>6, <2>1
  <2>2. CASE a \notin 1..Len(p)
    <3>1. PICK i \in 1..Len(q) : a = Len(p) + i
      <4>1. a - Len(p) \in 1..Len(q) /\ a = Len(p) + (a - Len(p))
        BY <1>2, <1>3, <2>2
      <4> QED BY <4>1
    <3>2. c[a] = q[i] /\ (P \o Q)[a] = Q[i]
      BY <1>5, <1>6, <3>1
    <3> QED BY <1>3, <1>4, <3>2
  <2> QED BY <2>1, <2>2
<1>8. C = P \o Q
  BY <1>4, <1>6, <1>7, SeqEqual
<1> QED BY <1>8 DEF C, P, Q, c

(***************************************************************************)
(* Committing applies the event to the state which the machine is in, and  *)
(* requests exactly the actions that finito::advance returns.              *)
(***************************************************************************)
LEMMA CommitAdvances ==
  ASSUME IInv, NEW t \in Threads, Apply(t)
  PROVE  /\ machine[t] \in Machines /\ event[t] \in Events
         /\ Backend!Advance(machine[t], event[t])
<1> DEFINE m == machine[t]
           e == event[t]
           next == AdvanceFSM[<<read[t], e>>]
           rows == [i \in DOMAIN next.actions |->
                      [machine |-> m, event |-> Len(events[m]) + 1,
                       kind |-> next.actions[i], status |-> "Pending"]]
           asked == [i \in DOMAIN next.actions |-> [machine |-> m, kind |-> next.actions[i]]]
<1>1. m \in Machines /\ e \in Events /\ state[m] \in States /\ read[t] = state[m]
  BY CommitTables
<1>2. next.actions \in Seq(Kinds) /\ Len(next.actions) \in Nat
  BY <1>1, NextTyped
<1>3. state[m] # NoState /\ state' = [state EXCEPT ![m] = next.state]
  BY <1>1, NoneAssumption DEF Apply
<1>4. events' = [events EXCEPT ![m] = Append(@, e)]
  BY DEF Apply
<1>5. requestedBar' = requestedBar \o asked
  <2>1. actions' = actions \o rows /\ actions \in Seq(ActionRows)
    BY DEF Apply, IInv, TablesTyped
  <2>2. rows \in Seq(ActionRows)
    BY CommitTables
  <2>3. Requests(rows) = asked
    BY <1>2 DEF Requests
  <2>4. requestedBar' = Requests(actions') /\ requestedBar = Requests(actions)
    BY DEF requestedBar, Requests
  <2> HIDE DEF rows
  <2> QED BY <2>1, <2>2, <2>3, <2>4, RequestsOfConcatenation
<1>6. Backend!Advance(m, e)
  BY <1>1, <1>3, <1>4, <1>5 DEF Backend!Advance, requestedBar
<1> QED BY <1>1, <1>6

(***************************************************************************)
(* A step that leaves the tables alone, or only touches the status of an   *)
(* action, changes nothing that the backend promises.                      *)
(***************************************************************************)
LEMMA QuietStep ==
  ASSUME UNCHANGED <<state, events>>, requestedBar' = requestedBar
  PROVE  UNCHANGED <<state, events, requestedBar>>
OBVIOUS

(*****************************************************************************)
(* Every step of finito-postgres is a step of the abstract backend or        *)
(* changes nothing that the backend promises.                                *)
(*****************************************************************************)
LEMMA RefinementStep ==
  ASSUME IInv, [Next]_vars
  PROVE  Backend!Next \/ UNCHANGED <<state, events, requestedBar>>
<1>1. ASSUME NEW m \in Machines, NEW s \in Initial, InsertMachine(m, s)
      PROVE  Backend!InsertMachine(m, s) /\ s \in States
  BY <1>1, FSMAssumption DEF InsertMachine, Backend!InsertMachine, requestedBar
<1>2. ASSUME NEW t \in Threads, Commit(t) \/ CommitUnacknowledged(t) PROVE Backend!Next
  <2>0. Apply(t)
    BY <1>2 DEF Commit, CommitUnacknowledged
  <2>1. machine[t] \in Machines /\ event[t] \in Events /\ Backend!Advance(machine[t], event[t])
    BY <2>0, CommitAdvances
  <2>2. PICK m \in Machines, e \in Events : m = machine[t] /\ e = event[t]
    BY <2>1
  <2>3. Backend!Advance(m, e)
    BY <2>1, <2>2 DEF Backend!Advance
  <2> QED BY <2>3 DEF Backend!Next
<1>3. ASSUME NEW t \in Threads, RecordStatus(t) PROVE UNCHANGED <<state, events, requestedBar>>
  BY <1>3, StatusStep, QuietStep DEF RecordStatus
<1>4. ASSUME UNCHANGED tableVars PROVE UNCHANGED <<state, events, requestedBar>>
  BY <1>4 DEF tableVars, requestedBar
<1>5. ASSUME NEW t \in Threads, Run(t)
      PROVE  Commit(t) \/ CommitUnacknowledged(t) \/ RecordStatus(t) \/ UNCHANGED tableVars
  BY <1>5 DEF Run, Begin, ReadState, NotFound, PoolTimeout, AdvanceFails, RunActions, GetAction,
              Act, ActFails, ActPanics, RunActionFails, NextEvent, Return
<1>6. ASSUME NEW t \in Threads, NEW m \in Machines, NEW e \in Events, Call(t, m, e)
      PROVE  UNCHANGED tableVars
  BY <1>6 DEF Call
<1>7. Crash \/ UNCHANGED vars => UNCHANGED tableVars
  BY DEF Crash, vars, tableVars
<1> QED BY <1>1, <1>2, <1>3, <1>4, <1>5, <1>6, <1>7 DEF Next, Backend!Next

(***************************************************************************)
(* finito-postgres implements FSMBackend: under all interleavings, errors  *)
(* and crashes the stored state of a machine is what its stored events     *)
(* make of it one after the other, and its actions are the ones they ask   *)
(* for.                                                                    *)
(***************************************************************************)
THEOREM Refinement == Spec => ImplementsFSMBackend
<1>1. Init => Backend!Init
  BY DEF Init, Backend!Init
<1>2. IInv /\ [Next]_vars => [Backend!Next]_(Backend!vars)
  BY RefinementStep DEF Backend!vars, requestedBar
<1> QED BY <1>1, <1>2, Invariant, PTL DEF Spec, ImplementsFSMBackend, Backend!Spec

SameEvent(r, s) == r.machine = s.machine /\ r.event = s.event

(* Every loop runs through its actions in the order of their ids. *)
Sorted ==
  \A t \in Threads : \A k \in DOMAIN loops[t] : \A i, j \in DOMAIN loops[t][k].todo :
    i < j => loops[t][k].todo[i] < loops[t][k].todo[j]

(* Different loops have the actions of different events. *)
Apart ==
  \A t, u \in Threads : \A k \in DOMAIN loops[t], l \in DOMAIN loops[u] :
    t # u \/ k # l =>
      \A i \in DOMAIN loops[t][k].todo, j \in DOMAIN loops[u][l].todo :
        ~SameEvent(actions[loops[t][k].todo[i]], actions[loops[u][l].todo[j]])

(* Rows refer to events that were stored. *)
Numbered == \A a \in DOMAIN actions : actions[a].event <= Len(events[actions[a].machine])

(* What is left to do of an event comes after what was performed of it,    *)
(* but for the action whose outcome has not been recorded.                 *)
Ahead ==
  \A t \in Threads : \A k \in DOMAIN loops[t] : \A i \in DOMAIN loops[t][k].todo :
    \A a \in Performed :
      SameEvent(actions[a], actions[loops[t][k].todo[i]]) =>
        \/ a < loops[t][k].todo[i]
        \/ a = loops[t][k].todo[i] /\ k = 1 /\ i = 1 /\ At(t, "record")

CompletedActed ==
  \A t \in Threads : At(t, "record") /\ outcome[t].status = "Completed" => Action(t) \in Performed

OrderInv == Sorted /\ Apart /\ Numbered /\ Ahead /\ EffectsInOrder

--------------------------------------------------------------------------------
(***************************************************************************)
(* A step that starts no loop leaves a thread with loops that it had, each *)
(* with the actions that it had or all of them but the first; an action    *)
(* whose outcome was to be recorded leaves its loop when it is not any     *)
(* more.                                                                   *)
(***************************************************************************)
LoopsShrink(t) ==
  \E d \in {0, 1} : \A k \in DOMAIN loops'[t] : \E e \in {0, 1} :
    /\ k + d \in DOMAIN loops[t]
    /\ \A i \in DOMAIN loops'[t][k].todo :
         /\ i + e \in DOMAIN loops[t][k + d].todo
         /\ loops'[t][k].todo[i] = loops[t][k + d].todo[i + e]
    /\ At(t, "record") /\ k + d = 1 /\ e = 0 => At(t, "record")'

RowsStay ==
  \A a \in DOMAIN actions :
    /\ a \in DOMAIN actions'
    /\ actions'[a].machine = actions[a].machine
    /\ actions'[a].event = actions[a].event

(***************************************************************************)
(* The places in a stack of loops are numbers, and they hold ids.          *)
(***************************************************************************)
LEMMA Places ==
  ASSUME NEW Ids, NEW stack \in Seq([todo : Seq(Ids), events : Seq(Events)]), NEW k \in DOMAIN stack
  PROVE  /\ k \in Nat /\ k >= 1
         /\ stack[k].todo \in Seq(Ids)
         /\ \A i \in DOMAIN stack[k].todo : i \in Nat /\ i >= 1 /\ stack[k].todo[i] \in Ids
<1> DEFINE S == [todo : Seq(Ids), events : Seq(Events)]
<1>1. k \in Nat /\ k >= 1 /\ stack[k] \in S
  <2>1. stack \in Seq(S)
    OBVIOUS
  <2> HIDE DEF S
  <2> QED BY <2>1
<1>2. stack[k].todo \in Seq(Ids)
  BY <1>1
<1> QED BY <1>1, <1>2

(***************************************************************************)
(* Loops that only shrink stay sorted and keep to different events.        *)
(***************************************************************************)
LEMMA ShrinkKeepsApart ==
  ASSUME LoopsTyped, LoopsTyped', \A t \in Threads : LoopsShrink(t), RowsStay, Sorted, Apart
  PROVE  Sorted' /\ Apart'
<1>1. Sorted'
  <2> SUFFICES ASSUME NEW t \in Threads, NEW k \in DOMAIN loops'[t],
                      NEW i \in DOMAIN loops'[t][k].todo, NEW j \in DOMAIN loops'[t][k].todo, i < j
               PROVE  loops'[t][k].todo[i] < loops'[t][k].todo[j]
    BY DEF Sorted
  <2>1. PICK d \in {0, 1}, e \in {0, 1} :
          /\ k + d \in DOMAIN loops[t]
          /\ \A n \in DOMAIN loops'[t][k].todo :
               /\ n + e \in DOMAIN loops[t][k + d].todo
               /\ loops'[t][k].todo[n] = loops[t][k + d].todo[n + e]
    BY DEF LoopsShrink
  <2>2. i + e < j + e
    <3>1. loops'[t] \in Seq(Loops')
      BY DEF LoopsTyped
    <3>2. i \in Nat /\ j \in Nat
      BY <3>1, Places DEF Loops
    <3> QED BY <3>2
  <2> QED BY <2>1, <2>2 DEF Sorted
<1>2. Apart'
  <2> SUFFICES ASSUME NEW t \in Threads, NEW u \in Threads,
                      NEW k \in DOMAIN loops'[t], NEW l \in DOMAIN loops'[u], t # u \/ k # l,
                      NEW i \in DOMAIN loops'[t][k].todo, NEW j \in DOMAIN loops'[u][l].todo
               PROVE  ~SameEvent(actions'[loops'[t][k].todo[i]], actions'[loops'[u][l].todo[j]])
    BY DEF Apart
  <2>0. k \in Nat /\ l \in Nat
    <3>1. loops'[t] \in Seq(Loops') /\ loops'[u] \in Seq(Loops')
      BY DEF LoopsTyped
    <3> QED BY <3>1
  <2>1. PICK m, n : /\ m \in DOMAIN loops[t] /\ n \in DOMAIN loops[u]
                    /\ t # u \/ m # n
                    /\ \E x \in DOMAIN loops[t][m].todo : loops'[t][k].todo[i] = loops[t][m].todo[x]
                    /\ \E y \in DOMAIN loops[u][n].todo : loops'[u][l].todo[j] = loops[u][n].todo[y]
    <3>1. CASE t # u
      <4>1. PICK d \in {0, 1}, e \in {0, 1} :
              /\ k + d \in DOMAIN loops[t]
              /\ i + e \in DOMAIN loops[t][k + d].todo
              /\ loops'[t][k].todo[i] = loops[t][k + d].todo[i + e]
        BY DEF LoopsShrink
      <4>2. PICK c \in {0, 1}, b \in {0, 1} :
              /\ l + c \in DOMAIN loops[u]
              /\ j + b \in DOMAIN loops[u][l + c].todo
              /\ loops'[u][l].todo[j] = loops[u][l + c].todo[j + b]
        BY DEF LoopsShrink
      <4> QED BY <3>1, <4>1, <4>2
    <3>2. CASE t = u
      <4>1. PICK d \in {0, 1} : \A q \in DOMAIN loops'[t] : \E e \in {0, 1} :
                /\ q + d \in DOMAIN loops[t]
                /\ \A x \in DOMAIN loops'[t][q].todo :
                     /\ x + e \in DOMAIN loops[t][q + d].todo
                     /\ loops'[t][q].todo[x] = loops[t][q + d].todo[x + e]
        BY DEF LoopsShrink
      <4>2. k + d # l + d
        BY <2>0, <3>2
      <4>3. PICK e \in {0, 1} :
              /\ k + d \in DOMAIN loops[t]
              /\ i + e \in DOMAIN loops[t][k + d].todo
              /\ loops'[t][k].todo[i] = loops[t][k + d].todo[i + e]
        BY <4>1
      <4>4. PICK b \in {0, 1} :
              /\ l + d \in DOMAIN loops[u]
              /\ j + b \in DOMAIN loops[u][l + d].todo
              /\ loops'[u][l].todo[j] = loops[u][l + d].todo[j + b]
        BY <3>2, <4>1
      <4> QED BY <4>2, <4>3, <4>4
    <3> QED BY <3>1, <3>2
  <2>2. PICK x \in DOMAIN loops[t][m].todo, y \in DOMAIN loops[u][n].todo :
             /\ loops'[t][k].todo[i] = loops[t][m].todo[x]
             /\ loops'[u][l].todo[j] = loops[u][n].todo[y]
    BY <2>1
  <2>3. ~SameEvent(actions[loops[t][m].todo[x]], actions[loops[u][n].todo[y]])
    BY <2>1 DEF Apart
  <2>4. loops[t][m].todo[x] \in DOMAIN actions /\ loops[u][n].todo[y] \in DOMAIN actions
    <3>1. loops[t] \in Seq(Loops) /\ loops[u] \in Seq(Loops)
      BY DEF LoopsTyped
    <3> QED BY <2>1, <3>1, Places DEF Loops
  <2> QED BY <2>2, <2>3, <2>4 DEF SameEvent, RowsStay
<1> QED BY <1>1, <1>2

(***************************************************************************)
(* What is left in loops that shrink still comes after what was performed. *)
(***************************************************************************)
LEMMA ShrinkKeepsAhead ==
  ASSUME LoopsTyped, LoopsTyped', \A t \in Threads : LoopsShrink(t), RowsStay, effects' = effects, Ahead
  PROVE  Ahead'
<1> SUFFICES ASSUME NEW t \in Threads, NEW k \in DOMAIN loops'[t], NEW i \in DOMAIN loops'[t][k].todo,
                    NEW a \in Performed', SameEvent(actions'[a], actions'[loops'[t][k].todo[i]])
             PROVE  \/ a < loops'[t][k].todo[i]
                    \/ a = loops'[t][k].todo[i] /\ k = 1 /\ i = 1 /\ At(t, "record")'
  BY DEF Ahead
<1>1. PICK d \in {0, 1}, e \in {0, 1} :
          /\ k + d \in DOMAIN loops[t]
          /\ i + e \in DOMAIN loops[t][k + d].todo
          /\ loops'[t][k].todo[i] = loops[t][k + d].todo[i + e]
          /\ At(t, "record") /\ k + d = 1 /\ e = 0 => At(t, "record")'
  BY DEF LoopsShrink
<1>2. k \in Nat /\ k >= 1 /\ i \in Nat /\ i >= 1
  <2>1. loops'[t] \in Seq(Loops')
    BY DEF LoopsTyped
  <2> QED BY <2>1, Places DEF Loops
<1>3. a \in Performed /\ a \in DOMAIN actions
  BY DEF Performed, LoopsTyped
<1>4. loops[t][k + d].todo[i + e] \in DOMAIN actions
  <2>1. loops[t] \in Seq(Loops)
    BY DEF LoopsTyped
  <2> QED BY <1>1, <2>1, Places DEF Loops
<1>5. SameEvent(actions[a], actions[loops[t][k + d].todo[i + e]])
  BY <1>1, <1>3, <1>4 DEF SameEvent, RowsStay
<1>6. \/ a < loops[t][k + d].todo[i + e]
      \/ a = loops[t][k + d].todo[i + e] /\ k + d = 1 /\ i + e = 1 /\ At(t, "record")
  BY <1>1, <1>3, <1>5 DEF Ahead
<1> QED BY <1>1, <1>2, <1>6

(***************************************************************************)
(* The places in the loops of a thread are numbers, and they hold ids of   *)
(* rows of the table actions.                                              *)
(***************************************************************************)
LEMMA LoopPlaces ==
  ASSUME LoopsTyped, NEW t \in Threads, NEW k \in DOMAIN loops[t]
  PROVE  /\ k \in Nat /\ k >= 1 /\ k + 0 = k
         /\ loops[t][k].todo \in Seq(DOMAIN actions)
         /\ \A i \in DOMAIN loops[t][k].todo :
              i \in Nat /\ i >= 1 /\ i + 0 = i /\ loops[t][k].todo[i] \in DOMAIN actions
<1>1. loops[t] \in Seq(Loops)
  BY DEF LoopsTyped
<1>2. /\ k \in Nat /\ k >= 1 /\ loops[t][k].todo \in Seq(DOMAIN actions)
      /\ \A i \in DOMAIN loops[t][k].todo :
            i \in Nat /\ i >= 1 /\ loops[t][k].todo[i] \in DOMAIN actions
  BY <1>1, Places DEF Loops
<1> QED BY <1>2

(***************************************************************************)
(* Which threads' loops shrink: those of a thread that did nothing to      *)
(* them, those of a thread whose call has ended or returned to the loop    *)
(* around it, and those of a thread that is done with an action.           *)
(***************************************************************************)
LEMMA UntouchedShrinks ==
  ASSUME LoopsTyped, NEW t \in Threads, loops'[t] = loops[t], At(t, "record") => At(t, "record")'
  PROVE  LoopsShrink(t)
BY LoopPlaces DEF LoopsShrink

(***************************************************************************)
(* A call that has ended has no loops.                                     *)
(***************************************************************************)
LEMMA EndedShrinks ==
  ASSUME NEW t \in Threads, loops'[t] = <<>>
  PROVE  LoopsShrink(t)
BY DEF LoopsShrink

(***************************************************************************)
(* A nested call that returns leaves the loops around it.                  *)
(***************************************************************************)
LEMMA ReturnedShrinks ==
  ASSUME LoopsTyped, NEW t \in Threads, loops[t] # <<>>, loops'[t] = Tail(loops[t])
  PROVE  LoopsShrink(t)
<1>1. loops[t] \in Seq(Loops)
  BY DEF LoopsTyped
<1>2. \A k \in DOMAIN loops'[t] : k \in Nat /\ k >= 1 /\ k + 1 \in DOMAIN loops[t] /\ loops'[t][k] = loops[t][k + 1]
  BY <1>1
<1>3. \A k \in DOMAIN loops'[t] : \A i \in DOMAIN loops'[t][k].todo : i + 0 = i
  BY <1>2, LoopPlaces
<1> QED BY <1>2, <1>3 DEF LoopsShrink

(***************************************************************************)
(* SetLoop replaces the innermost loop and leaves the loops around it.     *)
(***************************************************************************)
LEMMA SetLoopStack ==
  ASSUME LoopsTyped, NEW t \in Threads, loops[t] # <<>>, NEW loop \in Loops, SetLoop(t, loop)
  PROVE  /\ loops[t] \in Seq(Loops) /\ 1 \in DOMAIN loops[t]
         /\ DOMAIN loops'[t] = DOMAIN loops[t]
         /\ loops'[t][1] = loop /\ Loop(t) = loops[t][1]
         /\ \A k \in DOMAIN loops[t] : k # 1 => loops'[t][k] = loops[t][k]
<1>1. loops[t] \in Seq(Loops)
  BY DEF LoopsTyped
<1>2. loops'[t] = <<loop>> \o Tail(loops[t])
  BY DEF SetLoop, LoopsTyped
<1> QED BY <1>1, <1>2 DEF Loop

(***************************************************************************)
(* The loop whose first action is done has the others left.                *)
(***************************************************************************)
LEMMA DoneShrinks ==
  ASSUME LoopsTyped, NEW t \in Threads, loops[t] # <<>>, Loop(t).todo # <<>>,
         NEW loop \in Loops, SetLoop(t, loop), loop.todo = Tail(Loop(t).todo)
  PROVE  LoopsShrink(t)
<1>1. /\ loops[t] \in Seq(Loops) /\ 1 \in DOMAIN loops[t] /\ DOMAIN loops'[t] = DOMAIN loops[t]
      /\ loops'[t][1].todo = Tail(loops[t][1].todo) /\ loops[t][1].todo # <<>>
      /\ \A k \in DOMAIN loops[t] : k # 1 => loops'[t][k] = loops[t][k]
  BY SetLoopStack
<1>2. \A k \in DOMAIN loops[t] : k >= 1 /\ k + 0 = k /\ \A i \in DOMAIN loops[t][k].todo : i + 0 = i
  BY LoopPlaces
<1>3. \A i \in DOMAIN loops'[t][1].todo :
        i + 1 \in DOMAIN loops[t][1].todo /\ loops'[t][1].todo[i] = loops[t][1].todo[i + 1]
  <2>1. loops[t][1].todo \in Seq(DOMAIN actions)
    BY <1>1, Places DEF Loops
  <2> QED BY <1>1, <2>1
<1>4. ASSUME NEW k \in DOMAIN loops'[t]
      PROVE  \E e \in {0, 1} :
               /\ k + 0 \in DOMAIN loops[t]
               /\ \A i \in DOMAIN loops'[t][k].todo :
                    /\ i + e \in DOMAIN loops[t][k + 0].todo
                    /\ loops'[t][k].todo[i] = loops[t][k + 0].todo[i + e]
               /\ At(t, "record") /\ k + 0 = 1 /\ e = 0 => At(t, "record")'
  <2>1. CASE k = 1
    <3>1. /\ k + 0 \in DOMAIN loops[t]
          /\ \A i \in DOMAIN loops'[t][k].todo :
               /\ i + 1 \in DOMAIN loops[t][k + 0].todo
               /\ loops'[t][k].todo[i] = loops[t][k + 0].todo[i + 1]
      BY <1>1, <1>2, <1>3, <2>1
    <3>2. 1 \in {0, 1} /\ 1 # 0
      OBVIOUS
    <3> QED BY <3>1, <3>2
  <2>2. CASE k # 1
    BY <1>1, <1>2, <2>2
  <2> QED BY <2>1, <2>2
<1> QED BY <1>4 DEF LoopsShrink

(***************************************************************************)
(* Taking the next event of an action leaves the actions of its loop.      *)
(***************************************************************************)
LEMMA NextEventShrinks ==
  ASSUME LoopsTyped, NEW t \in Threads, loops[t] # <<>>, ~At(t, "record"),
         NEW loop \in Loops, SetLoop(t, loop), loop.todo = Loop(t).todo
  PROVE  LoopsShrink(t)
<1>1. /\ loops[t] \in Seq(Loops) /\ 1 \in DOMAIN loops[t] /\ DOMAIN loops'[t] = DOMAIN loops[t]
      /\ loops'[t][1].todo = loops[t][1].todo
      /\ \A k \in DOMAIN loops[t] : k # 1 => loops'[t][k] = loops[t][k]
  BY SetLoopStack
<1>2. \A k \in DOMAIN loops[t] : k >= 1 /\ k + 0 = k /\ \A i \in DOMAIN loops[t][k].todo : i + 0 = i
  BY LoopPlaces
<1> QED BY <1>1, <1>2 DEF LoopsShrink

(***************************************************************************)
(* What a step that starts no loop and performs nothing keeps, when it     *)
(* does not touch the other threads.                                       *)
(***************************************************************************)
LEMMA OthersShrink ==
  ASSUME LoopsTyped, NEW t \in Threads, LoopsShrink(t),
         \A u \in Threads \ {t} : loops'[u] = loops[u] /\ (At(u, "record") => At(u, "record")')
  PROVE  \A u \in Threads : LoopsShrink(u)
<1>1. ASSUME NEW u \in Threads \ {t} PROVE LoopsShrink(u)
  BY <1>1, UntouchedShrinks
<1> QED BY <1>1

(***************************************************************************)
(* The statuses are not part of what the order of effects is about.        *)
(***************************************************************************)
LEMMA OrderStays ==
  ASSUME RowsStay, LoopsTyped, effects' = effects, EffectsInOrder
  PROVE  EffectsInOrder'
<1>1. \A i \in DOMAIN effects : effects[i] \in DOMAIN actions
  BY DEF LoopsTyped
<1> QED BY <1>1 DEF EffectsInOrder, RowsStay

(***************************************************************************)
(* A step that adds no row and no event leaves rows referring to stored    *)
(* events.                                                                 *)
(***************************************************************************)
LEMMA NumberedStays ==
  ASSUME RowsStay, DOMAIN actions' = DOMAIN actions, UNCHANGED events, Numbered
  PROVE  Numbered'
BY DEF Numbered, RowsStay

(***************************************************************************)
(* Performing the action that the innermost loop is at.                    *)
(***************************************************************************)
LEMMA PerformAction ==
  ASSUME IInv, Ahead, EffectsInOrder, NEW t \in Threads, At(t, "act"),
         UNCHANGED actions, effects' = Append(effects, Action(t))
  PROVE  /\ EffectsInOrder'
         /\ Action(t) \in DOMAIN actions
         /\ Action(t) = loops[t][1].todo[1] /\ 1 \in DOMAIN loops[t] /\ 1 \in DOMAIN loops[t][1].todo
         /\ Performed' = Performed \union {Action(t)}
<1> DEFINE a == Action(t)
<1>1. loops[t] # <<>> /\ Loop(t).todo # <<>> /\ LoopsTyped
  BY DEF IInv, Calling, At
<1>2. /\ a \in DOMAIN actions
      /\ a = loops[t][1].todo[1] /\ 1 \in DOMAIN loops[t] /\ 1 \in DOMAIN loops[t][1].todo
  <2>1. loops[t] \in Seq(Loops)
    BY <1>1 DEF LoopsTyped
  <2>2. 1 \in DOMAIN loops[t] /\ Loop(t) = loops[t][1]
    BY <1>1, <2>1 DEF Loop
  <2>3. loops[t][1].todo \in Seq(DOMAIN actions) /\ loops[t][1].todo # <<>>
    BY <1>1, <2>2, LoopPlaces
  <2> QED BY <2>2, <2>3 DEF Action
<1>3. \A b \in Performed : SameEvent(actions[b], actions[a]) => b < a
  BY <1>2 DEF Ahead, At
<1>4. /\ effects \in Seq(DOMAIN actions) /\ Len(effects) \in Nat
      /\ DOMAIN effects' = 1..(Len(effects) + 1) /\ DOMAIN effects = 1..Len(effects)
      /\ effects'[Len(effects) + 1] = a
      /\ \A i \in 1..Len(effects) : effects'[i] = effects[i]
  BY <1>1, <1>2 DEF LoopsTyped
<1>5. EffectsInOrder'
  <2> SUFFICES ASSUME NEW i \in DOMAIN effects', NEW j \in DOMAIN effects',
                      actions[effects'[i]].machine = actions[effects'[j]].machine,
                      actions[effects'[i]].event = actions[effects'[j]].event, i < j
               PROVE  effects'[i] < effects'[j]
    BY DEF EffectsInOrder
  <2>1. i \in 1..Len(effects)
    BY <1>4
  <2>2. CASE j \in 1..Len(effects)
    BY <1>4, <2>1, <2>2 DEF EffectsInOrder
  <2>3. CASE j = Len(effects) + 1
    <3>1. effects[i] \in Performed
      BY <1>4, <2>1 DEF Performed
    <3> QED BY <1>3, <1>4, <2>1, <2>3, <3>1 DEF SameEvent
  <2> QED BY <1>4, <2>2, <2>3
<1>6. Performed' = Performed \union {a}
  BY <1>4 DEF Performed
<1> QED BY <1>2, <1>5, <1>6

(***************************************************************************)
(* A step in which loops shrink and nothing is performed keeps the order.  *)
(***************************************************************************)
LEMMA QuietOrder ==
  ASSUME IInv, IInv', OrderInv, \A u \in Threads : LoopsShrink(u),
         RowsStay, DOMAIN actions' = DOMAIN actions, UNCHANGED <<events, effects>>
  PROVE  OrderInv'
<1>1. LoopsTyped /\ LoopsTyped'
  BY DEF IInv
<1>2. Sorted' /\ Apart' /\ Ahead'
  BY <1>1, ShrinkKeepsApart, ShrinkKeepsAhead DEF OrderInv
<1>3. Numbered' /\ EffectsInOrder'
  BY <1>1, NumberedStays, OrderStays DEF OrderInv
<1> QED BY <1>2, <1>3 DEF OrderInv

(***************************************************************************)
(* The same for a step of one thread.                                      *)
(***************************************************************************)
LEMMA ThreadOrder ==
  ASSUME IInv, IInv', OrderInv, NEW t \in Threads, LoopsShrink(t),
         \A u \in Threads \ {t} : loops'[u] = loops[u] /\ pc'[u] = pc[u],
         RowsStay, DOMAIN actions' = DOMAIN actions, UNCHANGED <<events, effects>>
  PROVE  OrderInv'
<1>1. \A u \in Threads : LoopsShrink(u)
  BY OthersShrink DEF IInv, At
<1> QED BY <1>1, QuietOrder

(***************************************************************************)
(* Performing an action, whatever becomes of the call, keeps the order.    *)
(***************************************************************************)
LEMMA ActedOrder ==
  ASSUME IInv, IInv', OrderInv, NEW t \in Threads, At(t, "act"),
         UNCHANGED <<actions, events>>, effects' = Append(effects, Action(t)),
         \A u \in Threads \ {t} : loops'[u] = loops[u] /\ pc'[u] = pc[u],
         loops'[t] = <<>> \/ (loops'[t] = loops[t] /\ At(t, "record")')
  PROVE  OrderInv'
<1> DEFINE a == Action(t)
<1>1. LoopsTyped /\ LoopsTyped' /\ RowsStay
  BY DEF IInv, RowsStay
<1>2. LoopsShrink(t)
  BY <1>1, EndedShrinks, UntouchedShrinks DEF At
<1>3. \A u \in Threads : LoopsShrink(u)
  BY <1>1, <1>2, OthersShrink DEF At
<1>4. Sorted' /\ Apart' /\ Numbered'
  BY <1>1, <1>3, ShrinkKeepsApart, NumberedStays DEF OrderInv
<1>5. /\ EffectsInOrder' /\ a \in DOMAIN actions /\ Performed' = Performed \union {a}
      /\ a = loops[t][1].todo[1] /\ 1 \in DOMAIN loops[t] /\ 1 \in DOMAIN loops[t][1].todo
  BY PerformAction DEF OrderInv
<1>6. Ahead'
  <2> SUFFICES ASSUME NEW u \in Threads, NEW k \in DOMAIN loops'[u], NEW i \in DOMAIN loops'[u][k].todo,
                      NEW b \in Performed', SameEvent(actions'[b], actions'[loops'[u][k].todo[i]])
               PROVE  \/ b < loops'[u][k].todo[i]
                      \/ b = loops'[u][k].todo[i] /\ k = 1 /\ i = 1 /\ At(u, "record")'
    BY DEF Ahead
  <2>1. loops'[u] = loops[u] /\ k \in DOMAIN loops[u] /\ i \in DOMAIN loops[u][k].todo
    BY EndedShrinks
  <2>2. /\ u = t => At(u, "record")' /\ ~At(u, "record")
        /\ u # t => (At(u, "record")' <=> At(u, "record"))
    BY <2>1 DEF At
  <2>3. CASE b \in Performed
    BY <2>1, <2>2, <2>3 DEF Ahead, OrderInv
  <2>4. CASE b = a /\ (u # t \/ k # 1)
    <3>1. SameEvent(actions[loops[u][k].todo[i]], actions[loops[t][1].todo[1]])
      BY <1>5, <2>1, <2>4 DEF SameEvent
    <3> QED BY <1>5, <2>1, <2>4, <3>1 DEF OrderInv, Apart
  <2>5. CASE b = a /\ u = t /\ k = 1
    <3>1. i \in Nat /\ i >= 1
      BY <1>1, <2>1, LoopPlaces
    <3>2. i # 1 => a < loops[t][1].todo[i]
      BY <1>5, <2>1, <2>5, <3>1 DEF OrderInv, Sorted
    <3> QED BY <1>5, <2>1, <2>2, <2>5, <3>2
  <2> QED BY <1>5, <2>3, <2>4, <2>5
<1> QED BY <1>4, <1>5, <1>6 DEF OrderInv

--------------------------------------------------------------------------------
(***************************************************************************)
(* The rows that advance adds are those of an event that had none, so they *)
(* belong to no loop and none of them was performed.                       *)
(***************************************************************************)
LEMMA NewRows ==
  ASSUME IInv, Numbered, NEW t \in Threads, Apply(t)
  PROVE  LET n == Len(AdvanceFSM[<<read[t], event[t]>>].actions)
         IN  /\ RowsStay /\ Numbered'
             /\ n \in Nat /\ Len(actions) \in Nat
             /\ DOMAIN actions = 1..Len(actions) /\ DOMAIN actions' = 1..(Len(actions) + n)
             /\ \A a \in DOMAIN actions : actions'[a] = actions[a]
             /\ \A i \in 1..n : actions'[Len(actions) + i].status = "Pending"
             /\ \A i \in 1..n, a \in DOMAIN actions :
                  ~SameEvent(actions'[a], actions'[Len(actions) + i])
<1> DEFINE n == Len(AdvanceFSM[<<read[t], event[t]>>].actions)
           m == machine[t]
           row(i) == [machine |-> m, event |-> Len(events[m]) + 1,
                      kind |-> AdvanceFSM[<<read[t], event[t]>>].actions[i], status |-> "Pending"]
           rows == [i \in DOMAIN AdvanceFSM[<<read[t], event[t]>>].actions |-> row(i)]
<1>1. /\ m \in Machines /\ event[t] \in Events /\ rows \in Seq(ActionRows)
      /\ read[t] \in States
      /\ TablesTyped /\ TablesTyped' /\ n \in Nat /\ Len(actions) \in Nat /\ Len(actions') = Len(actions) + n
  BY CommitTables DEF IInv
<1>2. actions' = actions \o rows /\ events' = [events EXCEPT ![m] = Append(@, event[t])]
  BY DEF Apply
<1>3. DOMAIN rows = 1..n /\ \A i \in 1..n : rows[i] = row(i)
  BY <1>1, NextTyped
<1>4. actions \in Seq(ActionRows)
  BY <1>1 DEF TablesTyped
<1>5. /\ DOMAIN actions = 1..Len(actions) /\ DOMAIN actions' = 1..(Len(actions) + n)
      /\ \A a \in DOMAIN actions : actions'[a] = actions[a]
      /\ \A i \in 1..n : actions'[Len(actions) + i] = row(i)
  <2>1. Len(rows) = n
    BY <1>1, <1>3
  <2>2. \A i \in 1..n : rows[i] = row(i)
    BY <1>3
  <2> HIDE DEF rows, row
  <2>3. /\ actions \o rows \in Seq(ActionRows)
        /\ \A i \in 1..Len(actions) : (actions \o rows)[i] = actions[i]
        /\ \A i \in 1..Len(rows) : (actions \o rows)[Len(actions) + i] = rows[i]
    BY <1>1, <1>4, Concatenation
  <2>4. DOMAIN actions = 1..Len(actions) /\ DOMAIN actions' = 1..Len(actions')
    BY <1>2, <1>4, <2>3
  <2> HIDE DEF n, m
  <2> QED BY <1>1, <1>2, <2>1, <2>2, <2>3, <2>4
<1> HIDE DEF rows, n
<1>6. RowsStay
  <2>1. DOMAIN actions \subseteq DOMAIN actions'
    BY <1>1, <1>5
  <2> QED BY <1>5, <2>1 DEF RowsStay
<1>7. \A i \in 1..n : /\ actions'[Len(actions) + i].machine = m
                      /\ actions'[Len(actions) + i].event = Len(events[m]) + 1
                      /\ actions'[Len(actions) + i].status = "Pending"
  <2> SUFFICES ASSUME NEW i \in 1..n
               PROVE  LET r == actions'[Len(actions) + i]
                      IN  r.machine = m /\ r.event = Len(events[m]) + 1 /\ r.status = "Pending"
    OBVIOUS
  <2>1. actions'[Len(actions) + i] = row(i)
    BY <1>5
  <2>2. row(i).machine = m /\ row(i).event = Len(events[m]) + 1 /\ row(i).status = "Pending"
    OBVIOUS
  <2> HIDE DEF row, m
  <2> QED BY <2>1, <2>2
<1>8. /\ \A x \in Machines : events[x] \in Seq(Events)
      /\ \A x \in Machines : /\ Len(events[x]) \in Nat /\ Len(events'[x]) \in Nat
                             /\ Len(events[x]) <= Len(events'[x])
      /\ Len(events'[m]) = Len(events[m]) + 1
  BY <1>1, <1>2 DEF TablesTyped
<1>9. \A a \in DOMAIN actions : actions[a].machine \in Machines /\ actions[a].event \in Nat
  <2>1. \A a \in DOMAIN actions : actions[a] \in ActionRows
    BY <1>4
  <2> QED BY <2>1 DEF ActionRows
<1> HIDE DEF row, m
<1>10. \A i \in 1..n, a \in DOMAIN actions : ~SameEvent(actions'[a], actions'[Len(actions) + i])
  <2> SUFFICES ASSUME NEW i \in 1..n, NEW a \in DOMAIN actions,
                      SameEvent(actions'[a], actions'[Len(actions) + i])
               PROVE  FALSE
    OBVIOUS
  <2>1. actions[a].machine = m /\ actions[a].event = Len(events[m]) + 1
    BY <1>5, <1>7 DEF SameEvent
  <2>2. actions[a].event <= Len(events[m])
    BY <2>1 DEF Numbered
  <2> QED BY <1>1, <1>8, <2>1, <2>2
<1>11. Numbered'
  <2> SUFFICES ASSUME NEW a \in DOMAIN actions'
               PROVE  actions'[a].event <= Len(events'[actions'[a].machine])
    BY DEF Numbered
  <2>1. CASE a \in DOMAIN actions
    <3>1. actions'[a] = actions[a] /\ actions[a].event <= Len(events[actions[a].machine])
      BY <1>5, <2>1 DEF Numbered
    <3>2. actions[a].machine \in Machines /\ actions[a].event \in Nat
      BY <1>9, <2>1
    <3>3. /\ Len(events[actions[a].machine]) \in Nat /\ Len(events'[actions[a].machine]) \in Nat
          /\ Len(events[actions[a].machine]) <= Len(events'[actions[a].machine])
      BY <1>8, <3>2
    <3> QED BY <3>1, <3>2, <3>3
  <2>2. CASE a \notin DOMAIN actions
    <3>1. PICK i \in 1..n : a = Len(actions) + i
      <4>1. a - Len(actions) \in 1..n /\ a = Len(actions) + (a - Len(actions))
        BY <1>1, <1>5, <2>2
      <4> QED BY <4>1
    <3>2. actions'[a].machine = m /\ actions'[a].event = Len(events[m]) + 1
      BY <1>7, <3>1
    <3>3. Len(events[m]) \in Nat
      BY <1>1, <1>8
    <3> QED BY <1>8, <3>2, <3>3
  <2> QED BY <2>1, <2>2
<1>12. \A i \in 1..n : actions'[Len(actions) + i].status = "Pending"
  BY <1>7
<1>13. /\ n \in Nat /\ Len(actions) \in Nat
       /\ DOMAIN actions = 1..Len(actions) /\ DOMAIN actions' = 1..(Len(actions) + n)
       /\ \A a \in DOMAIN actions : actions'[a] = actions[a]
  BY <1>1, <1>5
<1> QED BY <1>6, <1>10, <1>11, <1>12, <1>13 DEF n

(***************************************************************************)
(* A commit whose acknowledgement is lost adds rows that nobody will run.  *)
(***************************************************************************)
LEMMA UnacknowledgedOrder ==
  ASSUME IInv, IInv', OrderInv, NEW t \in Threads, CommitUnacknowledged(t)
  PROVE  OrderInv'
<1>1. LoopsTyped /\ LoopsTyped' /\ RowsStay /\ Numbered'
  BY NewRows DEF IInv, OrderInv, CommitUnacknowledged
<1>2. /\ effects' = effects /\ loops'[t] = <<>>
      /\ \A u \in Threads \ {t} : loops'[u] = loops[u] /\ (At(u, "record") => At(u, "record")')
  BY <1>1 DEF CommitUnacknowledged, Abandon, LoopsTyped, IInv, CallsTyped, At
<1>3. \A u \in Threads : LoopsShrink(u)
  BY <1>1, <1>2, EndedShrinks, OthersShrink
<1>4. Sorted' /\ Apart' /\ Ahead' /\ EffectsInOrder'
  BY <1>1, <1>2, <1>3, ShrinkKeepsApart, ShrinkKeepsAhead, OrderStays DEF OrderInv
<1> QED BY <1>1, <1>4 DEF OrderInv

(***************************************************************************)
(* The loop that a commit starts comes before the thread's other loops,    *)
(* and has the ids of the new rows.                                        *)
(***************************************************************************)
LEMMA CommitLoops ==
  ASSUME IInv, NEW t \in Threads, Commit(t)
  PROVE  LET n == Len(AdvanceFSM[<<read[t], event[t]>>].actions)
         IN  /\ loops'[t][1].todo = NewIds(n)
             /\ \A k \in DOMAIN loops'[t] :
                  k \in Nat /\ k >= 1 /\ (k # 1 => k - 1 \in DOMAIN loops[t] /\ loops'[t][k] = loops[t][k - 1])
             /\ \A u \in Threads \ {t} : loops'[u] = loops[u] /\ pc'[u] = pc[u]
<1> DEFINE new == [todo |-> NewIds(Len(AdvanceFSM[<<read[t], event[t]>>].actions)), events |-> <<>>]
<1>1. loops[t] \in Seq(Loops) /\ loops' = [loops EXCEPT ![t] = <<new>> \o loops[t]]
  BY DEF Commit, IInv, LoopsTyped
<1>2. loops'[t] = <<new>> \o loops[t] /\ \A u \in Threads \ {t} : loops'[u] = loops[u] /\ pc'[u] = pc[u]
  BY <1>1 DEF Commit, Goto, IInv, LoopsTyped, CallsTyped
<1>3. new.todo = NewIds(Len(AdvanceFSM[<<read[t], event[t]>>].actions))
  OBVIOUS
<1> HIDE DEF new
<1>4. /\ loops'[t][1] = new
      /\ \A k \in DOMAIN loops'[t] :
           k \in Nat /\ k >= 1 /\ (k # 1 => k - 1 \in DOMAIN loops[t] /\ loops'[t][k] = loops[t][k - 1])
  BY <1>1, <1>2
<1> QED BY <1>2, <1>3, <1>4

(***************************************************************************)
(* A commit starts a loop over the new rows, in the order of their ids and *)
(* after everything that was performed.                                    *)
(***************************************************************************)
LEMMA CommitOrder ==
  ASSUME IInv, IInv', OrderInv, NEW t \in Threads, Commit(t)
  PROVE  OrderInv'
<1> DEFINE n == Len(AdvanceFSM[<<read[t], event[t]>>].actions)
           new == NewIds(n)
<1>1. LoopsTyped /\ LoopsTyped' /\ effects' = effects /\ ~At(t, "record") /\ Apply(t)
  BY DEF IInv, Commit, Apply, At
<1>2. /\ RowsStay /\ Numbered' /\ n \in Nat /\ Len(actions) \in Nat
      /\ DOMAIN actions = 1..Len(actions) /\ DOMAIN actions' = 1..(Len(actions) + n)
      /\ \A a \in DOMAIN actions : actions'[a] = actions[a]
      /\ \A i \in 1..n, a \in DOMAIN actions : ~SameEvent(actions'[a], actions'[Len(actions) + i])
  BY <1>1, NewRows DEF OrderInv
<1>3. /\ loops'[t][1].todo = new
      /\ \A k \in DOMAIN loops'[t] :
           k \in Nat /\ k >= 1 /\ (k # 1 => k - 1 \in DOMAIN loops[t] /\ loops'[t][k] = loops[t][k - 1])
      /\ \A u \in Threads \ {t} : loops'[u] = loops[u] /\ pc'[u] = pc[u]
  BY CommitLoops
<1>4. DOMAIN new = 1..n /\ \A i \in 1..n : new[i] = Len(actions) + i
  BY DEF NewIds
<1> HIDE DEF new, n
<1>5. EffectsInOrder'
  BY <1>1, <1>2, OrderStays DEF OrderInv
<1>6. \A u \in Threads : \A k \in DOMAIN loops[u] : \A i \in DOMAIN loops[u][k].todo :
        loops[u][k].todo[i] \in DOMAIN actions
  BY <1>1, LoopPlaces
<1>7. Sorted'
  <2> SUFFICES ASSUME NEW u \in Threads, NEW k \in DOMAIN loops'[u],
                      NEW i \in DOMAIN loops'[u][k].todo, NEW j \in DOMAIN loops'[u][k].todo, i < j
               PROVE  loops'[u][k].todo[i] < loops'[u][k].todo[j]
    BY DEF Sorted
  <2>1. CASE u = t /\ k = 1
    BY <1>2, <1>3, <1>4, <2>1
  <2>2. CASE u = t /\ k # 1
    BY <1>3, <2>2 DEF OrderInv, Sorted
  <2>3. CASE u # t
    BY <1>3, <2>3 DEF OrderInv, Sorted
  <2> QED BY <2>1, <2>2, <2>3
(* A place in the loops holds a new id or is a place there was before. *)
<1>8. ASSUME NEW u \in Threads, NEW k \in DOMAIN loops'[u], NEW i \in DOMAIN loops'[u][k].todo
      PROVE  \/ u = t /\ k = 1 /\ \E x \in 1..n : loops'[u][k].todo[i] = Len(actions) + x
             \/ \E l \in DOMAIN loops[u] :
                  /\ u = t => k # 1 /\ l = k - 1
                  /\ u # t => l = k
                  /\ i \in DOMAIN loops[u][l].todo /\ loops'[u][k].todo[i] = loops[u][l].todo[i]
                  /\ loops[u][l].todo[i] \in DOMAIN actions
  <2>1. CASE u = t /\ k = 1
    BY <1>3, <1>4, <2>1
  <2>2. CASE u = t /\ k # 1
    BY <1>3, <1>6, <2>2
  <2>3. CASE u # t
    BY <1>3, <1>6, <2>3
  <2> QED BY <2>1, <2>2, <2>3
<1>9. Apart'
  <2> SUFFICES ASSUME NEW u \in Threads, NEW v \in Threads,
                      NEW k \in DOMAIN loops'[u], NEW l \in DOMAIN loops'[v], u # v \/ k # l,
                      NEW i \in DOMAIN loops'[u][k].todo, NEW j \in DOMAIN loops'[v][l].todo
               PROVE  ~SameEvent(actions'[loops'[u][k].todo[i]], actions'[loops'[v][l].todo[j]])
    BY DEF Apart
  <2>1. CASE u = t /\ k = 1
    <3>1. PICK x \in 1..n : loops'[u][k].todo[i] = Len(actions) + x
      BY <1>3, <1>4, <2>1
    <3>2. loops'[v][l].todo[j] \in DOMAIN actions
      BY <1>8, <2>1
    <3> QED BY <1>2, <3>1, <3>2 DEF SameEvent
  <2>2. CASE v = t /\ l = 1
    <3>1. PICK x \in 1..n : loops'[v][l].todo[j] = Len(actions) + x
      BY <1>3, <1>4, <2>2
    <3>2. loops'[u][k].todo[i] \in DOMAIN actions
      BY <1>8, <2>2
    <3> QED BY <1>2, <3>1, <3>2
  <2>3. CASE ~(u = t /\ k = 1) /\ ~(v = t /\ l = 1)
    <3>1. PICK p \in DOMAIN loops[u] :
            /\ u = t => k # 1 /\ p = k - 1
            /\ u # t => p = k
            /\ i \in DOMAIN loops[u][p].todo /\ loops'[u][k].todo[i] = loops[u][p].todo[i]
            /\ loops[u][p].todo[i] \in DOMAIN actions
      BY <1>8, <2>3
    <3>2. PICK q \in DOMAIN loops[v] :
            /\ v = t => l # 1 /\ q = l - 1
            /\ v # t => q = l
            /\ j \in DOMAIN loops[v][q].todo /\ loops'[v][l].todo[j] = loops[v][q].todo[j]
            /\ loops[v][q].todo[j] \in DOMAIN actions
      BY <1>8, <2>3
    <3>3. u # v \/ p # q
      <4>1. u = t => k \in Nat /\ k >= 1
        BY <1>3
      <4>2. v = t => l \in Nat /\ l >= 1
        BY <1>3
      <4> QED BY <3>1, <3>2, <4>1, <4>2
    <3> QED BY <1>2, <3>1, <3>2, <3>3 DEF OrderInv, Apart
  <2> QED BY <2>1, <2>2, <2>3
<1>10. Ahead'
  <2> SUFFICES ASSUME NEW u \in Threads, NEW k \in DOMAIN loops'[u], NEW i \in DOMAIN loops'[u][k].todo,
                      NEW a \in Performed', SameEvent(actions'[a], actions'[loops'[u][k].todo[i]])
               PROVE  \/ a < loops'[u][k].todo[i]
                      \/ a = loops'[u][k].todo[i] /\ k = 1 /\ i = 1 /\ At(u, "record")'
    BY DEF Ahead
  <2>1. a \in Performed /\ a \in DOMAIN actions
    BY <1>1 DEF Performed, LoopsTyped
  <2>2. ~(u = t /\ k = 1 /\ \E x \in 1..n : loops'[u][k].todo[i] = Len(actions) + x)
    BY <1>2, <2>1
  <2>3. PICK l \in DOMAIN loops[u] :
          /\ u = t => k # 1 /\ l = k - 1
          /\ u # t => l = k
          /\ i \in DOMAIN loops[u][l].todo /\ loops'[u][k].todo[i] = loops[u][l].todo[i]
          /\ loops[u][l].todo[i] \in DOMAIN actions
    BY <1>8, <2>2
  <2>4. \/ a < loops[u][l].todo[i]
        \/ a = loops[u][l].todo[i] /\ l = 1 /\ i = 1 /\ At(u, "record")
    BY <1>2, <2>1, <2>3 DEF OrderInv, Ahead
  <2>5. At(u, "record") => u # t /\ At(u, "record")'
    BY <1>1, <1>3 DEF At
  <2> QED BY <2>3, <2>4, <2>5
<1> QED BY <1>2, <1>5, <1>7, <1>9, <1>10 DEF OrderInv

(***************************************************************************)
(* A step that leaves the table actions alone leaves its rows.             *)
(***************************************************************************)
LEMMA SameActions == ASSUME UNCHANGED actions PROVE RowsStay /\ DOMAIN actions' = DOMAIN actions
BY DEF RowsStay

(***************************************************************************)
(* Ending a call leaves less to do.                                        *)
(***************************************************************************)
LEMMA AbandonOrder ==
  ASSUME IInv, IInv', OrderInv, NEW t \in Threads, Abandon(t), UNCHANGED <<tableVars, effects>>
  PROVE  OrderInv'
<1>1. loops'[t] = <<>> /\ \A u \in Threads \ {t} : loops'[u] = loops[u] /\ pc'[u] = pc[u]
  BY DEF Abandon, IInv, LoopsTyped, CallsTyped
<1> QED BY <1>1, EndedShrinks, ThreadOrder, SameActions DEF tableVars

(***************************************************************************)
(* The steps of run_actions between two actions keep the order.            *)
(***************************************************************************)
LEMMA LoopOrder ==
  ASSUME IInv, IInv', OrderInv, NEW t \in Threads,
         GetAction(t) \/ RecordStatus(t) \/ RunActionFails(t) \/ NextEvent(t) \/ Return(t)
  PROVE  OrderInv'
<1> USE DEF At
<1>1. LoopsTyped /\ loops[t] # <<>>
  BY DEF IInv, Calling, GetAction, RecordStatus, RunActionFails, NextEvent, Return
<1>2. Loop(t).todo # <<>> => Tail(Loop(t).todo) \in Seq(DOMAIN actions)
  BY <1>1, LoopTyped
<1>3. /\ \A u \in Threads \ {t} : loops'[u] = loops[u] /\ pc'[u] = pc[u]
      /\ UNCHANGED <<events, effects>>
  BY <1>1 DEF GetAction, RecordStatus, RunActionFails, NextEvent, Return, SetLoop, Goto,
              IInv, LoopsTyped, CallsTyped, tableVars
<1>4. CASE GetAction(t)
  <2>1. UNCHANGED actions /\ pc[t] = "run" /\ Loop(t).todo # <<>>
    BY <1>4 DEF GetAction, tableVars
  <2>2. CASE actions[Action(t)].status = "Pending"
    <3>1. loops'[t] = loops[t]
      BY <1>4, <2>2 DEF GetAction
    <3> QED BY <1>1, <1>3, <2>1, <3>1, UntouchedShrinks, ThreadOrder, SameActions
  <2>3. CASE actions[Action(t)].status # "Pending"
    <3> DEFINE loop == [todo |-> Tail(Loop(t).todo), events |-> <<>>]
    <3>1. SetLoop(t, loop)
      BY <1>4, <2>3 DEF GetAction
    <3>2. loop \in Loops /\ loop.todo = Tail(Loop(t).todo)
      BY <1>2, <2>1 DEF Loops
    <3> HIDE DEF loop
    <3>3. LoopsShrink(t)
      BY <1>1, <2>1, <3>1, <3>2, DoneShrinks
    <3> QED BY <1>3, <2>1, <3>3, ThreadOrder, SameActions
  <2> QED BY <2>2, <2>3
<1>5. CASE RecordStatus(t)
  <2> DEFINE loop == [todo |-> Tail(Loop(t).todo), events |-> outcome[t].events]
  <2>1. SetLoop(t, loop) /\ pc[t] = "record"
    BY <1>5 DEF RecordStatus
  <2>2. Loop(t).todo # <<>> /\ outcome[t] \in Outcomes
    BY <2>1 DEF IInv, Calling
  <2>3. loop \in Loops /\ loop.todo = Tail(Loop(t).todo)
    BY <1>2, <2>2 DEF Loops, Outcomes
  <2>4. RowsStay /\ DOMAIN actions' = DOMAIN actions
    <3>1. actions' = [actions EXCEPT ![Action(t)].status = outcome[t].status]
      BY <1>5 DEF RecordStatus
    <3>2. \A a \in DOMAIN actions : actions[a] \in ActionRows
      BY DEF IInv, TablesTyped
    <3> QED BY <3>1, <3>2 DEF RowsStay, ActionRows
  <2> HIDE DEF loop
  <2>5. LoopsShrink(t)
    BY <1>1, <2>1, <2>2, <2>3, DoneShrinks
  <2> QED BY <1>3, <2>4, <2>5, ThreadOrder
<1>6. CASE RunActionFails(t)
  <2> DEFINE loop == [todo |-> Tail(Loop(t).todo), events |-> <<>>]
  <2>1. SetLoop(t, loop) /\ UNCHANGED actions /\ Loop(t).todo # <<>>
    BY <1>6 DEF RunActionFails, tableVars, IInv, Calling
  <2>2. loop \in Loops /\ loop.todo = Tail(Loop(t).todo)
    BY <1>2, <2>1 DEF Loops
  <2> HIDE DEF loop
  <2>3. LoopsShrink(t)
    BY <1>1, <2>1, <2>2, DoneShrinks
  <2> QED BY <1>3, <2>1, <2>3, ThreadOrder, SameActions
<1>7. CASE NextEvent(t)
  <2> DEFINE loop == [todo |-> Loop(t).todo, events |-> Tail(Loop(t).events)]
  <2>1. SetLoop(t, loop) /\ UNCHANGED actions /\ Loop(t).events # <<>> /\ pc[t] = "run"
    BY <1>7 DEF NextEvent, tableVars
  <2>2. loop \in Loops /\ loop.todo = Loop(t).todo
    BY <1>1, <2>1, LoopTyped DEF Loops
  <2> HIDE DEF loop
  <2>3. LoopsShrink(t)
    BY <1>1, <2>1, <2>2, NextEventShrinks
  <2> QED BY <1>3, <2>1, <2>3, ThreadOrder, SameActions
<1>8. CASE Return(t)
  <2>1. UNCHANGED actions /\ loops'[t] = Tail(loops[t])
    BY <1>1, <1>8 DEF Return, tableVars, LoopsTyped
  <2> QED BY <1>1, <1>3, <2>1, ReturnedShrinks, ThreadOrder, SameActions
<1> QED BY <1>4, <1>5, <1>6, <1>7, <1>8

(***************************************************************************)
(* The steps of a call that touch no loop keep the order.                  *)
(***************************************************************************)
LEMMA OtherOrder ==
  ASSUME IInv, IInv', OrderInv, NEW t \in Threads,
         Begin(t) \/ ReadState(t) \/ RunActions(t) \/ \E m \in Machines, e \in Events : Call(t, m, e)
  PROVE  OrderInv'
<1>1. /\ loops'[t] = loops[t] /\ ~At(t, "record") /\ UNCHANGED <<actions, events, effects>>
      /\ \A u \in Threads \ {t} : loops'[u] = loops[u] /\ pc'[u] = pc[u]
  BY DEF Begin, ReadState, RunActions, Call, At, Goto, IInv, CallsTyped, tableVars
<1> QED BY <1>1, UntouchedShrinks, ThreadOrder, SameActions DEF IInv

(***************************************************************************)
(* Performing an action, failing and panicking in one keep the order.      *)
(***************************************************************************)
LEMMA ActOrder ==
  ASSUME IInv, IInv', OrderInv, NEW t \in Threads, Act(t) \/ ActFails(t) \/ ActPanics(t)
  PROVE  OrderInv'
<1>1. /\ At(t, "act") /\ UNCHANGED <<actions, events>> /\ effects' \in {effects, Append(effects, Action(t))}
      /\ \A u \in Threads \ {t} : loops'[u] = loops[u] /\ pc'[u] = pc[u]
      /\ loops'[t] = <<>> \/ (loops'[t] = loops[t] /\ At(t, "record")')
  BY DEF Act, ActFails, ActPanics, Abandon, At, Goto, IInv, LoopsTyped, CallsTyped, tableVars
<1>2. CASE effects' = Append(effects, Action(t))
  BY <1>1, <1>2, ActedOrder
<1>3. CASE effects' = effects
  BY <1>1, <1>3, EndedShrinks, UntouchedShrinks, ThreadOrder, SameActions DEF IInv
<1> QED BY <1>1, <1>2, <1>3

(***************************************************************************)
(* Every step keeps what is left to do in order.                           *)
(***************************************************************************)
LEMMA OrderStep == ASSUME IInv, OrderInv, [Next]_vars PROVE OrderInv'
<1>1. IInv'
  BY IInvStep
<1>2. ASSUME NEW t \in Threads, Run(t) PROVE OrderInv'
  <2>1. CASE NotFound(t) \/ PoolTimeout(t) \/ AdvanceFails(t)
    BY <1>1, <2>1, AbandonOrder DEF NotFound, PoolTimeout, AdvanceFails
  <2>2. CASE Commit(t) \/ CommitUnacknowledged(t)
    BY <1>1, <2>2, CommitOrder, UnacknowledgedOrder
  <2>3. CASE Begin(t) \/ ReadState(t) \/ RunActions(t)
    BY <1>1, <2>3, OtherOrder
  <2>4. CASE Act(t) \/ ActFails(t) \/ ActPanics(t)
    BY <1>1, <2>4, ActOrder
  <2>5. CASE GetAction(t) \/ RecordStatus(t) \/ RunActionFails(t) \/ NextEvent(t) \/ Return(t)
    BY <1>1, <2>5, LoopOrder
  <2> QED BY <1>2, <2>1, <2>2, <2>3, <2>4, <2>5 DEF Run
<1>3. ASSUME NEW t \in Threads, NEW m \in Machines, NEW e \in Events, Call(t, m, e) PROVE OrderInv'
  BY <1>1, <1>3, OtherOrder
<1>4. CASE Crash
  <2>1. UNCHANGED <<actions, events, effects>> /\ \A u \in Threads : loops'[u] = <<>>
    BY <1>4 DEF Crash, tableVars
  <2>2. \A u \in Threads : LoopsShrink(u)
    BY <2>1, EndedShrinks
  <2> QED BY <1>1, <2>1, <2>2, QuietOrder, SameActions
<1>5. ASSUME UNCHANGED <<actions, events, effects, loops, pc>> PROVE OrderInv'
  <2>1. \A u \in Threads : LoopsShrink(u)
    BY <1>5, UntouchedShrinks DEF IInv, At
  <2> QED BY <1>1, <1>5, <2>1, QuietOrder, SameActions
<1>6. (\E m \in Machines, s \in Initial : InsertMachine(m, s)) \/ UNCHANGED vars
        => UNCHANGED <<actions, events, effects, loops, pc>>
  BY DEF InsertMachine, vars, tableVars
<1> QED BY <1>2, <1>3, <1>4, <1>5, <1>6 DEF Next

(***************************************************************************)
(* In the beginning nothing is left to do and nothing was performed.       *)
(***************************************************************************)
LEMMA OrderInit == Init => OrderInv
BY DEF Init, OrderInv, Sorted, Apart, Numbered, Ahead, EffectsInOrder, Performed

(***************************************************************************)
(* The actions of one event are performed in the order in which            *)
(* finito::advance lists them, for every state machine, any number of      *)
(* threads and nested calls, and whatever fails.                           *)
(***************************************************************************)
THEOREM ActionsInOrder == Spec => []EffectsInOrder
<1>1. IInv /\ OrderInv /\ [Next]_vars => OrderInv'
  BY OrderStep
<1>2. OrderInv => EffectsInOrder
  BY DEF OrderInv
<1> QED BY <1>1, <1>2, OrderInit, Invariant, PTL DEF Spec

(***************************************************************************)
(* No action is performed twice: an id that was performed twice would come *)
(* before itself among the actions of its event.                           *)
(***************************************************************************)
THEOREM ActionsAtMostOnce == Spec => []EffectsAtMostOnce
<1>1. ASSUME IInv, EffectsInOrder PROVE EffectsAtMostOnce
  <2> SUFFICES ASSUME NEW i \in DOMAIN effects, NEW j \in DOMAIN effects, effects[i] = effects[j], i # j
               PROVE  FALSE
    BY DEF EffectsAtMostOnce
  <2>1. i \in Nat /\ j \in Nat /\ effects[i] \in Nat
    BY <1>1 DEF IInv, LoopsTyped, TablesTyped
  <2> QED BY <1>1, <2>1 DEF EffectsInOrder
<1>2. IInv /\ EffectsInOrder => EffectsAtMostOnce
  BY <1>1
<1> QED BY <1>2, Invariant, ActionsInOrder, PTL
(***************************************************************************)
(* Every action that is marked Completed was performed.                    *)
(***************************************************************************)
CompletedInv == CompletedActed /\ CompletedHasRun

(***************************************************************************)
(* What was performed stays performed, and only Act has an outcome that    *)
(* says so.                                                                *)
(***************************************************************************)
LEMMA QuietCompleted ==
  ASSUME IInv, CompletedInv, Performed \subseteq Performed',
         \A a \in DOMAIN actions' : actions'[a].status = "Completed" =>
           a \in DOMAIN actions /\ actions[a].status = "Completed",
         \A u \in Threads : At(u, "record")' =>
           At(u, "record") /\ loops'[u] = loops[u] /\ outcome'[u] = outcome[u]
  PROVE  CompletedInv'
BY DEF CompletedInv, CompletedActed, CompletedHasRun, Action, Loop

(***************************************************************************)
(* Every step keeps it true that completed actions were performed.         *)
(***************************************************************************)
LEMMA CompletedStep ==
  ASSUME IInv, OrderInv, CompletedInv, [Next]_vars
  PROVE  CompletedInv'
<1> USE DEF At
<1>1. CASE Crash \/ UNCHANGED vars \/ \E m \in Machines, s \in Initial : InsertMachine(m, s)
  <2>1. UNCHANGED <<actions, effects>> /\ \A u \in Threads : At(u, "record")' =>
           At(u, "record") /\ loops'[u] = loops[u] /\ outcome'[u] = outcome[u]
    BY <1>1 DEF Crash, vars, tableVars, InsertMachine
  <2> QED BY <2>1, QuietCompleted DEF Performed
<1>2. ASSUME NEW t \in Threads, NEW m \in Machines, NEW e \in Events, Call(t, m, e) PROVE CompletedInv'
  <2>1. UNCHANGED <<actions, effects>> /\ \A u \in Threads : At(u, "record")' =>
           At(u, "record") /\ loops'[u] = loops[u] /\ outcome'[u] = outcome[u]
    BY <1>2 DEF Call, tableVars, Goto, IInv, CallsTyped
  <2> QED BY <2>1, QuietCompleted DEF Performed
<1>3. ASSUME NEW t \in Threads, Run(t) PROVE CompletedInv'
  <2>0. /\ pc \in [Threads -> {"idle", "conn", "lock", "commit", "runConn", "run", "act", "record"}]
        /\ loops \in [Threads -> Seq(Loops)] /\ outcome \in [Threads -> Outcomes \union {None}]
    BY DEF IInv, CallsTyped, LoopsTyped
  <2>1. CASE \/ NotFound(t) \/ PoolTimeout(t) \/ AdvanceFails(t) \/ Begin(t) \/ ReadState(t) \/ RunActions(t)
             \/ GetAction(t) \/ NextEvent(t) \/ Return(t) \/ RunActionFails(t)
    <3>1. UNCHANGED <<actions, effects>>
      BY <2>1 DEF NotFound, PoolTimeout, AdvanceFails, Begin, ReadState, RunActions, GetAction, NextEvent,
                  Return, RunActionFails, tableVars
    <3>2. ASSUME NEW u \in Threads, At(u, "record")'
          PROVE  At(u, "record") /\ loops'[u] = loops[u] /\ outcome'[u] = outcome[u]
      <4>1. CASE NotFound(t) \/ PoolTimeout(t) \/ AdvanceFails(t)
        BY <2>0, <3>2, <4>1 DEF NotFound, PoolTimeout, AdvanceFails, Abandon
      <4>2. CASE Begin(t) \/ ReadState(t) \/ RunActions(t)
        BY <2>0, <3>2, <4>2 DEF Begin, ReadState, RunActions, Goto
      <4>3. CASE GetAction(t) \/ NextEvent(t) \/ RunActionFails(t)
        BY <2>0, <3>2, <4>3 DEF GetAction, NextEvent, RunActionFails, Goto, SetLoop
      <4>4. CASE Return(t)
        BY <2>0, <3>2, <4>4 DEF Return, Goto
      <4> QED BY <2>1, <4>1, <4>2, <4>3, <4>4
    <3> QED BY <3>1, <3>2, QuietCompleted DEF Performed
  <2>2. CASE Commit(t) \/ CommitUnacknowledged(t)
    <3>1. Apply(t) /\ effects' = effects
      BY <2>2 DEF Commit, CommitUnacknowledged
    <3> DEFINE n == Len(AdvanceFSM[<<read[t], event[t]>>].actions)
    <3>2. /\ n \in Nat /\ Len(actions) \in Nat
          /\ DOMAIN actions = 1..Len(actions) /\ DOMAIN actions' = 1..(Len(actions) + n)
          /\ \A a \in DOMAIN actions : actions'[a] = actions[a]
          /\ \A i \in 1..n : actions'[Len(actions) + i].status = "Pending"
      BY <3>1, NewRows DEF OrderInv
    <3> HIDE DEF n
    <3>3. ASSUME NEW a \in DOMAIN actions', actions'[a].status = "Completed"
          PROVE  a \in DOMAIN actions /\ actions[a].status = "Completed"
      <4>1. CASE a \in DOMAIN actions
        BY <3>2, <3>3, <4>1
      <4>2. CASE a \notin DOMAIN actions
        <5>1. a - Len(actions) \in 1..n /\ a = Len(actions) + (a - Len(actions))
          BY <3>2, <4>2
        <5> QED BY <3>2, <3>3, <5>1
      <4> QED BY <4>1, <4>2
    <3>4. \A u \in Threads : At(u, "record")' => At(u, "record") /\ loops'[u] = loops[u] /\ outcome'[u] = outcome[u]
      BY <2>0, <2>2 DEF Commit, CommitUnacknowledged, Abandon, Goto
    <3> QED BY <3>1, <3>3, <3>4, QuietCompleted DEF Performed
  <2>3. CASE Act(t) \/ ActFails(t)
    <3>1. /\ At(t, "act") /\ UNCHANGED <<actions, loops>> /\ effects' \in {effects, Append(effects, Action(t))}
          /\ \A u \in Threads \ {t} : pc'[u] = pc[u] /\ outcome'[u] = outcome[u]
      BY <2>0, <2>3 DEF Act, ActFails, Goto, tableVars
    <3>2. effects' = Append(effects, Action(t)) => Performed' = Performed \union {Action(t)}
      BY <3>1, PerformAction DEF OrderInv
    <3>3. Performed \subseteq Performed'
      BY <3>1, <3>2 DEF Performed
    <3>4. outcome'[t].status = "Completed" => effects' = Append(effects, Action(t))
      BY <2>0, <2>3 DEF Act, ActFails
    <3>5. CompletedActed'
      BY <3>1, <3>2, <3>3, <3>4 DEF CompletedInv, CompletedActed, Action, Loop
    <3>6. CompletedHasRun'
      BY <3>1, <3>3 DEF CompletedInv, CompletedHasRun
    <3> QED BY <3>5, <3>6 DEF CompletedInv
  <2>4. CASE ActPanics(t)
    <3>1. /\ At(t, "act") /\ UNCHANGED actions /\ effects' \in {effects, Append(effects, Action(t))}
          /\ \A u \in Threads : At(u, "record")' => At(u, "record") /\ loops'[u] = loops[u] /\ outcome'[u] = outcome[u]
      BY <2>0, <2>4 DEF ActPanics, Abandon, tableVars
    <3>2. Performed \subseteq Performed'
      <4>1. effects' = Append(effects, Action(t)) => Performed' = Performed \union {Action(t)}
        BY <3>1, PerformAction DEF OrderInv
      <4> QED BY <3>1, <4>1 DEF Performed
    <3> QED BY <3>1, <3>2, QuietCompleted
  <2>5. CASE RecordStatus(t)
    <3>1. /\ At(t, "record") /\ effects' = effects
          /\ actions' = [actions EXCEPT ![Action(t)].status = outcome[t].status]
          /\ \A u \in Threads : At(u, "record")' => At(u, "record") /\ loops'[u] = loops[u] /\ outcome'[u] = outcome[u]
      BY <2>0, <2>5 DEF RecordStatus, Goto, SetLoop
    <3>2. \A a \in DOMAIN actions : actions[a] \in ActionRows
      BY DEF IInv, TablesTyped
    <3>3. ASSUME NEW a \in DOMAIN actions', actions'[a].status = "Completed"
          PROVE  a \in Performed
      <4>1. CASE a = Action(t)
        BY <3>1, <3>2, <3>3, <4>1 DEF CompletedInv, CompletedActed, ActionRows
      <4>2. CASE a # Action(t)
        BY <3>1, <3>3, <4>2 DEF CompletedInv, CompletedHasRun
      <4> QED BY <4>1, <4>2
    <3>4. CompletedHasRun'
      BY <3>1, <3>3 DEF CompletedHasRun, Performed
    <3>5. CompletedActed'
      BY <3>1 DEF CompletedInv, CompletedActed, Action, Loop, Performed
    <3> QED BY <3>4, <3>5 DEF CompletedInv
  <2> QED BY <1>3, <2>1, <2>2, <2>3, <2>4, <2>5 DEF Run
<1> QED BY <1>1, <1>2, <1>3 DEF Next

(***************************************************************************)
(* "The action completed successfully" (lib.rs:69): an action is marked    *)
(* Completed only if it was performed, whatever fails.                     *)
(***************************************************************************)
THEOREM CompletedActionsHaveRun == Spec => []CompletedHasRun
<1>1. Init => CompletedInv
  BY DEF Init, CompletedInv, CompletedActed, CompletedHasRun, At
<1>2. IInv /\ OrderInv /\ CompletedInv /\ [Next]_vars => CompletedInv'
  BY CompletedStep
<1>3. IInv /\ OrderInv /\ [Next]_vars => OrderInv'
  BY OrderStep
<1>4. CompletedInv => CompletedHasRun
  BY DEF CompletedInv
<1> QED BY <1>1, <1>2, <1>3, <1>4, OrderInit, Invariant, PTL DEF Spec

--------------------------------------------------------------------------------
(***************************************************************************)
(* Counting connections.  The connections of one thread are as many as it  *)
(* holds; when a thread comes to hold another number of them, the total    *)
(* changes by the difference.                                              *)
(***************************************************************************)
Slots(t, n) == {t} \X (1..n)
TakenBy(held) == UNION {Slots(t, held[t]) : t \in Threads}

(***************************************************************************)
(* A thread that holds n connections has n slots.                          *)
(***************************************************************************)
LEMMA SlotsCount ==
  ASSUME NEW t, NEW n \in Nat
  PROVE  IsFiniteSet(Slots(t, n)) /\ Cardinality(Slots(t, n)) = n
<1> DEFINE f == [i \in 1..n |-> <<t, i>>]
<1>1. f \in [1..n -> Slots(t, n)]
  BY DEF Slots
<1>2. \A i, j \in 1..n : f[i] = f[j] => i = j
  OBVIOUS
<1>3. \A s \in Slots(t, n) : \E i \in 1..n : f[i] = s
  BY DEF Slots
<1> HIDE DEF f
<1>4. f \in Bijection(1..n, Slots(t, n))
  BY <1>1, <1>2, <1>3, Fun_IsBij
<1>5. ExistsBijection(1..n, Slots(t, n))
  BY <1>4, Fun_ExistsBij
<1> QED BY <1>5, FS_CountingElements, FS_NatBijection

(***************************************************************************)
(* When one thread comes to hold n connections, the total changes by the   *)
(* difference.                                                             *)
(***************************************************************************)
LEMMA TakenChange ==
  ASSUME NEW held \in [Threads -> Nat], NEW t \in Threads, NEW n \in Nat, IsFiniteSet(TakenBy(held))
  PROVE  LET after == [held EXCEPT ![t] = n]
         IN  /\ IsFiniteSet(TakenBy(after)) /\ Cardinality(TakenBy(held)) \in Nat
             /\ Cardinality(TakenBy(after)) = Cardinality(TakenBy(held)) - held[t] + n
<1> DEFINE after == [held EXCEPT ![t] = n]
           rest == UNION {Slots(u, held[u]) : u \in Threads \ {t}}
<1>1. TakenBy(held) = rest \union Slots(t, held[t])
  BY DEF TakenBy
<1>2. TakenBy(after) = rest \union Slots(t, n)
  <2>1. after[t] = n /\ \A u \in Threads \ {t} : after[u] = held[u]
    OBVIOUS
  <2> HIDE DEF after
  <2> QED BY <2>1 DEF TakenBy
<1>3. \A m : rest \cap Slots(t, m) = {}
  BY DEF Slots
<1>4. IsFiniteSet(rest)
  <2>1. rest \in SUBSET TakenBy(held)
    BY <1>1
  <2> HIDE DEF rest
  <2> QED BY <2>1, FS_Subset
<1> HIDE DEF rest, after
<1>5. \A m \in Nat : /\ IsFiniteSet(rest \union Slots(t, m))
                     /\ Cardinality(rest \union Slots(t, m)) = Cardinality(rest) + m
  <2> SUFFICES ASSUME NEW m \in Nat
               PROVE  /\ IsFiniteSet(rest \union Slots(t, m))
                      /\ Cardinality(rest \union Slots(t, m)) = Cardinality(rest) + m
    OBVIOUS
  <2>1. IsFiniteSet(Slots(t, m)) /\ Cardinality(Slots(t, m)) = m
    BY SlotsCount
  <2>2. /\ IsFiniteSet(rest \union Slots(t, m))
        /\ Cardinality(rest \union Slots(t, m)) = Cardinality(rest) + m - Cardinality({})
    BY <1>3, <1>4, <2>1, FS_Union
  <2>3. Cardinality(rest) \in Nat
    BY <1>4, FS_CardinalityType
  <2> QED BY <2>2, <2>3, FS_EmptySet
<1>6. Cardinality(rest) \in Nat
  BY <1>4, FS_CardinalityType
<1>7. /\ Cardinality(TakenBy(held)) = Cardinality(rest) + held[t]
      /\ Cardinality(TakenBy(after)) = Cardinality(rest) + n
      /\ held[t] \in Nat
      /\ IsFiniteSet(TakenBy(after))
  BY <1>1, <1>2, <1>5
<1>8. /\ Cardinality(TakenBy(held)) \in Nat
      /\ Cardinality(TakenBy(after)) = Cardinality(TakenBy(held)) - held[t] + n
  BY <1>6, <1>7
<1> QED BY <1>7, <1>8 DEF after

HeldBy == [t \in Threads |-> Held(t)]

(***************************************************************************)
(* The connections taken are those that the threads hold.                  *)
(***************************************************************************)
LEMMA TakenIsHeld == Taken = TakenBy(HeldBy)
BY DEF Taken, TakenBy, HeldBy, Slots

ConnectionsInv == IsFiniteSet(Taken) /\ ConnectionsAccounted

(***************************************************************************)
(* A step of a thread that gives to the pool what the thread does not hold *)
(* any more, or takes what it holds then.                                  *)
(***************************************************************************)
LEMMA PoolBalance ==
  ASSUME IInv, IInv', ConnectionsInv, NEW t \in Threads,
         \A u \in Threads \ {t} : pc'[u] = pc[u] /\ loops'[u] = loops[u],
         free' = free + Held(t) - Held(t)'
  PROVE  ConnectionsInv'
<1>1. \A u \in Threads : Held(u) \in Nat
  BY HeldIsNat DEF IInv
<1>2. \A u \in Threads : Held(u)' \in Nat
  <2>1. \A u \in Threads : /\ loops'[u] \in Seq(Loops')
                           /\ At(u, "runConn")' => loops'[u] # <<>>
    BY DEF IInv, LoopsTyped, Calling, At
  <2> QED BY <2>1 DEF Held, At
<1>3. \A u \in Threads \ {t} : Held(u)' = Held(u)
  BY DEF Held
<1>4. HeldBy \in [Threads -> Nat] /\ HeldBy' = [HeldBy EXCEPT ![t] = Held(t)'] /\ HeldBy[t] = Held(t)
  BY <1>1, <1>2, <1>3 DEF HeldBy
<1>5. Taken = TakenBy(HeldBy) /\ Taken' = TakenBy(HeldBy')
  BY TakenIsHeld DEF Taken, TakenBy, HeldBy, Slots
<1>6. /\ IsFiniteSet(Taken') /\ Cardinality(Taken) \in Nat
      /\ Cardinality(Taken') = Cardinality(Taken) - Held(t) + Held(t)'
  BY <1>2, <1>4, <1>5, TakenChange DEF ConnectionsInv
<1>7. free \in Nat /\ free + Cardinality(Taken) = PoolSize
  BY DEF IInv, LoopsTyped, ConnectionsInv, ConnectionsAccounted
<1> QED BY <1>1, <1>2, <1>6, <1>7 DEF ConnectionsInv, ConnectionsAccounted

(***************************************************************************)
(* What each step does to the connections of the thread that makes it.     *)
(***************************************************************************)
LEMMA AbandonBalance ==
  ASSUME IInv, IInv', ConnectionsInv, NEW t \in Threads, Abandon(t)
  PROVE  ConnectionsInv'
<1>1. Held(t) \in Nat /\ free \in Nat
  BY HeldIsNat DEF IInv, LoopsTyped
<1>2. Held(t)' = 0
  <2>1. pc'[t] = "idle" /\ loops'[t] = <<>>
    BY DEF Abandon, IInv, CallsTyped, LoopsTyped
  <2> QED BY <2>1 DEF Held
<1>3. free' = free + Held(t) - Held(t)'
  BY <1>1, <1>2 DEF Abandon, ReturnConnections
<1>4. \A u \in Threads \ {t} : pc'[u] = pc[u] /\ loops'[u] = loops[u]
  BY DEF Abandon, IInv, CallsTyped, LoopsTyped
<1> QED BY <1>3, <1>4, PoolBalance

(***************************************************************************)
(* Every step of a call balances the pool.                                 *)
(***************************************************************************)
LEMMA CallBalance ==
  ASSUME IInv, IInv', ConnectionsInv, NEW t \in Threads, Run(t)
  PROVE  ConnectionsInv'
<1>0. /\ pc \in [Threads -> {"idle", "conn", "lock", "commit", "runConn", "run", "act", "record"}]
      /\ loops \in [Threads -> Seq(Loops)] /\ free \in Nat /\ Len(loops[t]) \in Nat
  BY DEF IInv, CallsTyped, LoopsTyped
<1>1. CASE \/ NotFound(t) \/ PoolTimeout(t) \/ AdvanceFails(t) \/ CommitUnacknowledged(t) \/ ActPanics(t)
  BY <1>1, AbandonBalance DEF NotFound, PoolTimeout, AdvanceFails, CommitUnacknowledged, ActPanics
<1>2. CASE Begin(t) \/ RunActions(t)
  <2>1. /\ free' = free - 1 /\ loops' = loops
        /\ \/ pc[t] = "conn" /\ pc' = [pc EXCEPT ![t] = "lock"]
           \/ pc[t] = "runConn" /\ pc' = [pc EXCEPT ![t] = "run"]
    BY <1>2 DEF Begin, RunActions, At, Goto
  <2>2. Held(t) \in Nat /\ Held(t)' = Held(t) + 1
    BY <1>0, <2>1, HeldIsNat DEF Held, IInv
  <2>3. free' = free + Held(t) - Held(t)'
    BY <1>0, <2>1, <2>2
  <2>4. \A u \in Threads \ {t} : pc'[u] = pc[u] /\ loops'[u] = loops[u]
    BY <1>0, <2>1
  <2> QED BY <2>3, <2>4, PoolBalance
<1>3. CASE Commit(t)
  <2>1. /\ free' = free /\ pc[t] = "commit" /\ pc' = [pc EXCEPT ![t] = "runConn"]
        /\ \A u \in Threads \ {t} : loops'[u] = loops[u]
    BY <1>3, CommitLoops DEF Commit, Apply, At, Goto
  <2>2. Len(loops'[t]) = Len(loops[t]) + 1
    <3> DEFINE new == [todo |-> NewIds(Len(AdvanceFSM[<<read[t], event[t]>>].actions)), events |-> <<>>]
    <3>1. loops'[t] = <<new>> \o loops[t]
      BY <1>0, <1>3 DEF Commit
    <3> HIDE DEF new
    <3> QED BY <1>0, <3>1
  <2>3. Held(t)' = Held(t) /\ Held(t) \in Nat
    BY <1>0, <2>1, <2>2 DEF Held
  <2>4. free' = free + Held(t) - Held(t)'
    BY <1>0, <2>1, <2>3
  <2>5. \A u \in Threads \ {t} : pc'[u] = pc[u] /\ loops'[u] = loops[u]
    BY <1>0, <2>1
  <2> QED BY <2>4, <2>5, PoolBalance
<1>4. CASE Return(t)
  <2>1. /\ free' = free + 2 /\ pc[t] = "run" /\ pc'[t] \in {"run", "idle"}
        /\ loops' = [loops EXCEPT ![t] = Tail(@)]
        /\ \A u \in Threads \ {t} : pc'[u] = pc[u]
    BY <1>0, <1>4 DEF Return, At, Goto
  <2>2. loops[t] # <<>>
    BY <2>1 DEF IInv, Calling
  <2>3. Len(loops'[t]) = Len(loops[t]) - 1
    BY <1>0, <2>1, <2>2
  <2>4. Held(t) = 2 * Len(loops[t]) /\ Held(t)' = 2 * Len(loops'[t])
    BY <2>1 DEF Held
  <2>5. free' = free + Held(t) - Held(t)'
    BY <1>0, <2>1, <2>3, <2>4
  <2>6. \A u \in Threads \ {t} : pc'[u] = pc[u] /\ loops'[u] = loops[u]
    BY <1>0, <2>1
  <2> QED BY <2>5, <2>6, PoolBalance
<1>5. CASE \/ ReadState(t) \/ GetAction(t) \/ Act(t) \/ ActFails(t) \/ RecordStatus(t) \/ RunActionFails(t)
           \/ NextEvent(t)
  <2>1. /\ free' = free
        /\ \A u \in Threads \ {t} : pc'[u] = pc[u] /\ loops'[u] = loops[u]
        /\ \/ pc[t] = "lock" /\ pc'[t] = "commit"
           \/ {pc[t], pc'[t]} \subseteq {"run", "act", "record", "conn"}
    BY <1>0, <1>5 DEF ReadState, GetAction, Act, ActFails, RecordStatus, RunActionFails, NextEvent, At, Goto, SetLoop
  <2>2. Len(loops'[t]) = Len(loops[t])
    <3>1. CASE loops'[t] = loops[t]
      BY <3>1
    <3>2. CASE pc[t] \in {"run", "record"} /\ \E loop : SetLoop(t, loop)
      <4>1. PICK loop : SetLoop(t, loop)
        BY <3>2
      <4>2. loops'[t] = <<loop>> \o Tail(loops[t])
        BY <1>0, <4>1 DEF SetLoop
      <4>3. loops[t] # <<>>
        BY <3>2 DEF IInv, Calling
      <4>4. Tail(loops[t]) \in Seq(Loops) /\ Len(Tail(loops[t])) = Len(loops[t]) - 1
        BY <1>0, <4>3
      <4> QED BY <1>0, <4>2, <4>4
    <3>3. (pc[t] \in {"run", "record"} /\ \E loop : SetLoop(t, loop)) \/ loops'[t] = loops[t]
      BY <1>5 DEF ReadState, GetAction, Act, ActFails, RecordStatus, RunActionFails, NextEvent, At
    <3> QED BY <3>1, <3>2, <3>3
  <2>3. Held(t)' = Held(t) /\ Held(t) \in Nat
    BY <1>0, <2>1, <2>2, HeldIsNat DEF Held, IInv
  <2>4. free' = free + Held(t) - Held(t)'
    BY <1>0, <2>1, <2>3
  <2> QED BY <2>1, <2>4, PoolBalance
<1> QED BY <1>1, <1>2, <1>3, <1>4, <1>5 DEF Run

(***************************************************************************)
(* Every step balances the pool.                                           *)
(***************************************************************************)
LEMMA ConnectionsStep ==
  ASSUME IInv, ConnectionsInv, [Next]_vars
  PROVE  ConnectionsInv'
<1>1. IInv'
  BY IInvStep
<1>2. ASSUME NEW t \in Threads, Run(t) PROVE ConnectionsInv'
  BY <1>1, <1>2, CallBalance
<1>3. ASSUME NEW t \in Threads, NEW m \in Machines, NEW e \in Events, Call(t, m, e) PROVE ConnectionsInv'
  <2>1. /\ free' = free /\ loops' = loops /\ pc[t] = "idle" /\ pc' = [pc EXCEPT ![t] = "conn"]
        /\ pc \in [Threads -> {"idle", "conn", "lock", "commit", "runConn", "run", "act", "record"}]
    BY <1>3 DEF Call, At, Goto, IInv, CallsTyped
  <2>2. Held(t)' = Held(t) /\ Held(t) \in Nat /\ free \in Nat
    BY <2>1, HeldIsNat DEF Held, IInv, LoopsTyped
  <2>3. free' = free + Held(t) - Held(t)'
    BY <2>1, <2>2
  <2>4. \A u \in Threads \ {t} : pc'[u] = pc[u] /\ loops'[u] = loops[u]
    BY <2>1
  <2> QED BY <1>1, <2>3, <2>4, PoolBalance
<1>4. CASE Crash
  <2>1. \A u \in Threads : Held(u)' = 0
    <3>1. \A u \in Threads : pc'[u] = "idle" /\ loops'[u] = <<>>
      BY <1>4 DEF Crash
    <3> QED BY <3>1 DEF Held
  <2>2. Taken' = {}
    BY <2>1 DEF Taken
  <2> QED BY <1>4, <2>2, FS_EmptySet, PoolAssumption DEF Crash, ConnectionsInv, ConnectionsAccounted
<1>5. ASSUME UNCHANGED <<free, loops, pc>> PROVE ConnectionsInv'
  BY <1>5 DEF ConnectionsInv, ConnectionsAccounted, Taken, Held
<1>6. (\E m \in Machines, s \in Initial : InsertMachine(m, s)) \/ UNCHANGED vars => UNCHANGED <<free, loops, pc>>
  BY DEF InsertMachine, vars
<1> QED BY <1>2, <1>3, <1>4, <1>5, <1>6 DEF Next

(***************************************************************************)
(* Errors, panics, timeouts and crashes leak no connection: at any time    *)
(* the pool and the calls under way have all of them.                      *)
(***************************************************************************)
THEOREM NoConnectionLeaks == Spec => []ConnectionsAccounted
<1>1. Init => ConnectionsInv
  <2> SUFFICES ASSUME Init PROVE ConnectionsInv
    OBVIOUS
  <2>1. \A t \in Threads : Held(t) = 0
    BY DEF Init, Held
  <2>2. Taken = {}
    BY <2>1 DEF Taken
  <2> QED BY <2>2, FS_EmptySet, PoolAssumption DEF Init, ConnectionsInv, ConnectionsAccounted
<1>2. IInv /\ ConnectionsInv /\ [Next]_vars => ConnectionsInv'
  BY ConnectionsStep
<1>3. ConnectionsInv => ConnectionsAccounted
  BY DEF ConnectionsInv
<1> QED BY <1>1, <1>2, <1>3, Invariant, PTL DEF Spec
================================================================================
