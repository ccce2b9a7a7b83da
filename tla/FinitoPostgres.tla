------------------------------ MODULE FinitoPostgres ------------------------------
(***************************************************************************)
(* finito-postgres: state machines persisted in Postgres.  advance applies *)
(* an event in a transaction that locks the machine's row, then            *)
(* run_actions executes the requested actions one after the other, each in *)
(* a transaction of its own; the events an action returns are applied by   *)
(* nested calls of advance.  Connections come from a pool of fixed size.   *)
(*                                                                         *)
(* The rows a transaction inserts are invisible until it commits, and the  *)
(* row lock is held by then, so the statements between the locking read    *)
(* and the commit are one step.  The row of an action is only ever read by *)
(* the thread that inserted it, so its row lock is left out.               *)
(***************************************************************************)
EXTENDS Naturals, Sequences, FiniteSets

CONSTANTS Machines,        \* keys of state machines
          Threads,         \* threads that call into the library
          States,          \* states of the FSM type,
          Events,          \* its events
          Kinds,           \* and its actions
          NoState,         \* the state of a machine that was not inserted
          None,            \* no thread, machine, event or outcome
          AdvanceFSM,      \* finito::advance: [<<state, event>> -> [state, actions]]
          Returns,         \* [action -> the event sequences act may return]
          Initial,         \* states machines are inserted with
          PoolSize,        \* connections in the pool
          DatabaseFails,   \* statements and commits may fail
          Crashes,         \* the process may die, an action may panic
          MaxTransactions  \* bound: no call is made after that many advances began

ASSUME FSMAssumption ==
  /\ AdvanceFSM \in [States \X Events -> [state : States, actions : Seq(Kinds)]]
  /\ Returns \in [Kinds -> SUBSET Seq(Events)]
  /\ Initial \subseteq States
ASSUME NoneAssumption ==
  /\ NoState \notin States
  /\ None \notin Threads /\ None \notin Machines /\ None \notin Events
ASSUME PoolAssumption == PoolSize \in Nat
ASSUME FailureAssumption == DatabaseFails \in BOOLEAN /\ Crashes \in BOOLEAN

VARIABLES state,    \* table machines
          events,   \* table events: the rows of each machine in commit order
          actions,  \* table actions: rows in commit order, the index is the id
          rowLock,  \* the thread that holds the FOR UPDATE lock of a machine
          begun,    \* how many transactions advance has begun
          free,     \* connections in the pool
          effects,  \* ids of the actions performed, in order
          pc,       \* where a thread is in its innermost call
          machine,  \* the machine it advances
          event,    \* the event it applies
          read,     \* the machine's state, read under the lock
          loops,    \* the run_actions loops it is in, innermost first
          outcome   \* the result of the action it has just performed

tableVars  == <<state, events, actions>>
callVars   == <<machine, event, read>>
vars == <<tableVars, rowLock, begun, free, effects, pc, callVars, loops, outcome>>

Statuses == {"Pending", "Completed", "Failed"}

TypeOK ==
  /\ state \in [Machines -> States \union {NoState}]
  /\ events \in [Machines -> Seq(Events)]
  /\ actions \in Seq([machine : Machines, event : Nat, kind : Kinds, status : Statuses])
  /\ rowLock \in [Machines -> Threads \union {None}]
  /\ begun \in Nat
  /\ free \in Nat
  /\ effects \in Seq(DOMAIN actions)
  /\ pc \in [Threads -> {"idle", "conn", "lock", "commit", "runConn", "run", "act", "record"}]
  /\ machine \in [Threads -> Machines \union {None}]
  /\ event \in [Threads -> Events \union {None}]
  /\ read \in [Threads -> States \union {NoState}]
  /\ loops \in [Threads -> Seq([todo : Seq(DOMAIN actions), events : Seq(Events)])]
  /\ outcome \in [Threads -> [status : Statuses, events : Seq(Events)] \union {None}]

Init ==
  /\ state = [m \in Machines |-> NoState]
  /\ events = [m \in Machines |-> <<>>]
  /\ actions = <<>>
  /\ rowLock = [m \in Machines |-> None]
  /\ begun = 0
  /\ free = PoolSize
  /\ effects = <<>>
  /\ pc = [t \in Threads |-> "idle"]
  /\ machine = [t \in Threads |-> None]
  /\ event = [t \in Threads |-> None]
  /\ read = [t \in Threads |-> NoState]
  /\ loops = [t \in Threads |-> <<>>]
  /\ outcome = [t \in Threads |-> None]

--------------------------------------------------------------------------------
At(t, step) == pc[t] = step

Goto(t, step) == pc' = [pc EXCEPT ![t] = step]

(* The innermost loop of run_actions, and the action it is at. *)
Loop(t)   == Head(loops[t])
Action(t) == Head(Loop(t).todo)

SetLoop(t, loop) == loops' = [loops EXCEPT ![t] = <<loop>> \o Tail(@)]

(***************************************************************************)
(* advance keeps its connection while run_actions has taken another one,   *)
(* so every finished level of the call stack holds two.                    *)
(***************************************************************************)
Held(t) ==
  CASE pc[t] \in {"lock", "commit"} -> 2 * Len(loops[t]) + 1
    [] pc[t] = "runConn"            -> 2 * Len(loops[t]) - 1
    [] OTHER                        -> 2 * Len(loops[t])

(* Mutant: a connection goes back to the pool with its transaction open. *)
RollBack_KeepsLock(t) == UNCHANGED rowLock

RollBack(t) == rowLock' = [m \in Machines |-> IF rowLock[m] = t THEN None ELSE rowLock[m]]

(* Mutant: a panic leaks the connections. *)
ReturnConnections_Leaks(t) == UNCHANGED free

ReturnConnections(t) == free' = free + Held(t)

(***************************************************************************)
(* The call is over: it has returned an error or has panicked (an error of *)
(* a nested advance is a panic).  Dropping the transactions and            *)
(* connections on the way rolls back and returns them to the pool.         *)
(***************************************************************************)
Abandon(t) ==
  /\ RollBack(t)
  /\ ReturnConnections(t)
  /\ pc' = [pc EXCEPT ![t] = "idle"]
  /\ machine' = [machine EXCEPT ![t] = None]
  /\ event' = [event EXCEPT ![t] = None]
  /\ read' = [read EXCEPT ![t] = NoState]
  /\ loops' = [loops EXCEPT ![t] = <<>>]
  /\ outcome' = [outcome EXCEPT ![t] = None]

--------------------------------------------------------------------------------
InsertMachine(m, initial) ==
  /\ state[m] = NoState
  /\ free > 0
  /\ state' = [state EXCEPT ![m] = initial]
  /\ UNCHANGED <<events, actions, rowLock, begun, free, effects, pc, callVars, loops, outcome>>

Call(t, m, e) ==
  /\ At(t, "idle")
  /\ begun < MaxTransactions
  /\ Goto(t, "conn")
  /\ machine' = [machine EXCEPT ![t] = m]
  /\ event' = [event EXCEPT ![t] = e]
  /\ UNCHANGED <<tableVars, rowLock, begun, free, effects, read, loops, outcome>>

(* advance: a connection, on which a transaction begins. *)
Begin(t) ==
  /\ At(t, "conn")
  /\ free > 0
  /\ free' = free - 1
  /\ begun' = begun + 1
  /\ Goto(t, "lock")
  /\ UNCHANGED <<tableVars, rowLock, effects, machine, event, read, loops, outcome>>

(* Mutant: the row is read without FOR UPDATE. *)
ReadState_Unlocked(t) ==
  /\ At(t, "lock")
  /\ state[machine[t]] # NoState
  /\ read' = [read EXCEPT ![t] = state[machine[t]]]
  /\ Goto(t, "commit")
  /\ UNCHANGED <<tableVars, rowLock, begun, free, effects, machine, event, loops, outcome>>

(* SELECT state ... FOR UPDATE *)
ReadState(t) ==
  /\ At(t, "lock")
  /\ state[machine[t]] # NoState
  /\ rowLock[machine[t]] = None
  /\ rowLock' = [rowLock EXCEPT ![machine[t]] = t]
  /\ read' = [read EXCEPT ![t] = state[machine[t]]]
  /\ Goto(t, "commit")
  /\ UNCHANGED <<tableVars, begun, free, effects, machine, event, loops, outcome>>

(* FSMNotFound *)
NotFound(t) ==
  /\ At(t, "lock")
  /\ state[machine[t]] = NoState
  /\ Abandon(t)
  /\ UNCHANGED <<tableVars, begun, effects>>

(* The ids of the next n rows of the table actions. *)
NewIds(n) == [i \in 1..n |-> Len(actions) + i]

(* insert_event, finito::advance, insert_action for every action,          *)
(* update_state: what the transaction makes visible when it commits.       *)
Apply(t) ==
  LET m    == machine[t]
      next == AdvanceFSM[<<read[t], event[t]>>]
      rows == [i \in DOMAIN next.actions |->
                 [machine |-> m, event |-> Len(events[m]) + 1,
                  kind |-> next.actions[i], status |-> "Pending"]]
  IN  /\ At(t, "commit")
      /\ state' = [state EXCEPT ![m] = next.state]
      /\ events' = [events EXCEPT ![m] = Append(@, event[t])]
      /\ actions' = actions \o rows
      /\ UNCHANGED begun

Commit(t) ==
  LET requested == AdvanceFSM[<<read[t], event[t]>>].actions IN
  /\ Apply(t)
  /\ rowLock' = [rowLock EXCEPT ![machine[t]] = None]
  /\ event' = [event EXCEPT ![t] = None]
  /\ read' = [read EXCEPT ![t] = NoState]
  /\ loops' = [loops EXCEPT ![t] = <<[todo |-> NewIds(Len(requested)), events |-> <<>>]>> \o @]
  /\ Goto(t, "runConn")
  /\ UNCHANGED <<free, effects, machine, outcome>>

(* The connection is lost after the server has committed: the call returns *)
(* an error although the event was applied.                                *)
CommitUnacknowledged(t) ==
  /\ DatabaseFails
  /\ Apply(t)
  /\ Abandon(t)
  /\ UNCHANGED effects

(* Mutant: only the outermost call gives up waiting for a connection. *)
PoolTimeout_OutermostOnly(t) ==
  /\ At(t, "conn") /\ loops[t] = <<>>
  /\ free = 0
  /\ Abandon(t)
  /\ UNCHANGED <<tableVars, begun, effects>>

(* The pool has had no connection for as long as it waits for one. *)
PoolTimeout(t) ==
  /\ pc[t] \in {"conn", "runConn"}
  /\ free = 0
  /\ Abandon(t)
  /\ UNCHANGED <<tableVars, begun, effects>>

(* The database refuses a statement of advance, or to begin a transaction, *)
(* or the pool's connections are broken.                                   *)
AdvanceFails(t) ==
  /\ DatabaseFails
  /\ \/ pc[t] \in {"lock", "commit"}
     \/ pc[t] \in {"conn", "runConn"} /\ free > 0
     \/ At(t, "run") /\ Loop(t).events = <<>> /\ Loop(t).todo # <<>>
  /\ Abandon(t)
  /\ UNCHANGED <<tableVars, begun, effects>>

--------------------------------------------------------------------------------
(* run_actions takes a connection of its own. *)
RunActions(t) ==
  /\ At(t, "runConn")
  /\ free > 0
  /\ free' = free - 1
  /\ Goto(t, "run")
  /\ UNCHANGED <<tableVars, rowLock, begun, effects, callVars, loops, outcome>>

(* run_action: a pending action is performed, any other is passed over. *)
GetAction(t) ==
  /\ At(t, "run")
  /\ Loop(t).events = <<>> /\ Loop(t).todo # <<>>
  /\ IF actions[Action(t)].status = "Pending"
     THEN Goto(t, "act") /\ UNCHANGED loops
     ELSE SetLoop(t, [todo |-> Tail(Loop(t).todo), events |-> <<>>]) /\ UNCHANGED pc
  /\ UNCHANGED <<tableVars, rowLock, begun, free, effects, callVars, outcome>>

Act(t) ==
  /\ At(t, "act")
  /\ \E evs \in Returns[actions[Action(t)].kind] :
       outcome' = [outcome EXCEPT ![t] = [status |-> "Completed", events |-> evs]]
  /\ effects' = Append(effects, Action(t))
  /\ Goto(t, "record")
  /\ UNCHANGED <<tableVars, rowLock, begun, free, callVars, loops>>

(* act returns an error, with or without having had its effect. *)
ActFails(t) ==
  /\ At(t, "act")
  /\ outcome' = [outcome EXCEPT ![t] = [status |-> "Failed", events |-> <<>>]]
  /\ effects' \in {effects, Append(effects, Action(t))}
  /\ Goto(t, "record")
  /\ UNCHANGED <<tableVars, rowLock, begun, free, callVars, loops>>

ActPanics(t) ==
  /\ Crashes
  /\ At(t, "act")
  /\ effects' \in {effects, Append(effects, Action(t))}
  /\ Abandon(t)
  /\ UNCHANGED <<tableVars, begun>>

(* update_action_status and commit *)
RecordStatus(t) ==
  /\ At(t, "record")
  /\ actions' = [actions EXCEPT ![Action(t)].status = outcome[t].status]
  /\ SetLoop(t, [todo |-> Tail(Loop(t).todo), events |-> outcome[t].events])
  /\ outcome' = [outcome EXCEPT ![t] = None]
  /\ Goto(t, "run")
  /\ UNCHANGED <<state, events, rowLock, begun, free, effects, callVars>>

(* Mutant: an action whose status could not be written is run again. *)
RunActionFails_Retries(t) ==
  /\ DatabaseFails
  /\ At(t, "record")
  /\ outcome' = [outcome EXCEPT ![t] = None]
  /\ Goto(t, "run")
  /\ UNCHANGED <<tableVars, rowLock, begun, free, effects, callVars, loops>>

(* A statement of run_action fails: run_actions ignores the error, and the *)
(* events of an action that was already performed are dropped.             *)
RunActionFails(t) ==
  /\ DatabaseFails
  /\ \/ At(t, "run") /\ Loop(t).events = <<>> /\ Loop(t).todo # <<>>
     \/ At(t, "record")
  /\ SetLoop(t, [todo |-> Tail(Loop(t).todo), events |-> <<>>])
  /\ outcome' = [outcome EXCEPT ![t] = None]
  /\ Goto(t, "run")
  /\ UNCHANGED <<tableVars, rowLock, begun, free, effects, callVars>>

(* The next event of the action is applied by a nested call of advance. *)
NextEvent(t) ==
  /\ At(t, "run")
  /\ Loop(t).events # <<>>
  /\ event' = [event EXCEPT ![t] = Head(Loop(t).events)]
  /\ SetLoop(t, [todo |-> Loop(t).todo, events |-> Tail(Loop(t).events)])
  /\ Goto(t, "conn")
  /\ UNCHANGED <<tableVars, rowLock, begun, free, effects, machine, read, outcome>>

(* run_actions and advance return: to the loop around them, or to the caller. *)
Return(t) ==
  /\ At(t, "run")
  /\ Loop(t).events = <<>> /\ Loop(t).todo = <<>>
  /\ free' = free + 2
  /\ loops' = [loops EXCEPT ![t] = Tail(@)]
  /\ IF Len(loops[t]) = 1
     THEN Goto(t, "idle") /\ machine' = [machine EXCEPT ![t] = None]
     ELSE UNCHANGED <<pc, machine>>
  /\ UNCHANGED <<tableVars, rowLock, begun, effects, event, read, outcome>>

(* The process dies; Postgres rolls back what is not committed. *)
Crash ==
  /\ Crashes
  /\ rowLock' = [m \in Machines |-> None]
  /\ free' = PoolSize
  /\ pc' = [t \in Threads |-> "idle"]
  /\ machine' = [t \in Threads |-> None]
  /\ event' = [t \in Threads |-> None]
  /\ read' = [t \in Threads |-> NoState]
  /\ loops' = [t \in Threads |-> <<>>]
  /\ outcome' = [t \in Threads |-> None]
  /\ UNCHANGED <<tableVars, begun, effects>>

Run(t) ==
  \/ Begin(t) \/ ReadState(t) \/ NotFound(t) \/ Commit(t) \/ CommitUnacknowledged(t)
  \/ PoolTimeout(t) \/ AdvanceFails(t)
  \/ RunActions(t) \/ GetAction(t) \/ Act(t) \/ ActFails(t) \/ ActPanics(t)
  \/ RecordStatus(t) \/ RunActionFails(t) \/ NextEvent(t) \/ Return(t)

Next ==
  \/ \E m \in Machines, s \in Initial : InsertMachine(m, s)
  \/ \E t \in Threads, m \in Machines, e \in Events : Call(t, m, e)
  \/ \E t \in Threads : Run(t)
  \/ Crash

Spec == Init /\ [][Next]_vars

(* Threads are scheduled; the pool's timeout makes waiting for it finite. *)
FairSpec == Spec /\ \A t \in Threads : WF_vars(Run(t))

--------------------------------------------------------------------------------
Performed == {effects[i] : i \in DOMAIN effects}

(***************************************************************************)
(* No action is performed twice, whatever fails, panics or crashes, and    *)
(* however the calls of several threads and their nested calls interleave. *)
(***************************************************************************)
EffectsAtMostOnce == \A i, j \in DOMAIN effects : effects[i] = effects[j] => i = j

(***************************************************************************)
(* "The action completed successfully" (lib.rs:69): an action is marked    *)
(* Completed only after it has been performed.                             *)
(***************************************************************************)
CompletedHasRun ==
  \A a \in DOMAIN actions : actions[a].status = "Completed" => a \in Performed

(***************************************************************************)
(* The actions of one event are performed in the order in which the        *)
(* state machine lists them and none of them twice, also when nested calls *)
(* come in between or their status could not be stored.                    *)
(***************************************************************************)
EffectsInOrder ==
  \A i, j \in DOMAIN effects :
    LET a == actions[effects[i]]  b == actions[effects[j]] IN
    a.machine = b.machine /\ a.event = b.event /\ i < j => effects[i] < effects[j]

(***************************************************************************)
(* Nobody waits for a connection, or runs an action, with the row of a     *)
(* machine locked: waiting for the pool and waiting for a row cannot form  *)
(* a cycle.                                                                *)
(***************************************************************************)
NoLockWhileWaiting ==
  \A t \in Threads, m \in Machines :
    rowLock[m] = t => At(t, "commit") /\ machine[t] = m

Taken == UNION {{t} \X (1..Held(t)) : t \in Threads}

(***************************************************************************)
(* Every connection is in the pool or held by a call that has not ended,   *)
(* two for each level of nesting: errors and panics leak none.             *)
(***************************************************************************)
ConnectionsAccounted == free + Cardinality(Taken) = PoolSize

(***************************************************************************)
(* Every call of advance ends, be it with an error: threads that hold the  *)
(* connections the others wait for do not wait for ever.                   *)
(***************************************************************************)
CallsEnd == \A t \in Threads : ~At(t, "idle") ~> At(t, "idle")

(***************************************************************************)
(* finito-postgres is an FSMBackend: the stored states are what the events *)
(* make of them one after the other, and no event is lost or half applied. *)
(***************************************************************************)
Backend == INSTANCE FSMBackend WITH
  log       <- events,
  requested <- [a \in DOMAIN actions |-> [machine |-> actions[a].machine, kind |-> actions[a].kind]]

ImplementsFSMBackend == Backend!Spec
================================================================================
