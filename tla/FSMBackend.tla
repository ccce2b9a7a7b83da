------------------------------- MODULE FSMBackend -------------------------------
(***************************************************************************)
(* What finito-core's FSMBackend trait promises: a backend keeps track of  *)
(* the current state of every state machine and applies events to it       *)
(* transactionally.  An event changes the state it finds to the one the    *)
(* machine's logic prescribes and requests that machine's actions, in one  *)
(* step; nothing else changes a state.  FinitoPostgres is shown to         *)
(* implement it.                                                           *)
(***************************************************************************)
EXTENDS Sequences

CONSTANTS Machines,  \* keys of state machines
          States,    \* states of the FSM type
          Events,    \* its events
          Kinds,     \* its actions
          NoState,   \* the state of a machine that was not inserted
          AdvanceFSM \* [<<state, event>> -> the new state and the actions]

VARIABLES state,     \* the current state of each machine
          log,       \* the events applied to it, in order
          requested  \* the actions requested, in order, with their machine

vars == <<state, log, requested>>

Init ==
  /\ state = [m \in Machines |-> NoState]
  /\ log = [m \in Machines |-> <<>>]
  /\ requested = <<>>

InsertMachine(m, initial) ==
  /\ state[m] = NoState
  /\ state' = [state EXCEPT ![m] = initial]
  /\ UNCHANGED <<log, requested>>

Advance(m, e) ==
  LET next == AdvanceFSM[<<state[m], e>>] IN
  /\ state[m] # NoState
  /\ state' = [state EXCEPT ![m] = next.state]
  /\ log' = [log EXCEPT ![m] = Append(@, e)]
  /\ requested' = requested \o [i \in DOMAIN next.actions |-> [machine |-> m, kind |-> next.actions[i]]]

Next ==
  \/ \E m \in Machines, s \in States : InsertMachine(m, s)
  \/ \E m \in Machines, e \in Events : Advance(m, e)

Spec == Init /\ [][Next]_vars
================================================================================
