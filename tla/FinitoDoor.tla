------------------------------- MODULE FinitoDoor -------------------------------
(***************************************************************************)
(* The lockable door of finito-door, and finito-core's advance, which runs *)
(* the event handler and, when the variant of the state has changed, the   *)
(* enter actions of the new state.                                         *)
(***************************************************************************)
EXTENDS Naturals, Sequences

CONSTANTS Codes,  \* locking codes
          NoCode  \* the code of a door that is not locked

Door(variant)          == [variant |-> variant, code |-> NoCode, attempts |-> 0]
Locked(code, attempts) == [variant |-> "Locked", code |-> code, attempts |-> attempts]

DoorStates ==
  {Door(v) : v \in {"Opened", "Closed", "Disabled"}} \union {Locked(c, n) : c \in Codes, n \in 1..3}

Open         == [event |-> "Open", code |-> NoCode]
Close        == [event |-> "Close", code |-> NoCode]
Lock(code)   == [event |-> "Lock", code |-> code]
Unlock(code) == [event |-> "Unlock", code |-> code]

DoorEvents == {Open, Close} \union {Lock(c) : c \in Codes} \union {Unlock(c) : c \in Codes}

(* NotifyIRC actions are told apart by their message. *)
DoorActions ==
  {"opened", "closed", "locked", "disabled", "invalid code entered", "CallThePolice"}

handle(s, e) ==
  CASE s.variant = "Opened" /\ e = Close -> <<Door("Closed"), <<>>>>
    [] s.variant = "Closed" /\ e = Open -> <<Door("Opened"), <<>>>>
    [] s.variant = "Closed" /\ e.event = "Lock" -> <<Locked(e.code, 3), <<>>>>
    [] s.variant = "Locked" /\ e.event = "Unlock" ->
         CASE s.code = e.code -> <<Door("Closed"), <<>>>>
           [] s.code # e.code /\ s.attempts = 1 -> <<Door("Disabled"), <<"CallThePolice">>>>
           [] OTHER -> <<Locked(s.code, s.attempts - 1), <<"invalid code entered">>>>
    [] OTHER -> <<s, <<>>>>

enter(s) ==
  CASE s.variant = "Opened" -> <<"opened">>
    [] s.variant = "Closed" -> <<"closed">>
    [] s.variant = "Locked" -> <<"locked">>
    [] s.variant = "Disabled" -> <<"disabled">>

advance(s, e) ==
  LET new == handle(s, e)[1] IN
  [state   |-> new,
   actions |-> handle(s, e)[2] \o (IF new.variant # s.variant THEN enter(new) ELSE <<>>)]
================================================================================
