--------------------------- MODULE JournaldriverProofs ---------------------------
(***************************************************************************)
(* Proofs about Journaldriver, for journals, chunk sizes and numbers of    *)
(* restarts of any size.                                                   *)
(***************************************************************************)
EXTENDS Journaldriver, TLAPS

Running   == pc # "down"
InFlight  == buf \union flushing

(***************************************************************************)
(* The strengthening.  ShapeInv ties the buffers and the cursor on its way *)
(* to disk to the phase the loop is in; BehindInv says where the entries   *)
(* behind the read position are: stored, given up after an error, or still *)
(* in flight; FreshInv that what is ahead or in flight has not been sent   *)
(* by this run of the process.                                             *)
(***************************************************************************)
ShapeInv ==
  /\ pc # "collect" => buf = {}
  /\ pc # "flush" => flushing = {}
  /\ position <= journal
  /\ \A e \in InFlight : e <= position
  /\ pc \in {"flush", "create", "write", "rename"} => cursor = position
  /\ pc = "rename" => tmpFile = cursor
  /\ posFile # NoFile => floor <= posFile /\ posFile <= journal
  /\ ~ReadsFail /\ ~WritesFail => failed = {}
  /\ Running => floor <= position /\ (posFile # NoFile => posFile <= position)

BehindInv ==
  Running => \A e \in Entries :
    floor < e /\ e <= position /\ e \notin InFlight => e \in accepted \union failed

FreshInv ==
  /\ OncePerRun
  /\ Running => \A e \in Entries : e > position \/ e \in InFlight => sends[e] < starts

IInv == TypeOK /\ ShapeInv /\ BehindInv /\ OnlyErrorsLose /\ FreshInv

--------------------------------------------------------------------------------
(*****************************************************************************)
(* prepare_request takes the entries it sends from the buffer being          *)
(* flushed.                                                                  *)
(*****************************************************************************)
LEMMA ChunkIsFlushed == Chunk \subseteq flushing
  BY DEF Chunk

(*****************************************************************************)
(* The variables have their types before the first start.                    *)
(*****************************************************************************)
LEMMA TypeInit == Init => TypeOK
  BY BoundsAssumption DEF Init, TypeOK, Positions, Entries, NoFile, Torn

(*****************************************************************************)
(* Every step keeps the variables within their types.                        *)
(*****************************************************************************)
LEMMA TypeStep == TypeOK /\ ShapeInv /\ [Next]_vars => TypeOK'
<1> SUFFICES ASSUME TypeOK, ShapeInv, [Next]_vars PROVE TypeOK'
  OBVIOUS
<1> USE BoundsAssumption
<1> USE DEF TypeOK, Positions, Entries, NoFile, Torn, fileVars, remoteVars
<1>1. CASE Log
  BY <1>1 DEF Log
<1>2. CASE Start
  BY <1>2 DEF Start
<1>3. CASE Receive
  BY <1>3 DEF Receive
<1>16. CASE ReceiveFails
  BY <1>16 DEF ReceiveFails
<1>4. CASE IdleIteration
  BY <1>4 DEF IdleIteration, vars
<1>5. CASE BeginFlush
  BY <1>5 DEF BeginFlush
<1>6. CASE WriteChunk
  BY <1>6, ChunkIsFlushed DEF WriteChunk, Send
<1>7. CASE WriteChunkFails
  BY <1>7, ChunkIsFlushed DEF WriteChunkFails, Send
<1>8. CASE BeginPersist
  BY <1>8 DEF BeginPersist
<1>9. CASE CreateTmp
  BY <1>9 DEF CreateTmp
<1>10. CASE WriteTmp
  BY <1>10 DEF WriteTmp
<1>11. CASE RenameTmp
  BY <1>11 DEF RenameTmp, ShapeInv
<1>12. CASE RefuseEmptyCursor
  BY <1>12 DEF RefuseEmptyCursor
<1>13. CASE Exit
  BY <1>13 DEF Exit
<1>14. CASE UNCHANGED vars
  BY <1>14 DEF vars
<1>15. QED
  BY <1>1, <1>2, <1>3, <1>4, <1>5, <1>6, <1>7, <1>8, <1>9, <1>10, <1>11, <1>12, <1>13, <1>14, <1>16
     DEF Next, Drive

(*****************************************************************************)
(* Every step keeps the relations between the program's position, its        *)
(* buffer and its cursor.                                                    *)
(*****************************************************************************)
LEMMA ShapeStep == TypeOK /\ ShapeInv /\ [Next]_vars => ShapeInv'
<1> SUFFICES ASSUME TypeOK, ShapeInv, [Next]_vars PROVE ShapeInv'
  OBVIOUS
<1> USE BoundsAssumption
<1> USE DEF TypeOK, Positions, Entries, NoFile, Torn, fileVars, remoteVars, ShapeInv, InFlight, Running
<1>1. CASE Log
  BY <1>1 DEF Log
<1>2. CASE Start
  BY <1>2 DEF Start
<1>3. CASE Receive
  BY <1>3 DEF Receive
<1>16. CASE ReceiveFails
  BY <1>16 DEF ReceiveFails
<1>4. CASE IdleIteration
  BY <1>4 DEF IdleIteration, vars
<1>5. CASE BeginFlush
  BY <1>5 DEF BeginFlush
<1>6. CASE WriteChunk
  BY <1>6, ChunkIsFlushed DEF WriteChunk, Send
<1>7. CASE WriteChunkFails
  BY <1>7, ChunkIsFlushed DEF WriteChunkFails, Send
<1>8. CASE BeginPersist
  BY <1>8 DEF BeginPersist
<1>9. CASE CreateTmp
  BY <1>9 DEF CreateTmp
<1>10. CASE WriteTmp
  BY <1>10 DEF WriteTmp
<1>11. CASE RenameTmp
  BY <1>11 DEF RenameTmp
<1>12. CASE RefuseEmptyCursor
  BY <1>12 DEF RefuseEmptyCursor
<1>13. CASE Exit
  BY <1>13 DEF Exit
<1>14. CASE UNCHANGED vars
  BY <1>14 DEF vars
<1>15. QED
  BY <1>1, <1>2, <1>3, <1>4, <1>5, <1>6, <1>7, <1>8, <1>9, <1>10, <1>11, <1>12, <1>13, <1>14, <1>16
     DEF Next, Drive

(***************************************************************************)
(* Entries leave the buffers by being sent, and the cursor that is         *)
(* persisted is the read position of a moment when none was in flight.     *)
(***************************************************************************)
LEMMA BehindStep ==
  TypeOK /\ ShapeInv /\ BehindInv /\ OnlyErrorsLose /\ [Next]_vars => BehindInv' /\ OnlyErrorsLose'
<1> SUFFICES ASSUME TypeOK, ShapeInv, BehindInv, OnlyErrorsLose, [Next]_vars
             PROVE  BehindInv' /\ OnlyErrorsLose'
  OBVIOUS
<1> USE BoundsAssumption
<1> USE DEF TypeOK, Positions, Entries, NoFile, Torn, fileVars, remoteVars, ShapeInv, InFlight,
            Running, BehindInv, OnlyErrorsLose
<1>1. CASE Log
  BY <1>1 DEF Log
<1>2. CASE Start
  BY <1>2 DEF Start
<1>3. CASE Receive
  BY <1>3 DEF Receive
<1>16. CASE ReceiveFails
  BY <1>16 DEF ReceiveFails
<1>4. CASE IdleIteration
  BY <1>4 DEF IdleIteration, vars
<1>5. CASE BeginFlush
  BY <1>5 DEF BeginFlush
<1>6. CASE WriteChunk
  BY <1>6, ChunkIsFlushed DEF WriteChunk, Send
<1>7. CASE WriteChunkFails
  BY <1>7, ChunkIsFlushed DEF WriteChunkFails, Send
<1>8. CASE BeginPersist
  BY <1>8 DEF BeginPersist
<1>9. CASE CreateTmp
  BY <1>9 DEF CreateTmp
<1>10. CASE WriteTmp
  BY <1>10 DEF WriteTmp
<1>11. CASE RenameTmp
  BY <1>11 DEF RenameTmp
<1>12. CASE RefuseEmptyCursor
  BY <1>12 DEF RefuseEmptyCursor
<1>13. CASE Exit
  BY <1>13 DEF Exit
<1>14. CASE UNCHANGED vars
  BY <1>14 DEF vars
<1>15. QED
  BY <1>1, <1>2, <1>3, <1>4, <1>5, <1>6, <1>7, <1>8, <1>9, <1>10, <1>11, <1>12, <1>13, <1>14, <1>16
     DEF Next, Drive

(*****************************************************************************)
(* Every step keeps the entries of a run from being sent twice: what is      *)
(* buffered has not been sent in this run.                                   *)
(*****************************************************************************)
LEMMA FreshStep == TypeOK /\ ShapeInv /\ FreshInv /\ [Next]_vars => FreshInv'
<1> SUFFICES ASSUME TypeOK, ShapeInv, FreshInv, [Next]_vars PROVE FreshInv'
  OBVIOUS
<1> USE BoundsAssumption
<1> USE DEF TypeOK, Positions, Entries, fileVars, remoteVars, ShapeInv, InFlight, Running,
            FreshInv, OncePerRun
<1>1. CASE Log
  BY <1>1 DEF Log
<1>2. CASE Start
  BY <1>2 DEF Start
<1>3. CASE Receive
  BY <1>3 DEF Receive
<1>16. CASE ReceiveFails
  BY <1>16 DEF ReceiveFails
<1>4. CASE IdleIteration
  BY <1>4 DEF IdleIteration, vars
<1>5. CASE BeginFlush
  BY <1>5 DEF BeginFlush
<1>6. CASE WriteChunk
  BY <1>6, ChunkIsFlushed DEF WriteChunk, Send
<1>7. CASE WriteChunkFails
  BY <1>7, ChunkIsFlushed DEF WriteChunkFails, Send
<1>8. CASE BeginPersist
  BY <1>8 DEF BeginPersist
<1>9. CASE CreateTmp
  BY <1>9 DEF CreateTmp
<1>10. CASE WriteTmp
  BY <1>10 DEF WriteTmp
<1>11. CASE RenameTmp
  BY <1>11 DEF RenameTmp
<1>12. CASE RefuseEmptyCursor
  BY <1>12 DEF RefuseEmptyCursor
<1>13. CASE Exit
  BY <1>13 DEF Exit
<1>14. CASE UNCHANGED vars
  BY <1>14 DEF vars
<1>15. QED
  BY <1>1, <1>2, <1>3, <1>4, <1>5, <1>6, <1>7, <1>8, <1>9, <1>10, <1>11, <1>12, <1>13, <1>14, <1>16
     DEF Next, Drive

--------------------------------------------------------------------------------
(*****************************************************************************)
(* The inductive invariant holds in every state of the daemon, across its    *)
(* restarts.                                                                 *)
(*****************************************************************************)
THEOREM Invariant == Spec => []IInv
<1>1. Init => IInv
  BY TypeInit, BoundsAssumption
     DEF Init, IInv, ShapeInv, BehindInv, OnlyErrorsLose, FreshInv, OncePerRun, InFlight, Running,
         NoFile, Entries
<1>2. IInv /\ [Next]_vars => IInv'
  BY TypeStep, ShapeStep, BehindStep, FreshStep DEF IInv
<1>3. QED
  BY <1>1, <1>2, PTL DEF Spec

(***************************************************************************)
(* The phases of the loop and the files have the values TypeOK gives them; *)
(* in particular the cursor file is never torn, although the temporary     *)
(* file is written in place.                                               *)
(***************************************************************************)
THEOREM TypeCorrect == Spec => []TypeOK /\ []CursorNeverTorn
<1>1. IInv => TypeOK /\ CursorNeverTorn
  BY BoundsAssumption DEF IInv, TypeOK, CursorNeverTorn, Positions, NoFile, Torn
<1>2. QED
  BY Invariant, <1>1, PTL

(***************************************************************************)
(* What the cursor leaves behind is stored, unless reading or writing it   *)
(* has returned an error.                                                  *)
(***************************************************************************)
THEOREM NothingSkipped == Spec => []OnlyErrorsLose
<1>1. IInv => OnlyErrorsLose
  BY DEF IInv
<1>2. QED
  BY Invariant, <1>1, PTL

(***************************************************************************)
(* Without such errors it has been stored.  The assumption is needed:      *)
(* flush only logs a failed write and persists the cursor (main.rs:533).   *)
(***************************************************************************)
THEOREM NothingLost == ASSUME ~ReadsFail, ~WritesFail PROVE Spec => []CursorCoversAccepted
<1>1. IInv => CursorCoversAccepted
  BY DEF IInv, ShapeInv, OnlyErrorsLose, CursorCoversAccepted
<1>2. QED
  BY Invariant, <1>1, PTL

(***************************************************************************)
(* One run of the process sends an entry at most once.                     *)
(***************************************************************************)
THEOREM DuplicatesFromRestartsOnly == Spec => []OncePerRun
<1>1. IInv => OncePerRun
  BY DEF IInv, FreshInv
<1>2. QED
  BY Invariant, <1>1, PTL

(***************************************************************************)
(* Only RenameTmp touches the cursor file, and it moves the cursor ahead.  *)
(***************************************************************************)
THEOREM CursorOnlyAdvances == Spec => CursorAdvances
<1>1. IInv /\ [Next]_vars => [posFile # NoFile => posFile' # NoFile /\ posFile' >= posFile]_vars
  <2> SUFFICES ASSUME IInv, [Next]_vars, posFile # NoFile
               PROVE  posFile' # NoFile /\ posFile' >= posFile
    OBVIOUS
  <2> USE BoundsAssumption DEF IInv, TypeOK, ShapeInv, Running, Positions, NoFile
  <2>1. CASE RenameTmp
    BY <2>1 DEF RenameTmp
  <2>2. CASE UNCHANGED posFile
    BY <2>2
  <2>3. QED
    BY <2>1, <2>2
       DEF Next, Drive, Log, Start, Receive, ReceiveFails, IdleIteration, BeginFlush, WriteChunk, WriteChunkFails,
           BeginPersist, CreateTmp, WriteTmp, RefuseEmptyCursor, Exit, fileVars, vars
<1>2. QED
  BY Invariant, <1>1, PTL DEF Spec, CursorAdvances
================================================================================
