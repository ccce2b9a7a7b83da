------------------------------ MODULE Journaldriver ------------------------------
(***************************************************************************)
(* ops/journaldriver: a daemon that reads the systemd journal, buffers     *)
(* entries for half a second, writes them to Stackdriver in chunks and     *)
(* persists the journal cursor, from which it resumes when it is started   *)
(* again.                                                                  *)
(*                                                                         *)
(* A journal entry is its position.  Buffers are sets of positions: the    *)
(* vectors of the code are always in journal order.                        *)
(***************************************************************************)
EXTENDS Naturals, FiniteSets

CONSTANTS MaxEntries,  \* bound on the journal's length
          MaxStarts,   \* bound on the number of times the process is started
          ChunkSize,   \* entries per request (750 in the code)
          ReadsFail,   \* reading a journal entry may fail
          WritesFail   \* requests to Stackdriver may fail

ASSUME BoundsAssumption == MaxEntries \in Nat /\ MaxStarts \in Nat
ASSUME ChunkAssumption == ChunkSize \in Nat \ {0}
ASSUME FailAssumption == ReadsFail \in BOOLEAN /\ WritesFail \in BOOLEAN

Positions == 0..MaxEntries
Entries   == 1..MaxEntries

NoFile == MaxEntries + 1
Torn   == MaxEntries + 2

VARIABLES journal,  \* position of the newest journal entry
          pc,       \* what the daemon is doing, "down" when it does not run
          position, \* the journal entry the reader is at
          buf,      \* entries received in this iteration
          flushing, \* entries of the running flush not yet written
          cursor,   \* the argument of the running flush
          tmpFile,  \* cursor.tmp
          posFile,  \* cursor.pos
          floor,    \* where forwarding began: the tail of the first start
          accepted, \* entries that Stackdriver has stored
          sends,    \* how often an entry has been sent
          failed,   \* entries whose read, or a request with them, returned an error
          starts    \* how often the process was started

fileVars   == <<tmpFile, posFile>>
remoteVars == <<accepted, sends, failed>>
vars == <<journal, pc, position, buf, flushing, cursor, fileVars, floor, remoteVars, starts>>

TypeOK ==
  /\ journal \in Positions
  /\ pc \in {"down", "collect", "flush", "create", "write", "rename"}
  /\ position \in Positions
  /\ buf \subseteq Entries
  /\ flushing \subseteq Entries
  /\ cursor \in Positions
  /\ tmpFile \in Positions \union {NoFile, Torn}
  /\ posFile \in Positions \union {NoFile}
  /\ floor \in Positions
  /\ accepted \subseteq Entries
  /\ sends \in [Entries -> Nat]
  /\ failed \subseteq Entries
  /\ starts \in 0..MaxStarts

Init ==
  /\ journal = 0
  /\ pc = "down"
  /\ position = 0
  /\ buf = {}
  /\ flushing = {}
  /\ cursor = 0
  /\ tmpFile = NoFile
  /\ posFile = NoFile
  /\ floor = 0
  /\ accepted = {}
  /\ sends = [e \in Entries |-> 0]
  /\ failed = {}
  /\ starts = 0

--------------------------------------------------------------------------------
(* Some unit writes to the journal. *)
Log ==
  /\ journal < MaxEntries
  /\ journal' = journal + 1
  /\ UNCHANGED <<pc, position, buf, flushing, cursor, fileVars, floor, remoteVars, starts>>

(* Mutant: the reader is left at the tail; the cursor file is not used. *)
Start_AtTail ==
  /\ pc = "down"
  /\ starts < MaxStarts
  /\ starts' = starts + 1
  /\ pc' = "collect"
  /\ position' = journal
  /\ floor' = IF posFile = NoFile THEN journal ELSE floor
  /\ UNCHANGED <<journal, buf, flushing, cursor, fileVars, remoteVars>>

(* Mutant: the reader is left at the head of the journal. *)
Start_FromHead ==
  /\ pc = "down"
  /\ starts < MaxStarts
  /\ starts' = starts + 1
  /\ pc' = "collect"
  /\ position' = 0
  /\ floor' = IF posFile = NoFile THEN journal ELSE floor
  /\ UNCHANGED <<journal, buf, flushing, cursor, fileVars, remoteVars>>

(* main and initial_cursor: seek to the persisted cursor, or to the tail   *)
(* of the journal if there is none.  The next record that is read is the   *)
(* one after it.                                                           *)
Start ==
  /\ pc = "down"
  /\ starts < MaxStarts
  /\ starts' = starts + 1
  /\ pc' = "collect"
  /\ IF posFile = NoFile
     THEN position' = journal /\ floor' = journal
     ELSE position' = posFile /\ UNCHANGED floor
  /\ UNCHANGED <<journal, buf, flushing, cursor, fileVars, remoteVars>>

(* receive_next_record *)
Receive ==
  /\ pc = "collect"
  /\ position < journal
  /\ position' = position + 1
  /\ buf' = buf \union {position + 1}
  /\ UNCHANGED <<journal, pc, flushing, cursor, fileVars, floor, remoteVars, starts>>

(* receiver_loop drops the error of a read.  The reader may have moved on  *)
(* to the entry by then (if not, nothing has changed).                     *)
ReceiveFails ==
  /\ ReadsFail
  /\ pc = "collect"
  /\ position < journal
  /\ position' = position + 1
  /\ failed' = failed \union {position + 1}
  /\ UNCHANGED <<journal, pc, buf, flushing, cursor, fileVars, floor, accepted, sends, starts>>

(* Half a second has passed without an entry. *)
IdleIteration ==
  /\ pc = "collect"
  /\ buf = {}
  /\ UNCHANGED vars

(* Mutant: the cursor is that of the journal's newest entry. *)
BeginFlush_TailCursor ==
  /\ pc = "collect"
  /\ buf # {}
  /\ pc' = "flush"
  /\ flushing' = buf
  /\ buf' = {}
  /\ cursor' = journal
  /\ UNCHANGED <<journal, position, fileVars, floor, remoteVars, starts>>

(* It has passed, and there is something to flush. *)
BeginFlush ==
  /\ pc = "collect"
  /\ buf # {}
  /\ pc' = "flush"
  /\ flushing' = buf
  /\ buf' = {}
  /\ cursor' = position
  /\ UNCHANGED <<journal, position, fileVars, floor, remoteVars, starts>>

--------------------------------------------------------------------------------
(* entries.chunks: the oldest ChunkSize entries. *)
Chunk == {e \in flushing : Cardinality({f \in flushing : f < e}) < ChunkSize}

Send == sends' = [e \in Entries |-> IF e \in Chunk THEN sends[e] + 1 ELSE sends[e]]

WriteChunk ==
  /\ pc = "flush"
  /\ flushing # {}
  /\ flushing' = flushing \ Chunk
  /\ accepted' = accepted \union Chunk
  /\ Send
  /\ UNCHANGED <<journal, pc, position, buf, cursor, fileVars, floor, failed, starts>>

(* Mutant: a chunk whose request failed is sent again at once. *)
WriteChunkFails_Retries ==
  /\ WritesFail
  /\ pc = "flush"
  /\ flushing # {}
  /\ accepted' \in {accepted, accepted \union Chunk}
  /\ failed' = failed \union Chunk
  /\ Send
  /\ UNCHANGED <<journal, pc, position, buf, flushing, cursor, fileVars, floor, starts>>

(* write_entries returns an error (refused, or timed out, in which case    *)
(* the entries may have been stored).  It is logged; the chunk is over.    *)
WriteChunkFails ==
  /\ WritesFail
  /\ pc = "flush"
  /\ flushing # {}
  /\ flushing' = flushing \ Chunk
  /\ accepted' \in {accepted, accepted \union Chunk}
  /\ failed' = failed \union Chunk
  /\ Send
  /\ UNCHANGED <<journal, pc, position, buf, cursor, fileVars, floor, starts>>

(* persist_cursor: a non-empty cursor goes to a temporary file, ... *)
BeginPersist ==
  /\ pc = "flush"
  /\ flushing = {}
  /\ pc' = "create"
  /\ UNCHANGED <<journal, position, buf, flushing, cursor, fileVars, floor, remoteVars, starts>>

(* Mutant: the cursor file is overwritten in place. *)
CreateTmp_InPlace ==
  /\ pc = "create"
  /\ posFile' = Torn
  /\ pc' = "write"
  /\ UNCHANGED <<journal, position, buf, flushing, cursor, tmpFile, floor, remoteVars, starts>>

CreateTmp ==
  /\ pc = "create"
  /\ tmpFile' = Torn
  /\ pc' = "write"
  /\ UNCHANGED <<journal, position, buf, flushing, cursor, posFile, floor, remoteVars, starts>>

WriteTmp ==
  /\ pc = "write"
  /\ tmpFile' = cursor
  /\ pc' = "rename"
  /\ UNCHANGED <<journal, position, buf, flushing, cursor, posFile, floor, remoteVars, starts>>

(* ... which then replaces the cursor file. *)
RenameTmp ==
  /\ pc = "rename"
  /\ posFile' = tmpFile
  /\ tmpFile' = NoFile
  /\ pc' = "collect"
  /\ UNCHANGED <<journal, position, buf, flushing, cursor, floor, remoteVars, starts>>

(* journald handed out an empty cursor: nothing is persisted. *)
RefuseEmptyCursor ==
  /\ pc = "create"
  /\ pc' = "collect"
  /\ UNCHANGED <<journal, position, buf, flushing, cursor, fileVars, floor, remoteVars, starts>>

(***************************************************************************)
(* The process ends: it is killed, or receiver_loop returns an error (no   *)
(* token, no cursor, a file that cannot be written), which main unwraps.   *)
(***************************************************************************)
Exit ==
  /\ pc # "down"
  /\ starts < MaxStarts
  /\ pc' = "down"
  /\ buf' = {}
  /\ flushing' = {}
  /\ UNCHANGED <<journal, position, cursor, fileVars, floor, remoteVars, starts>>

Drive ==
  \/ Start \/ Receive \/ ReceiveFails \/ IdleIteration \/ BeginFlush
  \/ WriteChunk \/ WriteChunkFails
  \/ BeginPersist \/ CreateTmp \/ WriteTmp \/ RenameTmp \/ RefuseEmptyCursor

Next == Log \/ Drive \/ Exit

Spec == Init /\ [][Next]_vars

(***************************************************************************)
(* systemd starts the daemon again, its loops go round, and the clock ends *)
(* an iteration even when entries keep arriving.  That reads and     *)
(* writes succeed is not assumed: failing is one way to go on.             *)
(***************************************************************************)
FairSpec ==
  /\ Spec
  /\ WF_vars(Start) /\ WF_vars(Receive \/ ReceiveFails) /\ WF_vars(BeginFlush)
  /\ WF_vars(WriteChunk \/ WriteChunkFails)
  /\ WF_vars(BeginPersist) /\ WF_vars(CreateTmp \/ RefuseEmptyCursor)
  /\ WF_vars(WriteTmp) /\ WF_vars(RenameTmp)

--------------------------------------------------------------------------------
(***************************************************************************)
(* "If flushing is successful the last cursor position will be persisted"  *)
(* (main.rs:522): every entry that the persisted cursor leaves behind has  *)
(* been stored by Stackdriver.                                             *)
(***************************************************************************)
CursorCoversAccepted ==
  posFile # NoFile => \A e \in Entries : floor < e /\ e <= posFile => e \in accepted

(***************************************************************************)
(* Only entries whose read or write has returned an error can be lost:     *)
(* crashes, chunking, the half-second buffer and the order of the cursor   *)
(* file's writes lose nothing that the persisted cursor leaves behind.     *)
(***************************************************************************)
OnlyErrorsLose ==
  posFile # NoFile =>
    \A e \in Entries : floor < e /\ e <= posFile => e \in accepted \union failed

(***************************************************************************)
(* Duplicates come from restarts only: one run of the process sends an     *)
(* entry at most once.                                                     *)
(***************************************************************************)
OncePerRun == \A e \in Entries : sends[e] <= starts

(***************************************************************************)
(* The cursor file is replaced as a whole: whenever the process ends, the  *)
(* next one finds a readable cursor in it (main.rs:489).                   *)
(***************************************************************************)
CursorNeverTorn == posFile # Torn

(***************************************************************************)
(* Forwarding never goes back behind a persisted cursor.                   *)
(***************************************************************************)
CursorAdvances ==
  [][posFile # NoFile => posFile' # NoFile /\ posFile' >= posFile]_vars

(***************************************************************************)
(* Every entry after a persisted cursor is stored in the end, across       *)
(* restarts, unless reading it, or a request with it, returned an error.   *)
(***************************************************************************)
EventuallySettled ==
  \A e \in Entries :
    (posFile # NoFile /\ posFile < e /\ e <= journal) ~> (e \in accepted \union failed)
================================================================================
