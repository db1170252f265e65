-------------------------- MODULE JournalEmitter --------------------------
(***************************************************************************)
(* How one event reaches a journal file: the session refuses it after an   *)
(* earlier failure, the emitter checks its limits, numbers and chains the  *)
(* entry, and the file journal writes the line and then synchronizes it.   *)
(* Either half can fail, and the process can die in between.               *)
(*                                                                         *)
(* Parent runs and continuation children append this way; the composing    *)
(* modules decide which event is emitted and when.                         *)
(***************************************************************************)
EXTENDS JournalLifecycle

CONSTANT Capacity   \* entries an emitter may append

VARIABLES
  wpc,        \* where the journaling layer stands; "emit" and "sync" are here
  event,      \* the event being appended
  lines,      \* the file: its LF-terminated lines
  torn,       \* the file: bytes follow the last LF
  sequence,   \* emitter.sequence: acknowledged entries
  previous,   \* emitter.previous: digest of the last acknowledged entry
  poisoned,   \* FileJournal.poisoned
  error       \* session.error

file == <<lines, torn>>
emitter == <<sequence, previous, poisoned>>

NoError == NoValue

NextEntry == Entry(sequence, previous, event)

----------------------------------------------------------------------------
Init ==
  /\ lines = <<>> /\ torn = FALSE
  /\ sequence = 0 /\ previous = NoValue /\ poisoned = FALSE
  /\ error = NoError

(* Where control goes once emit has returned `ok` for the current event;   *)
(* only an intent looks at the result.                                     *)
Resume(ok) ==
  CASE event.event = "Initialized" -> "evaluate"
    [] event.event = "CallStarted" -> IF ok THEN "engine" ELSE "blocked"
    [] event.event \in {"CallSucceeded", "CallFailed"} -> "answer"
    [] event.event = "Finished" -> "closed"

(* Fault: an append that an earlier failure suppressed reads as done.      *)
EmitBlockedAsDone ==
  /\ wpc = "emit" /\ error # NoError
  /\ wpc' = Resume(TRUE)
  /\ UNCHANGED <<event, file, emitter, error>>

(* An earlier failure: nothing is written.                                 *)
EmitBlocked ==
  /\ wpc = "emit" /\ error # NoError
  /\ wpc' = Resume(FALSE)
  /\ UNCHANGED <<event, file, emitter, error>>

(* The entry count, the entry's size or the journal's size is exceeded;    *)
(* sizes are not modelled, so any entry may be the one that does not fit.  *)
EmitOverLimit ==
  /\ wpc = "emit" /\ error = NoError
  /\ error' = "contract"
  /\ wpc' = Resume(FALSE)
  /\ UNCHANGED <<event, file, emitter>>

(* Bytes that follow a torn tail join it: the line they end is malformed.  *)
Appended(entry) == Append(lines, IF torn THEN Malformed ELSE entry)

WriteEntry ==
  /\ wpc = "emit" /\ error = NoError
  /\ sequence < Capacity /\ ~poisoned
  /\ poisoned' = TRUE
  /\ lines' = Appended(NextEntry)
  /\ torn' = FALSE
  /\ wpc' = "sync"
  /\ UNCHANGED <<event, sequence, previous, error>>

(* Fault: a failed write is not latched.                                   *)
WriteFailsUnlatched ==
  /\ wpc = "emit" /\ error = NoError
  /\ sequence < Capacity /\ ~poisoned
  /\ torn' \in {torn, TRUE}
  /\ wpc' = Resume(FALSE)
  /\ UNCHANGED <<event, lines, emitter, error>>

(* write_all fails, before or after part of the line has reached the file. *)
WriteFails ==
  /\ wpc = "emit" /\ error = NoError
  /\ sequence < Capacity /\ ~poisoned
  /\ poisoned' = TRUE
  /\ torn' \in {torn, TRUE}
  /\ error' = "storage"
  /\ wpc' = Resume(FALSE)
  /\ UNCHANGED <<event, lines, sequence, previous>>

SyncEntry ==
  /\ wpc = "sync"
  /\ poisoned' = FALSE
  /\ previous' = Digest(NextEntry)
  /\ sequence' = sequence + 1
  /\ wpc' = Resume(TRUE)
  /\ UNCHANGED <<event, file, error>>

(* Fault: the result of sync_all is ignored.                               *)
SyncFailsIgnored ==
  /\ wpc = "sync"
  /\ wpc' = Resume(TRUE)
  /\ UNCHANGED <<event, file, emitter, error>>

(* sync_all fails although the whole line was written.                     *)
SyncFails ==
  /\ wpc = "sync"
  /\ error' = "storage"
  /\ wpc' = Resume(FALSE)
  /\ UNCHANGED <<event, file, emitter>>

Emit == EmitBlocked \/ EmitOverLimit \/ WriteEntry \/ WriteFails \/ SyncEntry \/ SyncFails

----------------------------------------------------------------------------
(* What the death of the process leaves of the file: a line that was not   *)
(* yet synchronized may be there whole, in part or not at all.             *)
Lost ==
  /\ \/ UNCHANGED file
     \/ /\ wpc = "emit" /\ error = NoError
        /\ torn' = TRUE /\ UNCHANGED lines
     \/ /\ wpc = "sync"
        /\ lines' = SubSeq(lines, 1, Len(lines) - 1)
        /\ torn' \in BOOLEAN
  /\ UNCHANGED <<wpc, event, emitter, error>>

----------------------------------------------------------------------------
(* A journal is a header, an intent and a return for every call, and a     *)
(* terminal entry: the intent of the i-th call is its entry 2 * i, and all *)
(* intents acknowledged are those of the calls made, or of the next one.   *)
IntentsPrecede(calls) ==
  /\ \A i \in DOMAIN calls :
       2 * i <= sequence /\ lines[2 * i].event = CallStarted(calls[i].target)
  /\ \A k \in 1 .. sequence : lines[k].event.event = "CallStarted" =>
       \E i \in 1 .. Len(calls) + 1 : k = 2 * i
=============================================================================
