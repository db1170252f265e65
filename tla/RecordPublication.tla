-------------------------- MODULE RecordPublication --------------------------
(***************************************************************************)
(* publish_execution_record: a record is written to a temporary file next  *)
(* to its destination and hard-linked there, never replacing anything.     *)
(* Several publishers, threads of one process or of several, may publish   *)
(* to the same destination; a process may die and its process id be used   *)
(* again.  A directory maps names to files; a name that is linked twice    *)
(* names one file twice.                                                   *)
(***************************************************************************)
EXTENDS Naturals, Sequences, FiniteSets

CONSTANTS
  Publishers,
  Pids,        \* process ids
  Destination, \* a name
  MaxAttempts, \* temporary names tried by one call
  MaxCrashes

VARIABLES
  pid,       \* the process of each publisher, 0 before it starts
  counter,   \* NEXT_TEMP of each process
  directory, \* names, each with its file: an index of files
  files,     \* [by, content] of every file ever created
  at,        \* where each publisher stands
  temp,      \* the name of its temporary file, when it holds one
  handle,    \* the file it has open
  attempts, result,
  abandoned, \* history: names left behind by a crash or a failed removal
  crashes

publication == <<pid, counter, directory, files, at, temp, handle, attempts, result,
                 abandoned, crashes>>

Steps == {"idle", "open", "write", "sync", "link", "drop", "done", "dead"}
Running(p) == at[p] \in {"open", "write", "sync", "link", "drop"}

(* Whoever else writes at the destination.                                 *)
Stranger == 0

(* The caller does not name the record like a temporary file.              *)
ASSUME PublicationAssumption ==
  /\ Stranger \notin Publishers
  /\ Destination \notin Pids \X Nat

(* The directory, with a name for the file.                                *)
Named(name, file) ==
  [n \in DOMAIN directory \cup {name} |-> IF n = name THEN file ELSE directory[n]]

PublicationInit ==
  /\ pid = [p \in Publishers |-> 0]
  /\ counter = [q \in Pids |-> 0]
  /\ files = <<[by |-> Stranger, content |-> "other"]>>
  /\ directory = <<>>
  /\ at = [p \in Publishers |-> "idle"]
  /\ temp = [p \in Publishers |-> <<>>] /\ handle = [p \in Publishers |-> 0]
  /\ attempts = [p \in Publishers |-> 0]
  /\ result = [p \in Publishers |-> "none"]
  /\ abandoned = {} /\ crashes = 0

Go(p, step) == at' = [at EXCEPT ![p] = step]
End(p, step, result_) == Go(p, step) /\ result' = [result EXCEPT ![p] = result_]

Begin(p) ==
  /\ at[p] = "idle" /\ Go(p, "open")
  /\ \E q \in Pids : pid' = [pid EXCEPT ![p] = q]
  /\ UNCHANGED <<counter, directory, files, temp, handle, attempts, result, abandoned, crashes>>

(* Fault: an existing temporary file is opened and truncated.              *)
OpenTruncates(p) ==
  LET name == <<pid[p], counter[pid[p]]>>
      file == IF name \in DOMAIN directory THEN directory[name] ELSE Len(files) + 1
      fresh == [by |-> p, content |-> "torn"]
  IN  /\ at[p] = "open"
      /\ counter' = [counter EXCEPT ![pid[p]] = @ + 1]
      /\ files' = IF file > Len(files) THEN Append(files, fresh)
                  ELSE [files EXCEPT ![file] = fresh]
      /\ directory' = Named(name, file)
      /\ temp' = [temp EXCEPT ![p] = name] /\ handle' = [handle EXCEPT ![p] = file]
      /\ Go(p, "write")
      /\ UNCHANGED <<pid, attempts, result, abandoned, crashes>>

(* One turn of the loop: a name of this process's own, create_new.         *)
Open(p) ==
  LET name == <<pid[p], counter[pid[p]]>> IN
    /\ at[p] = "open"
    /\ counter' = [counter EXCEPT ![pid[p]] = @ + 1]
    /\ IF name \in DOMAIN directory
       THEN /\ attempts' = [attempts EXCEPT ![p] = @ + 1]
            /\ IF attempts[p] + 1 = MaxAttempts THEN End(p, "done", "collisions")
               ELSE UNCHANGED <<at, result>>
            /\ UNCHANGED <<directory, files, temp, handle>>
       ELSE /\ files' = Append(files, [by |-> p, content |-> "torn"])
            /\ directory' = Named(name, Len(files) + 1)
            /\ temp' = [temp EXCEPT ![p] = name]
            /\ handle' = [handle EXCEPT ![p] = Len(files) + 1]
            /\ Go(p, "write")
            /\ UNCHANGED <<attempts, result>>
    /\ UNCHANGED <<pid, abandoned, crashes>>

(* Another error of open: nothing was created.                             *)
OpenFails(p) ==
  /\ at[p] = "open" /\ End(p, "done", "error")
  /\ counter' = [counter EXCEPT ![pid[p]] = @ + 1]
  /\ UNCHANGED <<pid, directory, files, temp, handle, attempts, abandoned, crashes>>

(* write_all, through the handle; a failure may leave any part.            *)
WriteAll(p) ==
  /\ at[p] = "write" /\ Go(p, "sync")
  /\ files' = [files EXCEPT ![handle[p]] = [by |-> p, content |-> "whole"]]
  /\ UNCHANGED <<pid, counter, directory, temp, handle, attempts, result, abandoned, crashes>>

WriteError(p) ==
  /\ at[p] \in {"write", "sync"} /\ End(p, "drop", "error")
  /\ UNCHANGED <<pid, counter, directory, files, temp, handle, attempts, abandoned, crashes>>

SyncAll(p) ==
  /\ at[p] = "sync" /\ Go(p, "link")
  /\ UNCHANGED <<pid, counter, directory, files, temp, handle, attempts, result, abandoned, crashes>>

(* hard_link: refused when the destination exists.                         *)
Link(p) ==
  /\ at[p] = "link"
  /\ IF Destination \in DOMAIN directory THEN End(p, "drop", "exists") /\ UNCHANGED directory
     ELSE /\ End(p, "drop", "ok")
          /\ directory' = Named(Destination, directory[temp[p]])
  /\ UNCHANGED <<pid, counter, files, temp, handle, attempts, abandoned, crashes>>

(* A file system without hard links, or another error.                     *)
LinkFails(p) ==
  /\ at[p] = "link" /\ End(p, "drop", "error")
  /\ UNCHANGED <<pid, counter, directory, files, temp, handle, attempts, abandoned, crashes>>

(* Temporary::drop, on every way out; its own failure is ignored.          *)
Drop(p) ==
  /\ at[p] = "drop" /\ Go(p, "done")
  /\ temp' = [temp EXCEPT ![p] = <<>>]
  /\ \/ /\ directory' = [name \in DOMAIN directory \ {temp[p]} |-> directory[name]]
        /\ UNCHANGED abandoned
     \/ /\ abandoned' = abandoned \cup {temp[p]}
        /\ UNCHANGED directory
  /\ UNCHANGED <<pid, counter, files, handle, attempts, result, crashes>>

(* A process dies, with every publisher that runs in it; another process   *)
(* with its id starts to count from 0.                                     *)
Crash(q) ==
  LET dying == { p \in Publishers : pid[p] = q /\ Running(p) } IN
    /\ crashes < MaxCrashes /\ dying # {}
    /\ crashes' = crashes + 1
    /\ counter' = [counter EXCEPT ![q] = 0]
    /\ at' = [p \in Publishers |-> IF p \in dying THEN "dead" ELSE at[p]]
    /\ abandoned' = abandoned \cup { temp[p] : p \in { p \in dying : temp[p] # <<>> } }
    /\ temp' = [p \in Publishers |-> IF p \in dying THEN <<>> ELSE temp[p]]
    /\ UNCHANGED <<pid, directory, files, handle, attempts, result>>

(* The caller, having kept the record, publishes it again.                 *)
Again(p) ==
  /\ at[p] = "dead" /\ Go(p, "open")
  /\ attempts' = [attempts EXCEPT ![p] = 0]
  /\ result' = [result EXCEPT ![p] = "none"]
  /\ UNCHANGED <<pid, counter, directory, files, temp, handle, abandoned, crashes>>

(* Somebody else creates a file at the destination.                        *)
Occupy ==
  /\ Destination \notin DOMAIN directory
  /\ \E p \in Publishers : at[p] \notin {"done", "dead"}
  /\ directory' = Named(Destination, 1)
  /\ UNCHANGED <<pid, counter, files, at, temp, handle, attempts, result, abandoned, crashes>>

Publish ==
  \/ Occupy
  \/ \E p \in Publishers :
       \/ Begin(p) \/ Open(p) \/ OpenFails(p) \/ WriteAll(p) \/ WriteError(p) \/ SyncAll(p)
       \/ Link(p) \/ LinkFails(p) \/ Drop(p) \/ Again(p)
  \/ \E q \in Pids : Crash(q)

----------------------------------------------------------------------------
Published == IF Destination \in DOMAIN directory THEN <<files[directory[Destination]]>> ELSE <<>>

(* Publication is all or nothing, and once: what is at the destination is  *)
(* a whole record or somebody else's file; whoever was told it published  *)
(* finds its own record there, for good; whoever was told it did not, and  *)
(* did not die on the way, finds somebody else's or none; and a temporary  *)
(* name outlives its call only where a crash or a failed removal left it.  *)
PublishedIsWhole ==
  /\ Published # <<>> /\ Published[1].by # Stranger => Published[1].content = "whole"
  /\ \A p \in Publishers :
       /\ result[p] = "ok" => Published # <<>> /\ Published[1].by = p
       /\ result[p] = "exists" => Published # <<>>
       /\ result[p] \notin {"none", "ok"} /\ crashes = 0 =>
            Published = <<>> \/ Published[1].by # p
  /\ \A name \in DOMAIN directory \ ({Destination} \cup abandoned) :
       \E p \in Publishers : Running(p) /\ temp[p] = name
=============================================================================
