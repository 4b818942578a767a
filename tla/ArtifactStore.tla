--------------------------- MODULE ArtifactStore ---------------------------
(***************************************************************************)
(* The content-addressed artifact store of app/ingestion/storage.py: one   *)
(* object, put and read by any number of processes at once.                *)
(*                                                                         *)
(* An object's name is the digest of its content, so two puts of one name  *)
(* write the same bytes and a stored object is a prefix of them: it is     *)
(* abstracted to how much of its content it holds.  Objects share nothing. *)
(***************************************************************************)
EXTENDS Integers

CONSTANTS Processes,   \* workers and publishers
          Length,      \* the size of the content, in writes
          Faults       \* what may interrupt a put

ASSUME LengthAssumption == Length \in Nat \ {0}
ASSUME FaultsAssumption == Faults \subseteq {"death", "full", "power"}

VARIABLES file,     \* how much of the content the file holds
          synced,   \* fsync has returned
          proc,     \* what each process is doing with the object
          named,    \* history: some put has returned the object's reference
          failed    \* history: the power has failed

vars == <<file, synced, proc, named, failed>>

Absent == -1
Whole  == Length

Busy  == {"writing", "comparing", "reading"}
Ended == {"idle", "stored", "mismatch", "read", "corrupt"}

Init ==
  /\ file = Absent /\ synced = FALSE
  /\ proc = [p \in Processes |-> [pc |-> "idle", n |-> 0]]
  /\ named = FALSE /\ failed = FALSE

At(p, pc)      == proc[p].pc = pc
Goes(p, pc, n) == proc' = [proc EXCEPT ![p] = [pc |-> pc, n |-> n]]
Starts(p, pc)  == proc[p].pc \in Ended /\ Goes(p, pc, 0)

-----------------------------------------------------------------------------
(* put *)

OpensAny(p) ==                                                          \* mutant
  /\ Starts(p, "writing") /\ file' = 0
  /\ UNCHANGED <<synced, named, failed>>
\* os.open with O_EXCL: the object appears, empty, under its final name.
Create(p) ==
  /\ file = Absent
  /\ Starts(p, "writing") /\ file' = 0
  /\ UNCHANGED <<synced, named, failed>>

Write(p) ==
  /\ At(p, "writing") /\ proc[p].n < Length
  /\ file' = proc[p].n + 1 /\ Goes(p, "writing", proc[p].n + 1)
  /\ UNCHANGED <<synced, named, failed>>

\* The reference is returned once the object is on the disk.
Fsync(p) ==
  /\ At(p, "writing") /\ proc[p].n = Length
  /\ synced' = TRUE /\ named' = TRUE /\ Goes(p, "stored", 0)
  /\ UNCHANGED <<file, failed>>

\* FileExistsError: what is there is read, and compared with the content.
FindExisting(p) ==
  /\ file # Absent /\ Starts(p, "comparing")
  /\ UNCHANGED <<file, synced, named, failed>>

\* read_bytes, of either path: until the end of what the file holds by then.
ReadOn(p) ==
  /\ proc[p].pc \in {"comparing", "reading"} /\ proc[p].n < file
  /\ Goes(p, proc[p].pc, proc[p].n + 1)
  /\ UNCHANGED <<file, synced, named, failed>>

TrustsExisting(n) == TRUE                                               \* mutant
SameContent(n) == n = Length

\* Different bytes are an ArtifactIntegrityError.
Compare(p) ==
  /\ At(p, "comparing") /\ proc[p].n >= file
  /\ Goes(p, IF SameContent(proc[p].n) THEN "stored" ELSE "mismatch", 0)
  /\ named' = (named \/ SameContent(proc[p].n))
  /\ UNCHANGED <<file, synced, failed>>

-----------------------------------------------------------------------------
(* read *)

\* A reader has the reference from the database.
Open(p) ==
  /\ named /\ file # Absent /\ Starts(p, "reading")
  /\ UNCHANGED <<file, synced, named, failed>>

DigestMatches(n) == n = Length

Verify(p) ==
  /\ At(p, "reading") /\ proc[p].n >= file
  /\ Goes(p, IF DigestMatches(proc[p].n) THEN "read" ELSE "corrupt", proc[p].n)
  /\ UNCHANGED <<file, synced, named, failed>>

-----------------------------------------------------------------------------
(* Faults *)

\* The process dies, or a write raises (no space left): what it has written
\* stays, and nothing removes it.
Interrupted(p) ==
  /\ \/ "death" \in Faults /\ proc[p].pc \in Busy
     \/ "full" \in Faults /\ At(p, "writing") /\ proc[p].n < Length
  /\ Goes(p, "idle", 0)
  /\ UNCHANGED <<file, synced, named, failed>>

\* Every process dies; of a file that was not synced any part may be lost, the
\* file itself among it.
PowerFails ==
  /\ "power" \in Faults
  /\ proc' = [p \in Processes |-> [pc |-> "idle", n |-> 0]]
  /\ failed' = TRUE
  /\ file' \in IF synced THEN {file} ELSE Absent..file
  /\ UNCHANGED <<synced, named>>

Next ==
  \/ \E p \in Processes :
       \/ Create(p) \/ Write(p) \/ Fsync(p) \/ FindExisting(p)
       \/ ReadOn(p) \/ Compare(p) \/ Open(p) \/ Verify(p) \/ Interrupted(p)
  \/ PowerFails

Spec == Init /\ [][Next]_vars

-----------------------------------------------------------------------------
(* Properties *)

\* Every variable has its type.
TypeOK ==
  /\ file \in Absent..Length /\ synced \in BOOLEAN
  /\ proc \in [Processes -> [pc : Busy \cup Ended, n : 0..Length]]
  /\ named \in BOOLEAN /\ failed \in BOOLEAN

\* A reference that any put has returned names an object with all its bytes,
\* although the object carries its final name from the first one and a second
\* put does not wait for the first: unless the power failed, no reader is told
\* of a corrupt artifact.
NamedIsWhole ==
  named /\ ~failed => file = Whole /\ \A p \in Processes : ~At(p, "corrupt")

\* "Existing objects are never overwritten" (storage.py:23): a complete object
\* stays complete, whichever puts of it are begun, interrupted and repeated.
WholeStays == [][file = Whole /\ ~failed' => file' = Whole]_vars

\* "their bytes are re-verified on every read" (storage.py:24): bytes that a read
\* has returned are the content, also of an object that a power failure has cut
\* under a reference given before its fsync.
ReadsAreWhole == \A p \in Processes : At(p, "read") => proc[p].n = Length

=============================================================================
