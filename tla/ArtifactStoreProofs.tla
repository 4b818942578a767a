------------------------ MODULE ArtifactStoreProofs ------------------------
(* Theorems about the artifact store, for any number of processes, contents *)
(* of any size and every combination of faults.                             *)
EXTENDS ArtifactStore, TLAPS

-----------------------------------------------------------------------------
(* The inductive invariant *)

\* There is one writer, and the file is what it has written so far.
WriterIsAlone ==
  \A p \in Processes :
    At(p, "writing") =>
      file = proc[p].n /\ \A q \in Processes : At(q, "writing") => q = p

\* Nobody has read more than there is; readers have a reference.
ReadersFollow ==
  \A p \in Processes :
    /\ proc[p].pc \in {"comparing", "reading"} => proc[p].n <= file
    /\ At(p, "reading") => named

\* What is on the disk is complete.
SyncedIsWhole == synced => file = Length

\* Nobody is told of a corrupt artifact, named or not, until the power fails.
NoneIsCorrupt == ~failed => \A p \in Processes : ~At(p, "corrupt")

Inv == /\ TypeOK /\ WriterIsAlone /\ ReadersFollow /\ SyncedIsWhole /\ NoneIsCorrupt
       /\ NamedIsWhole /\ ReadsAreWhole

-----------------------------------------------------------------------------
LEMMA InitInv == Init => Inv
<1> SUFFICES ASSUME Init PROVE Inv
  OBVIOUS
<1>1. \A p \in Processes : proc[p].pc = "idle" /\ proc[p].n = 0
  BY DEF Init
<1>2. TypeOK
  <2>1. -1 \in -1..Length /\ 0 \in 0..Length
    BY LengthAssumption
  <2> QED
    BY <2>1 DEF Init, TypeOK, Absent, Busy, Ended
<1> QED
  BY <1>1, <1>2
  DEF Init, Inv, WriterIsAlone, ReadersFollow, SyncedIsWhole, NoneIsCorrupt, NamedIsWhole,
      ReadsAreWhole, At

\* A step of one process leaves the others where they are.
LEMMA OthersStay ==
  ASSUME TypeOK, NEW p \in Processes, NEW pc, NEW n, Goes(p, pc, n)
  PROVE  /\ proc'[p].pc = pc /\ proc'[p].n = n
         /\ \A q \in Processes \ {p} : proc'[q] = proc[q]
         /\ pc \in Busy \cup Ended /\ n \in 0..Length =>
              proc' \in [Processes -> [pc : Busy \cup Ended, n : 0..Length]]
BY DEF TypeOK, Goes

\* The parts of the invariant that a step preserves if it moves one process,
\* leaves the file as it is, and begins no put.
LEMMA NothingIsWritten ==
  ASSUME Inv, NEW p \in Processes, NEW pc \in (Busy \cup Ended) \ {"writing"},
         NEW n \in 0..Length, Goes(p, pc, n),
         UNCHANGED <<file, failed>>, named => named', named' \in BOOLEAN,
         synced' \in BOOLEAN, synced' => file = Length, named' /\ ~failed => file = Length,
         pc \in {"comparing", "reading"} => n <= file,
         pc = "reading" => named', pc = "read" => n = Length,
         pc = "corrupt" => failed
  PROVE  Inv'
<1>1. TypeOK'
  BY OthersStay DEF Inv, TypeOK
<1>2. WriterIsAlone'
  BY OthersStay DEF Inv, WriterIsAlone, At
<1>3. ReadersFollow'
  BY OthersStay DEF Inv, ReadersFollow, At
<1>4. NoneIsCorrupt'
  BY OthersStay DEF Inv, NoneIsCorrupt, At
<1>5. NamedIsWhole'
  BY <1>4 DEF NamedIsWhole, NoneIsCorrupt, Whole
<1>6. ReadsAreWhole'
  BY OthersStay DEF Inv, ReadsAreWhole, At
<1>7. SyncedIsWhole'
  BY DEF SyncedIsWhole
<1> QED BY <1>1, <1>2, <1>3, <1>4, <1>5, <1>6, <1>7 DEF Inv

-----------------------------------------------------------------------------
(* One lemma for each action that is not of this kind *)

LEMMA CreateKeepsInv ==
  ASSUME Inv, NEW p \in Processes, Create(p)
  PROVE  Inv'
<1>1. Goes(p, "writing", 0) /\ file = -1 /\ file' = 0 /\ UNCHANGED <<synced, named, failed>>
  BY DEF Create, Starts, Absent
<1>2. \A q \in Processes : ~At(q, "writing")
  BY <1>1 DEF Inv, WriterIsAlone, TypeOK
<1>3. ~synced /\ (named => failed)
  BY <1>1, LengthAssumption DEF Inv, SyncedIsWhole, NamedIsWhole, TypeOK, Whole
<1>4. /\ proc'[p].pc = "writing" /\ proc'[p].n = 0
      /\ \A q \in Processes \ {p} : proc'[q] = proc[q]
      /\ proc' \in [Processes -> [pc : Busy \cup Ended, n : 0..Length]]
  BY <1>1, OthersStay, LengthAssumption DEF Inv, Busy, Ended
<1>5. TypeOK'
  BY <1>1, <1>4, LengthAssumption DEF Inv, TypeOK, Absent
<1>6. WriterIsAlone'
  BY <1>1, <1>2, <1>4 DEF WriterIsAlone, At
<1>7. ReadersFollow'
  BY <1>1, <1>4 DEF Inv, ReadersFollow, At, TypeOK
<1>8. SyncedIsWhole' /\ NoneIsCorrupt' /\ NamedIsWhole' /\ ReadsAreWhole'
  BY <1>1, <1>3, <1>4
  DEF Inv, SyncedIsWhole, NoneIsCorrupt, NamedIsWhole, ReadsAreWhole, At
<1> QED BY <1>5, <1>6, <1>7, <1>8 DEF Inv

LEMMA WriteKeepsInv ==
  ASSUME Inv, NEW p \in Processes, Write(p)
  PROVE  Inv'
<1> DEFINE n == proc[p].n + 1
<1>1. /\ At(p, "writing") /\ Goes(p, "writing", n) /\ file' = n
      /\ UNCHANGED <<synced, named, failed>>
  BY DEF Write
<1>2. file = proc[p].n /\ file \in 0..Length /\ n \in 0..Length /\ file < Length
  BY <1>1, LengthAssumption DEF Write, Inv, WriterIsAlone, TypeOK
<1>3. ~synced /\ (named => failed)
  BY <1>2 DEF Inv, SyncedIsWhole, NamedIsWhole, TypeOK, Whole
<1> HIDE DEF n
<1>4. /\ proc'[p].pc = "writing" /\ proc'[p].n = n
      /\ \A q \in Processes \ {p} : proc'[q] = proc[q]
      /\ proc' \in [Processes -> [pc : Busy \cup Ended, n : 0..Length]]
  BY <1>1, <1>2, OthersStay DEF Inv, Busy, Ended
<1>5. TypeOK'
  BY <1>1, <1>2, <1>4 DEF Inv, TypeOK, Absent
<1>6. WriterIsAlone'
  BY <1>1, <1>4 DEF Inv, WriterIsAlone, At
<1>7. ReadersFollow'
  <2>1. file <= n
    BY <1>2 DEF n
  <2> QED
    BY <1>1, <1>2, <1>4, <2>1 DEF Inv, ReadersFollow, At, TypeOK
<1>8. SyncedIsWhole' /\ NoneIsCorrupt' /\ NamedIsWhole' /\ ReadsAreWhole'
  BY <1>1, <1>3, <1>4
  DEF Inv, SyncedIsWhole, NoneIsCorrupt, NamedIsWhole, ReadsAreWhole, At
<1> QED BY <1>5, <1>6, <1>7, <1>8 DEF Inv

LEMMA PowerFailureKeepsInv ==
  ASSUME Inv, PowerFails
  PROVE  Inv'
<1>1. \A p \in Processes : proc'[p].pc = "idle" /\ proc'[p].n = 0
  BY DEF PowerFails
<1>2. file' \in Absent..Length /\ (synced' => file' = Length)
  BY LengthAssumption DEF PowerFails, Inv, TypeOK, SyncedIsWhole, Absent
<1>3. TypeOK'
  BY <1>2, LengthAssumption DEF PowerFails, Inv, TypeOK, Busy, Ended
<1>4. WriterIsAlone' /\ ReadersFollow' /\ NoneIsCorrupt' /\ ReadsAreWhole'
  BY <1>1 DEF WriterIsAlone, ReadersFollow, NoneIsCorrupt, ReadsAreWhole, At
<1>5. SyncedIsWhole' /\ NamedIsWhole'
  BY <1>2 DEF PowerFails, SyncedIsWhole, NamedIsWhole
<1> QED BY <1>3, <1>4, <1>5 DEF Inv

LEMMA NextInv ==
  ASSUME Inv, [Next]_vars
  PROVE  Inv'
<1>1. CASE UNCHANGED vars
  BY <1>1
  DEF vars, Inv, TypeOK, WriterIsAlone, ReadersFollow, SyncedIsWhole, NoneIsCorrupt,
      NamedIsWhole, ReadsAreWhole, At
<1>2. CASE PowerFails
  BY <1>2, PowerFailureKeepsInv
<1>3. ASSUME NEW p \in Processes,
             \/ Create(p) \/ Write(p) \/ Fsync(p) \/ FindExisting(p)
             \/ ReadOn(p) \/ Compare(p) \/ Open(p) \/ Verify(p) \/ Interrupted(p)
      PROVE  Inv'
  <2>0. /\ proc[p].pc \in Busy \cup Ended /\ proc[p].n \in 0..Length
        /\ file \in -1..Length /\ 0 \in 0..Length /\ Length \in Nat
        /\ named \in BOOLEAN /\ synced \in BOOLEAN
        /\ named /\ ~failed => file = Length
    BY LengthAssumption DEF Inv, TypeOK, NamedIsWhole, Absent, Whole
  <2>1. CASE Create(p)
    BY <2>1, CreateKeepsInv
  <2>2. CASE Write(p)
    BY <2>2, WriteKeepsInv
  <2>3. CASE Fsync(p)
    <3>1. file = Length
      BY <2>3 DEF Fsync, Inv, WriterIsAlone
    <3> QED
      BY <2>3, <2>0, <3>1, NothingIsWritten DEF Fsync, Ended
  <2>4. CASE FindExisting(p)
    <3>1. 0 <= file
      BY <2>4, <2>0 DEF FindExisting, Absent
    <3> QED
      BY <2>4, <2>0, <3>1, NothingIsWritten DEF FindExisting, Starts, Busy, Inv, SyncedIsWhole
  <2>5. CASE ReadOn(p)
    <3>1. proc[p].n + 1 \in 0..Length /\ proc[p].n + 1 <= file
      BY <2>5, <2>0 DEF ReadOn
    <3>2. proc[p].pc = "reading" => named
      BY <2>5 DEF Inv, ReadersFollow, At
    <3>3. Goes(p, proc[p].pc, proc[p].n + 1) /\ proc[p].pc \in {"comparing", "reading"}
          /\ UNCHANGED <<file, synced, named, failed>>
      BY <2>5 DEF ReadOn
    <3> QED
      BY <2>0, <3>1, <3>2, <3>3, NothingIsWritten DEF Busy, Inv, SyncedIsWhole
  <2>6. CASE Compare(p)
    <3>1. proc[p].n = file
      BY <2>6, <2>0 DEF Compare, At, Inv, ReadersFollow
    <3> QED
      BY <2>6, <2>0, <3>1, NothingIsWritten DEF Compare, SameContent, Ended, Inv, SyncedIsWhole
  <2>7. CASE Open(p)
    <3>1. 0 <= file
      BY <2>7, <2>0 DEF Open, Absent
    <3> QED
      BY <2>7, <2>0, <3>1, NothingIsWritten DEF Open, Starts, Busy, Inv, SyncedIsWhole
  <2>8. CASE Verify(p)
    <3>1. proc[p].n = file /\ named
      BY <2>8, <2>0 DEF Verify, At, Inv, ReadersFollow
    <3> QED
      BY <2>8, <2>0, <3>1, NothingIsWritten DEF Verify, DigestMatches, Ended, Inv, SyncedIsWhole
  <2>9. CASE Interrupted(p)
    BY <2>9, <2>0, NothingIsWritten DEF Interrupted, Ended, Inv, SyncedIsWhole
  <2> QED
    BY <1>3, <2>1, <2>2, <2>3, <2>4, <2>5, <2>6, <2>7, <2>8, <2>9
<1> QED BY <1>1, <1>2, <1>3 DEF Next

LEMMA Invariant == Spec => []Inv
BY InitInv, NextInv, PTL DEF Spec

-----------------------------------------------------------------------------
(* The theorems *)

\* Every variable keeps its type (storage.py).
THEOREM StoreTypesHold == Spec => []TypeOK
<1>1. Inv => TypeOK
  BY DEF Inv
<1> QED BY <1>1, Invariant, PTL

\* Unless the power fails, what a put has returned a reference to is complete, for
\* any number of concurrent and interrupted puts (storage.py:46-55).
THEOREM NamedObjectsAreWhole == Spec => []NamedIsWhole
<1>1. Inv => NamedIsWhole
  BY DEF Inv
<1> QED BY <1>1, Invariant, PTL

\* Bytes that a read returns are the content, whatever failed (storage.py:62-65).
THEOREM BytesReadAreWhole == Spec => []ReadsAreWhole
<1>1. Inv => ReadsAreWhole
  BY DEF Inv
<1> QED BY <1>1, Invariant, PTL

\* A complete object is never cut again, short of a power failure (storage.py:46).
THEOREM CompleteObjectsStay == Spec => WholeStays
<1>1. ASSUME Inv, [Next]_vars
      PROVE  [file = Whole /\ ~failed' => file' = Whole]_vars
  <2> SUFFICES ASSUME Next, file = Length, ~failed'
               PROVE  file' = Length
    BY <1>1 DEF Whole
  <2>1. ASSUME NEW p \in Processes PROVE ~Create(p) /\ ~Write(p)
    BY <1>1, <2>1, LengthAssumption DEF Create, Write, Inv, WriterIsAlone, Absent
  <2>2. ~PowerFails
    BY DEF PowerFails
  <2> QED
    BY <2>1, <2>2
    DEF Next, Fsync, FindExisting, ReadOn, Compare, Open, Verify, Interrupted
<1> QED BY <1>1, Invariant, PTL DEF Spec, WholeStays
=============================================================================
