----------------------- MODULE TableLifecycle_proofs -----------------------
(***************************************************************************)
(* What passes from one life of a table to the next on the primary, for    *)
(* any number of lives, crashes and lines (up to TypeCorrect), and what    *)
(* its replica has of the first one, for any number of attempts and Syncs  *)
(* of the background loop.                                                 *)
(***************************************************************************)
EXTENDS ReplicatedTable, SequenceTheorems, TLAPS

Table == [dim : Dim, value : Nat]
Logged == {"dropLogged", "dropSynced", "snapshotGone"}

\* The types of the primary's own state.
Typed ==
    /\ proc \in Proc
    /\ table \in Tables /\ expect \in Tables
    /\ proc \in Dropping \cup Stopping \cup {"replay"} => table # NoTable
    /\ proc = "down" => table = NoTable
    /\ hasLog \in BOOLEAN /\ mixed \in BOOLEAN /\ torn \in BOOLEAN
    /\ wal \in Seq(Line)
    /\ ~hasLog => wal = << >>
    /\ metadata \in Dim \cup {NoTable}
    /\ snapshot \in Nat /\ life \in Nat
    /\ pos \in 0 .. Len(wal)
    /\ proc \notin {"replay", "hung"} => pos = 0

-----------------------------------------------------------------------------
(* Values.                                                                 *)

\* A write gives a table of the dimensionalities and keeps its own.
LEMMA EffectTable ==
    ASSUME NEW t \in Table, NEW e \in Line
    PROVE  /\ Effect(t, e) \in Table /\ Effect(t, e).dim = t.dim
           /\ Effect(t, e).value = IF ~Succeeds(t, e) THEN t.value
                                   ELSE IF e.op = "insert" THEN e.life ELSE 0
BY DEF Effect, Table, Line

\* A table is a record, and the absence of one is not.
LEMMA TableOrNone ==
    ASSUME NEW t \in Tables
    PROVE  t # NoTable <=> t \in Table
BY ConstantsAssumption DEF ConstantsAssumption, Tables, Table

\* What the actions leave alone, or append.
LEMMA LineAppended ==
    ASSUME Typed, NEW e \in Line
    PROVE  /\ Append(wal, e) \in Seq(Line)
           /\ Append(wal, e) # << >>
           /\ Len(Append(wal, e)) = Len(wal) + 1
           /\ \A i \in 1 .. Len(wal) : Append(wal, e)[i] = wal[i]
           /\ Append(wal, e)[Len(wal) + 1] = e
           /\ pos \in 0 .. Len(Append(wal, e))
<1>1. wal \in Seq(Line)
  BY DEF Typed
<1>2. pos \in 0 .. Len(wal)
  BY DEF Typed
<1> QED BY <1>1, <1>2

\* The empty log.
LEMMA EmptyLog == << >> \in Seq(Line) /\ Len(<< >>) = 0
OBVIOUS

-----------------------------------------------------------------------------
(* Types.                                                                  *)

\* Every step keeps the types.
LEMMA TypedStep ==
    ASSUME Typed, [Next]_vars
    PROVE  Typed'
<1>1. ASSUME NEW dim \in Dim, CreateTable(dim) PROVE Typed'
  <2>1. PICK e : e = [op |-> "create", dim |-> dim, life |-> life']
    OBVIOUS
  <2>2. e \in Line
    BY <1>1, <2>1 DEF CreateTable, Line, Typed
  <2>3. NewTable(dim) \in Table
    BY DEF NewTable, Table
  <2>4. /\ wal' = Append(wal, e) /\ hasLog' = TRUE /\ life' = life + 1
        /\ table' = NewTable(dim) /\ expect' = NewTable(dim)
        /\ mixed' = (wal # << >>) /\ proc = "up"
        /\ UNCHANGED <<proc, snapshot, metadata, pos, torn>>
    BY <1>1, <2>1 DEF CreateTable, AppendLine
  <2>5. table' \in Tables /\ table' # NoTable
    BY <2>3, <2>4, TableOrNone DEF Tables, Table
  <2> QED BY <2>2, <2>4, <2>5, LineAppended DEF Typed, Dropping, Stopping
<1>2. ASSUME NEW op \in {"insert", "remove"}, Write(op) PROVE Typed'
  <2>1. PICK e : e = [op |-> op, dim |-> table.dim, life |-> life]
    OBVIOUS
  <2>2. table \in Table /\ e \in Line
    BY <1>2, <2>1, TableOrNone DEF Write, Line, Typed, Table
  <2>3. /\ wal' = Append(wal, e) /\ hasLog' = TRUE
        /\ table' = Effect(table, e) /\ expect' = Effect(table, e)
        /\ proc = "up"
        /\ UNCHANGED <<proc, snapshot, metadata, pos, torn, mixed, life>>
    BY <1>2, <2>1 DEF Write, AppendLine
  <2>4. table' \in Tables /\ table' # NoTable
    BY <2>2, <2>3, EffectTable, TableOrNone DEF Tables, Table
  <2> QED BY <2>2, <2>3, <2>4, LineAppended DEF Typed, Dropping, Stopping
<1>3. CASE AppendDrop
  <2>1. PICK e : e = [op |-> "drop", dim |-> table.dim, life |-> life]
    OBVIOUS
  <2>2. table \in Table /\ e \in Line
    BY <1>3, <2>1, TableOrNone DEF AppendDrop, Line, Typed, Table
  <2>3. /\ wal' = Append(wal, e) /\ hasLog' = TRUE
        /\ proc' = "dropLogged" /\ table # NoTable
        /\ UNCHANGED <<table, expect, snapshot, metadata, pos, torn, mixed, life>>
    BY <1>3, <2>1 DEF AppendDrop, AppendLine, Move, history
  <2>4. proc = "up"
    BY <1>3 DEF AppendDrop, Move
  <2>5. wal' \in Seq(Line) /\ wal' # << >> /\ pos' \in 0 .. Len(wal')
    BY <2>2, <2>3, LineAppended
  <2> QED BY <2>3, <2>4, <2>5 DEF Typed, Dropping, Stopping, Proc
<1>4. CASE Restart
  <2>1. PICK e : e = [op |-> "create", dim |-> metadata, life |-> life]
    OBVIOUS
  <2>2. metadata \in Dim /\ e \in Line
    BY <1>4, <2>1 DEF Restart, Line, Typed
  <2>3. /\ wal' = Append(wal, e) /\ hasLog' = TRUE
        /\ proc' = "replay" /\ table' = [dim |-> metadata, value |-> snapshot]
        /\ UNCHANGED <<expect, snapshot, metadata, pos, torn, mixed, life>>
    BY <1>4, <2>1 DEF Restart, AppendLine, history
  <2>4. table' \in Tables /\ table' # NoTable
    BY <2>2, <2>3, TableOrNone DEF Tables, Table, Typed
  <2> QED BY <2>2, <2>3, <2>4, LineAppended DEF Typed, Dropping, Stopping, Proc
<1>5. CASE ReplayEntry
  <2>1. pos + 1 \in 1 .. Len(wal) /\ pos' = pos + 1 /\ proc = "replay"
    BY <1>5 DEF ReplayEntry, Typed
  <2>2. PICK e \in Line : e = wal[pos + 1]
    BY <2>1 DEF Typed
  <2>3. table \in Table
    BY <2>1, TableOrNone DEF Typed
  <2>4. /\ table' = IF e.op \in {"create", "drop"} THEN table ELSE Effect(table, e)
        /\ proc' \in {"hung", "replay"}
        /\ UNCHANGED <<expect, files, torn, mixed, life>>
    BY <1>5, <2>2 DEF ReplayEntry, history
  <2>5. table' \in Table
    BY <2>3, <2>4, EffectTable
  <2>6. table' \in Tables /\ table' # NoTable
    BY <2>5, TableOrNone DEF Tables, Table
  <2> QED BY <2>1, <2>4, <2>6 DEF Typed, Dropping, Stopping, Proc, files
<1>6. CASE DropSync
  BY <1>6 DEF DropSync, Move, Typed, Dropping, Stopping, Proc, files, history
<1>7. CASE RemoveSnapshot
  BY <1>7 DEF RemoveSnapshot, Move, Typed, Dropping, Stopping, Proc, history
<1>8. CASE RemoveLog
  <2>1. /\ proc' = "logGone" /\ hasLog' = FALSE /\ wal' = << >> /\ pos' = pos
        /\ UNCHANGED <<table, expect, snapshot, metadata, torn, mixed, life>>
        /\ proc = "snapshotGone"
    BY <1>8 DEF RemoveLog, Move, history
  <2>2. pos = 0
    BY <2>1 DEF Typed
  <2>3. wal' \in Seq(Line) /\ pos' \in 0 .. Len(wal')
    BY <2>1, <2>2, EmptyLog
  <2> QED BY <2>1, <2>2, <2>3 DEF Typed, Dropping, Stopping, Proc
<1>9. CASE RemoveMetadata
  BY <1>9 DEF RemoveMetadata, Move, Typed, Dropping, Stopping, Proc, Tables
<1>12. CASE StopEmpty
  BY <1>12 DEF StopEmpty, Move, ForgetMemory, Typed, Dropping, Stopping, Proc, files, Tables
<1>13. CASE BeginStop
  BY <1>13 DEF BeginStop, Move, Typed, Dropping, Stopping, Proc, files, history
<1>14. CASE StopSync
  BY <1>14 DEF StopSync, Move, Typed, Dropping, Stopping, Proc, files, history
<1>15. CASE SaveSnapshot
  <2>1. table.value \in Nat
    BY <1>15, TableOrNone DEF SaveSnapshot, Move, Typed, Stopping, Table
  <2> QED BY <1>15, <2>1 DEF SaveSnapshot, Move, Typed, Dropping, Stopping, Proc, history
<1>16. CASE SaveMetadata
  <2>1. table.dim \in Dim
    BY <1>16, TableOrNone DEF SaveMetadata, Move, Typed, Stopping, Table
  <2> QED BY <1>16, <2>1 DEF SaveMetadata, Move, Typed, Dropping, Stopping, Proc, history
<1>17. CASE ClearWAL
  BY <1>17 DEF ClearWAL, Move, ForgetMemory, Typed, Dropping, Stopping, Proc, Tables
<1>18. CASE Crash
  BY <1>18 DEF Crash, ForgetMemory, Typed, Dropping, Stopping, Proc, files, Tables
<1>19. CASE RestartWithout
  BY <1>19 DEF RestartWithout, Typed, Dropping, Stopping, Proc, files, history
<1>20. CASE EndReplay
  BY <1>20 DEF EndReplay, Move, Typed, Dropping, Stopping, Proc, files, history
<1>21. CASE UNCHANGED vars
  BY <1>21 DEF vars, files, history, Typed
<1> QED
  BY <1>1, <1>2, <1>3, <1>4, <1>5, <1>6, <1>7, <1>8, <1>9, <1>12,
     <1>13, <1>14, <1>15, <1>16, <1>17, <1>18, <1>19, <1>20, <1>21
  DEF Next, DropStep, StopStep

-----------------------------------------------------------------------------
(* Drop lines.                                                             *)

\* A drop line is in the log only while the table is dropped, but for a crash
\* in between.
DropsUnderWay ==
    ~torn => /\ proc # "hung"
             /\ \A i \in 1 .. Len(wal) : wal[i].op = "drop" => proc \in Logged

\* Every step keeps it so.
LEMMA DropsStep ==
    ASSUME Typed, DropsUnderWay, [Next]_vars
    PROVE  DropsUnderWay'
<1>1. ASSUME NEW e \in Line, e.op # "drop", wal' = Append(wal, e),
             torn' = torn, proc' # "hung", proc \notin Logged
      PROVE  DropsUnderWay'
  <2>1. PICK w \in Seq(Line) :
           /\ w = Append(wal, e) /\ Len(w) = Len(wal) + 1
           /\ \A i \in 1 .. Len(wal) : w[i] = wal[i]
           /\ w[Len(wal) + 1] = e
    BY LineAppended
  <2>2. \A i \in 1 .. Len(w) : i \in 1 .. Len(wal) \/ i = Len(wal) + 1
    BY <2>1 DEF Typed
  <2>3. ~torn => \A i \in 1 .. Len(w) : w[i].op # "drop"
    BY <1>1, <2>1, <2>2 DEF DropsUnderWay
  <2> QED BY <1>1, <2>1, <2>3 DEF DropsUnderWay
<1>2. ASSUME UNCHANGED <<torn, wal>>, proc' # "hung", proc \in Logged => proc' \in Logged
      PROVE  DropsUnderWay'
  BY <1>2 DEF DropsUnderWay
<1>3. ASSUME NEW dim \in Dim, CreateTable(dim) PROVE DropsUnderWay'
  <2>1. PICK e : e = [op |-> "create", dim |-> dim, life |-> life']
    OBVIOUS
  <2>2. e \in Line /\ e.op # "drop"
    BY <1>3, <2>1 DEF CreateTable, Line, Typed
  <2>3. wal' = Append(wal, e) /\ UNCHANGED <<torn, proc>> /\ proc = "up"
    BY <1>3, <2>1 DEF CreateTable, AppendLine
  <2> QED BY <1>1, <2>2, <2>3 DEF Logged
<1>4. ASSUME NEW op \in {"insert", "remove"}, Write(op) PROVE DropsUnderWay'
  <2>1. PICK e : e = [op |-> op, dim |-> table.dim, life |-> life]
    OBVIOUS
  <2>2. table \in Table /\ e \in Line /\ e.op # "drop"
    BY <1>4, <2>1, TableOrNone DEF Write, Line, Typed, Table
  <2>3. wal' = Append(wal, e) /\ UNCHANGED <<torn, proc>> /\ proc = "up"
    BY <1>4, <2>1 DEF Write, AppendLine
  <2> QED BY <1>1, <2>2, <2>3 DEF Logged
<1>5. CASE AppendDrop
  <2>1. proc' \in Logged /\ proc' # "hung"
    BY <1>5 DEF AppendDrop, Move, Logged
  <2> QED BY <2>1 DEF DropsUnderWay
<1>6. CASE Restart
  <2>1. PICK e : e = [op |-> "create", dim |-> metadata, life |-> life]
    OBVIOUS
  <2>2. e \in Line /\ e.op # "drop"
    BY <1>6, <2>1 DEF Restart, Line, Typed
  <2>3. wal' = Append(wal, e) /\ torn' = torn /\ proc' = "replay" /\ proc = "down"
    BY <1>6, <2>1 DEF Restart, AppendLine, history
  <2> QED BY <1>1, <2>2, <2>3 DEF Logged
<1>7. CASE ReplayEntry
  <2>1. /\ pos + 1 \in 1 .. Len(wal) /\ proc = "replay"
        /\ proc' = IF wal[pos + 1].op = "drop" THEN "hung" ELSE "replay"
        /\ UNCHANGED <<torn, wal>>
    BY <1>7 DEF ReplayEntry, Typed, files, history
  <2> QED BY <2>1 DEF DropsUnderWay, Logged
<1>8. CASE DropSync
  BY <1>2, <1>8 DEF DropSync, Move, Logged, files, history
<1>9. CASE RemoveSnapshot
  BY <1>2, <1>9 DEF RemoveSnapshot, Move, Logged, history
<1>10. CASE RemoveLog
  <2>1. wal' = << >> /\ proc' = "logGone"
    BY <1>10 DEF RemoveLog, Move
  <2> QED BY <2>1 DEF DropsUnderWay
<1>11. CASE RemoveMetadata
  BY <1>2, <1>11 DEF RemoveMetadata, Move, Logged
<1>13. CASE Crash
  <2>1. /\ torn' = (torn \/ proc \in Dropping) /\ proc' = "down" /\ wal' = wal
    BY <1>13 DEF Crash, files
  <2> QED BY <2>1 DEF DropsUnderWay, Dropping, Logged
<1>14. CASE ClearWAL
  <2>1. wal' = << >> /\ proc' = "down"
    BY <1>14 DEF ClearWAL, Move
  <2> QED BY <2>1 DEF DropsUnderWay
<1>15. CASE UNCHANGED <<torn, wal, proc>>
  BY <1>15 DEF DropsUnderWay
<1>16. CASE UNCHANGED vars
  BY <1>15, <1>16 DEF vars, files, history
<1>17. CASE StopEmpty
  BY <1>2, <1>17 DEF StopEmpty, Move, Logged, files
<1>18. CASE BeginStop \/ StopSync
  BY <1>2, <1>18 DEF BeginStop, StopSync, Move, Logged, files, history
<1>19. CASE SaveSnapshot \/ SaveMetadata
  BY <1>2, <1>19 DEF SaveSnapshot, SaveMetadata, Move, Logged, history
<1>20. CASE RestartWithout
  BY <1>2, <1>20 DEF RestartWithout, Logged, files, history
<1>21. CASE EndReplay
  BY <1>2, <1>21 DEF EndReplay, Move, Logged, files, history
<1> QED
  BY <1>3, <1>4, <1>5, <1>6, <1>7, <1>8, <1>9, <1>10, <1>11,
     <1>13, <1>14, <1>16, <1>17, <1>18, <1>19, <1>20, <1>21
  DEF Next, DropStep, StopStep

\* The initial types.
LEMMA InitTyped == Init => Typed
<1> SUFFICES ASSUME Init PROVE Typed
  OBVIOUS
<1>1. wal \in Seq(Line) /\ pos \in 0 .. Len(wal)
  BY EmptyLog DEF Init
<1>2. table = NoTable /\ table \in Tables /\ expect \in Tables
  BY DEF Init, Tables
<1>3. /\ hasLog \in BOOLEAN /\ mixed \in BOOLEAN /\ torn \in BOOLEAN
      /\ wal = << >> /\ metadata \in Dim \cup {NoTable}
      /\ snapshot \in Nat /\ life \in Nat /\ pos = 0
  BY DEF Init
<1>4. proc \in Proc /\ proc \notin Dropping \cup Stopping \cup {"replay", "down"}
  BY DEF Init, Proc, Dropping, Stopping
<1> QED BY <1>1, <1>2, <1>3, <1>4 DEF Typed

\* The constructor hangs in the replay of a drop line only after a crash
\* inside DropTable.
THEOREM NeverHangs == Spec => []HangsOnlyAfterTornDrop
<1>1. Init => Typed /\ DropsUnderWay
  <2>1. Init => Len(wal) = 0 /\ proc = "up"
    BY EmptyLog DEF Init
  <2>2. Init => DropsUnderWay
    BY <2>1 DEF DropsUnderWay
  <2> QED BY <2>2, InitTyped
<1>2. Typed /\ DropsUnderWay /\ [Next]_vars => Typed' /\ DropsUnderWay'
  BY TypedStep, DropsStep
<1>3. DropsUnderWay => HangsOnlyAfterTornDrop
  BY DEF DropsUnderWay, HangsOnlyAfterTornDrop
<1> QED
  BY <1>1, <1>2, <1>3, PTL DEF Spec
-----------------------------------------------------------------------------
(* Files of an older life.                                                 *)

\* What the files of a table that is not served can hold.
FilesApart ==
    /\ table # NoTable /\ proc # "logGone" => wal # << >>
    /\ proc \in {"snapshotGone", "logGone"} => snapshot = 0
    /\ wal = << >> /\ metadata = NoTable => snapshot = 0
    /\ ~hasLog => snapshot = 0
    /\ proc = "metadataSaved" => metadata # NoTable
    /\ proc = "up" /\ table = NoTable => ~hasLog \/ metadata = NoTable

\* Every step keeps it so.
LEMMA FilesApartStep ==
    ASSUME Typed, FilesApart, [Next]_vars
    PROVE  FilesApart'
<1>1. ASSUME NEW e \in Line, wal' = Append(wal, e) PROVE wal' # << >>
  BY <1>1, LineAppended
<1>2. ASSUME NEW dim \in Dim, CreateTable(dim) PROVE FilesApart'
  <2>1. PICK e : e = [op |-> "create", dim |-> dim, life |-> life']
    OBVIOUS
  <2>2. e \in Line
    BY <1>2, <2>1 DEF CreateTable, Line, Typed
  <2>3. /\ wal' = Append(wal, e) /\ hasLog' = TRUE /\ proc' = "up"
    BY <1>2, <2>1 DEF CreateTable, AppendLine
  <2>4. table' # NoTable
    BY <1>2, ConstantsAssumption DEF CreateTable, NewTable, ConstantsAssumption
  <2> QED BY <1>1, <2>2, <2>3, <2>4 DEF FilesApart
<1>3. ASSUME NEW op \in {"insert", "remove"}, Write(op) PROVE FilesApart'
  <2>1. PICK e : e = [op |-> op, dim |-> table.dim, life |-> life]
    OBVIOUS
  <2>2. table \in Table /\ e \in Line
    BY <1>3, <2>1, TableOrNone DEF Write, Line, Typed, Table
  <2>3. /\ wal' = Append(wal, e) /\ hasLog' = TRUE /\ proc' = "up"
        /\ table' = Effect(table, e)
    BY <1>3, <2>1 DEF Write, AppendLine
  <2>4. table' # NoTable
    BY <2>2, <2>3, EffectTable, TableOrNone DEF Tables, Table
  <2> QED BY <1>1, <2>2, <2>3, <2>4 DEF FilesApart
<1>4. CASE AppendDrop
  <2>1. PICK e : e = [op |-> "drop", dim |-> table.dim, life |-> life]
    OBVIOUS
  <2>2. table \in Table /\ e \in Line
    BY <1>4, <2>1, TableOrNone DEF AppendDrop, Line, Typed, Table
  <2>3. /\ wal' = Append(wal, e) /\ hasLog' = TRUE /\ proc' = "dropLogged"
    BY <1>4, <2>1 DEF AppendDrop, AppendLine, Move
  <2> QED BY <1>1, <2>2, <2>3 DEF FilesApart
<1>5. CASE Restart
  <2>1. PICK e : e = [op |-> "create", dim |-> metadata, life |-> life]
    OBVIOUS
  <2>2. e \in Line
    BY <1>5, <2>1 DEF Restart, Line, Typed
  <2>3. /\ wal' = Append(wal, e) /\ hasLog' = TRUE /\ proc' = "replay"
    BY <1>5, <2>1 DEF Restart, AppendLine
  <2> QED BY <1>1, <2>2, <2>3 DEF FilesApart
<1>6. CASE ReplayEntry
  <2>1. /\ table # NoTable /\ proc = "replay" /\ proc' \in {"replay", "hung"}
        /\ UNCHANGED files
    BY <1>6 DEF ReplayEntry, Typed
  <2> QED BY <2>1 DEF FilesApart, files
<1>7. CASE DropSync
  BY <1>7 DEF DropSync, Move, FilesApart, files, history
<1>8. CASE RemoveSnapshot
  BY <1>8 DEF RemoveSnapshot, Move, FilesApart
<1>9. CASE RemoveLog
  BY <1>9 DEF RemoveLog, Move, FilesApart
<1>10. CASE RemoveMetadata
  BY <1>10 DEF RemoveMetadata, Move, FilesApart
<1>12. CASE Crash
  BY <1>12 DEF Crash, ForgetMemory, FilesApart, files
<1>13. CASE StopEmpty
  BY <1>13 DEF StopEmpty, ForgetMemory, Move, FilesApart, files
<1>14. CASE BeginStop \/ StopSync
  BY <1>14 DEF BeginStop, StopSync, Move, FilesApart, files
<1>15. CASE SaveSnapshot
  <2>1. /\ wal # << >> /\ hasLog /\ proc' = "snapshotSaved"
        /\ UNCHANGED <<table, wal, hasLog>>
    BY <1>15 DEF SaveSnapshot, Move, FilesApart, Typed, Stopping
  <2> QED BY <2>1 DEF FilesApart
<1>16. CASE SaveMetadata
  <2>1. /\ wal # << >> /\ hasLog /\ proc' = "metadataSaved"
        /\ UNCHANGED <<table, wal, hasLog>> /\ table # NoTable
        /\ metadata' = table.dim
    BY <1>16 DEF SaveMetadata, Move, FilesApart, Typed, Stopping
  <2>2. metadata' # NoTable
    BY <2>1, TableOrNone, ConstantsAssumption DEF Typed, Table, ConstantsAssumption
  <2> QED BY <2>1, <2>2 DEF FilesApart
<1>17. CASE ClearWAL
  <2>1. /\ hasLog /\ metadata # NoTable
    BY <1>17 DEF ClearWAL, Move, FilesApart, Typed, Stopping
  <2> QED BY <1>17, <2>1 DEF ClearWAL, Move, ForgetMemory, FilesApart
<1>18. CASE RestartWithout
  <2>1. table = NoTable /\ UNCHANGED <<table, files>> /\ proc' = "up"
        /\ (~hasLog \/ metadata = NoTable)
    BY <1>18 DEF RestartWithout, Typed
  <2> QED BY <2>1 DEF FilesApart, files
<1>19. CASE EndReplay
  <2>1. table # NoTable /\ UNCHANGED <<table, files>> /\ proc = "replay" /\ proc' = "up"
    BY <1>19 DEF EndReplay, Move, Typed
  <2> QED BY <2>1 DEF FilesApart, files
<1>20. CASE UNCHANGED vars
  BY <1>20 DEF vars, FilesApart, files
<1> QED
  BY <1>2, <1>3, <1>4, <1>5, <1>6, <1>7, <1>8, <1>9, <1>10, <1>12,
     <1>13, <1>14, <1>15, <1>16, <1>17, <1>18, <1>19, <1>20
  DEF Next, DropStep, StopStep

\* A life that was not mixed with an older one has left its own values only.
OneLife == ~mixed => /\ \A i \in 1 .. Len(wal) : wal[i].life = life
                     /\ snapshot \in {0, life}
                     /\ table # NoTable => table.value \in {0, life}

\* Every step keeps it so.
LEMMA OneLifeStep ==
    ASSUME Typed, FilesApart, OneLife, [Next]_vars
    PROVE  OneLife'
<1>1. ASSUME NEW e \in Line, e.life = life, wal' = Append(wal, e), UNCHANGED <<life, mixed>>, ~mixed
      PROVE  \A i \in 1 .. Len(wal') : wal'[i].life = life'
  <2>1. PICK w \in Seq(Line) :
           /\ w = Append(wal, e) /\ Len(w) = Len(wal) + 1
           /\ \A i \in 1 .. Len(wal) : w[i] = wal[i]
           /\ w[Len(wal) + 1] = e
    BY LineAppended
  <2>2. \A i \in 1 .. Len(w) : i \in 1 .. Len(wal) \/ i = Len(wal) + 1
    BY <2>1 DEF Typed
  <2> QED BY <1>1, <2>1, <2>2 DEF OneLife
<1>2. ASSUME NEW dim \in Dim, CreateTable(dim) PROVE OneLife'
  <2> SUFFICES ASSUME ~mixed' PROVE OneLife'
    BY DEF OneLife
  <2>1. PICK e : e = [op |-> "create", dim |-> dim, life |-> life']
    OBVIOUS
  <2>2. e \in Line /\ e.life = life'
    BY <1>2, <2>1 DEF CreateTable, Line, Typed
  <2>3. wal' = Append(wal, e) /\ wal = << >>
    BY <1>2, <2>1 DEF CreateTable, AppendLine
  <2>4. Len(wal') = 1 /\ wal'[1] = e
    BY <2>2, <2>3, LineAppended, EmptyLog
  <2>5. table' = NewTable(dim) /\ snapshot' = snapshot /\ proc = "up" /\ table = NoTable
    BY <1>2 DEF CreateTable
  <2>6. snapshot = 0
    BY <2>3, <2>5 DEF FilesApart
  <2>7. \A i \in 1 .. Len(wal') : wal'[i].life = life'
    BY <2>2, <2>4
  <2> QED BY <2>5, <2>6, <2>7 DEF OneLife, NewTable
<1>3. ASSUME NEW op \in {"insert", "remove"}, Write(op) PROVE OneLife'
  <2>1. PICK e : e = [op |-> op, dim |-> table.dim, life |-> life]
    OBVIOUS
  <2>2. table \in Table /\ e \in Line /\ e.life = life /\ table # NoTable
    BY <1>3, <2>1, TableOrNone DEF Write, Line, Typed, Table
  <2>3. /\ wal' = Append(wal, e)
        /\ table' = Effect(table, e)
        /\ UNCHANGED <<snapshot, life, mixed>>
    BY <1>3, <2>1 DEF Write, AppendLine
  <2>4. ~mixed => table'.value \in {0, life}
    BY <2>2, <2>3, EffectTable DEF OneLife
  <2> QED BY <1>1, <2>2, <2>3, <2>4 DEF OneLife
<1>4. CASE AppendDrop
  <2>1. PICK e : e = [op |-> "drop", dim |-> table.dim, life |-> life]
    OBVIOUS
  <2>2. table \in Table /\ e \in Line /\ e.life = life
    BY <1>4, <2>1, TableOrNone DEF AppendDrop, Line, Typed, Table
  <2>3. wal' = Append(wal, e) /\ UNCHANGED <<snapshot, life, mixed, table>>
    BY <1>4, <2>1 DEF AppendDrop, AppendLine, history
  <2> QED BY <1>1, <2>2, <2>3 DEF OneLife
<1>5. CASE Restart
  <2>1. PICK e : e = [op |-> "create", dim |-> metadata, life |-> life]
    OBVIOUS
  <2>2. e \in Line /\ e.life = life
    BY <1>5, <2>1 DEF Restart, Line, Typed
  <2>3. /\ wal' = Append(wal, e) /\ UNCHANGED <<snapshot, life, mixed>>
        /\ table' = [dim |-> metadata, value |-> snapshot]
    BY <1>5, <2>1 DEF Restart, AppendLine, history
  <2> QED BY <1>1, <2>2, <2>3 DEF OneLife
<1>6. CASE ReplayEntry
  <2>1. pos + 1 \in 1 .. Len(wal) /\ proc = "replay"
    BY <1>6 DEF ReplayEntry, Typed
  <2>2. PICK e \in Line : e = wal[pos + 1]
    BY <2>1 DEF Typed
  <2>3. table \in Table /\ table # NoTable
    BY <2>1, TableOrNone DEF Typed
  <2>4. /\ table' = IF e.op \in {"create", "drop"} THEN table ELSE Effect(table, e)
        /\ UNCHANGED <<files, mixed, life>>
    BY <1>6, <2>2 DEF ReplayEntry, history
  <2>5. ~mixed => e.life = life
    BY <2>1, <2>2 DEF OneLife
  <2>6. ~mixed => table'.value \in {0, life}
    BY <2>2, <2>3, <2>4, <2>5, EffectTable DEF OneLife
  <2> QED BY <2>4, <2>6 DEF OneLife, files
<1>7. CASE SaveSnapshot
  BY <1>7 DEF SaveSnapshot, Move, OneLife, Typed, Stopping, history
<1>8. CASE RemoveLog \/ ClearWAL
  <2>1. wal' = << >> /\ UNCHANGED <<snapshot, life, mixed>> /\ (table' = table \/ table' = NoTable)
    BY <1>8 DEF RemoveLog, ClearWAL, ForgetMemory, history
  <2>2. Len(wal') = 0
    BY <2>1, EmptyLog
  <2> QED BY <2>1, <2>2 DEF OneLife
<1>9. ASSUME UNCHANGED <<wal, life, mixed>>, snapshot' = snapshot \/ snapshot' = 0,
             table' = table \/ table' = NoTable
      PROVE  OneLife'
  BY <1>9 DEF OneLife
<1>10. CASE DropSync \/ StopSync
  BY <1>9, <1>10 DEF DropSync, StopSync, files, history
<1>11. CASE RemoveSnapshot \/ RemoveMetadata
  BY <1>9, <1>11 DEF RemoveSnapshot, RemoveMetadata, history
<1>12. CASE Crash \/ StopEmpty
  BY <1>9, <1>12 DEF Crash, StopEmpty, ForgetMemory, files
<1>13. CASE BeginStop \/ SaveMetadata
  BY <1>9, <1>13 DEF BeginStop, SaveMetadata, files, history
<1>14. CASE RestartWithout \/ EndReplay
  BY <1>9, <1>14 DEF RestartWithout, EndReplay, files, history
<1>15. CASE UNCHANGED vars
  BY <1>9, <1>15 DEF vars, files, history
<1> QED
  BY <1>2, <1>3, <1>4, <1>5, <1>6, <1>7, <1>8, <1>10, <1>11, <1>12, <1>13, <1>14, <1>15
  DEF Next, DropStep, StopStep

\* The initial state of an engine without tables.
LEMMA InitApart == Init => FilesApart /\ OneLife
<1>1. Init => Len(wal) = 0 /\ table = NoTable /\ snapshot = 0 /\ hasLog = FALSE /\ proc = "up"
  BY EmptyLog DEF Init
<1> QED BY <1>1 DEF FilesApart, OneLife

\* A life that was not mixed with an older one never shows an older value,
\* whatever crashes there were, inside DropTable too.
THEOREM NoOlderValue == Spec => []NoValueFromOlderLife
<1>1. Init => Typed /\ FilesApart /\ OneLife
  BY InitTyped, InitApart
<1>2. Typed /\ FilesApart /\ OneLife /\ [Next]_vars => Typed' /\ FilesApart' /\ OneLife'
  BY TypedStep, FilesApartStep, OneLifeStep
<1>3. OneLife => NoValueFromOlderLife
  BY DEF OneLife, NoValueFromOlderLife
<1> QED
  BY <1>1, <1>2, <1>3, PTL DEF Spec
-----------------------------------------------------------------------------
(* The last write.                                                         *)

IsWrite(e) == e.op \in {"insert", "remove"}
Left(e, l) == IF e.op = "insert" THEN l ELSE 0

\* Value v is what the first n lines of w leave, in a table that starts with
\* value b and is in its life l.
Leave(w, n, b, l, v) ==
    \/ v = b /\ \A i \in 1 .. n : ~IsWrite(w[i])
    \/ \E i \in 1 .. n : /\ IsWrite(w[i]) /\ v = Left(w[i], l)
                        /\ \A j \in i + 1 .. n : ~IsWrite(w[j])

\* They leave one value.
LEMMA LeaveOne ==
    ASSUME NEW w, NEW n \in Nat, NEW b, NEW l, NEW v, NEW u,
           Leave(w, n, b, l, v), Leave(w, n, b, l, u)
    PROVE  v = u
<1>1. CASE \A i \in 1 .. n : ~IsWrite(w[i])
  BY <1>1 DEF Leave
<1>2. CASE \E i \in 1 .. n : IsWrite(w[i])
  <2>1. PICK i \in 1 .. n : /\ IsWrite(w[i]) /\ v = Left(w[i], l)
                           /\ \A j \in i + 1 .. n : ~IsWrite(w[j])
    BY <1>2 DEF Leave
  <2>2. PICK j \in 1 .. n : /\ IsWrite(w[j]) /\ u = Left(w[j], l)
                           /\ \A k \in j + 1 .. n : ~IsWrite(w[k])
    BY <1>2 DEF Leave
  <2>3. ~(i < j)
    <3>1. i < j => j \in i + 1 .. n
      OBVIOUS
    <3> QED BY <2>1, <2>2, <3>1
  <2>4. ~(j < i)
    <3>1. j < i => i \in j + 1 .. n
      OBVIOUS
    <3> QED BY <2>1, <2>2, <3>1
  <2>5. i = j
    BY <2>3, <2>4
  <2> QED BY <2>1, <2>2, <2>5
<1> QED BY <1>1, <1>2

\* Only the lines themselves count.
LEMMA LeaveSame ==
    ASSUME NEW w, NEW x, NEW n \in Nat, NEW b, NEW l, NEW v,
           \A i \in 1 .. n : x[i] = w[i],
           Leave(w, n, b, l, v)
    PROVE  Leave(x, n, b, l, v)
<1>1. CASE v = b /\ \A i \in 1 .. n : ~IsWrite(w[i])
  BY <1>1 DEF Leave
<1>2. CASE \E i \in 1 .. n : /\ IsWrite(w[i]) /\ v = Left(w[i], l)
                            /\ \A j \in i + 1 .. n : ~IsWrite(w[j])
  <2>1. PICK i \in 1 .. n : /\ IsWrite(w[i]) /\ v = Left(w[i], l)
                           /\ \A j \in i + 1 .. n : ~IsWrite(w[j])
    BY <1>2
  <2>2. \A j \in i + 1 .. n : j \in 1 .. n
    OBVIOUS
  <2>3. /\ IsWrite(x[i]) /\ v = Left(x[i], l)
        /\ \A j \in i + 1 .. n : ~IsWrite(x[j])
    BY <2>1, <2>2
  <2> QED BY <2>3 DEF Leave
<1> QED BY <1>1, <1>2 DEF Leave

\* A line that writes nothing leaves the value.
LEMMA LeaveOther ==
    ASSUME NEW w, NEW n \in Nat, NEW b, NEW l, NEW v,
           Leave(w, n, b, l, v), ~IsWrite(w[n + 1])
    PROVE  Leave(w, n + 1, b, l, v)
<1>1. \A i \in 1 .. n + 1 : i \in 1 .. n \/ i = n + 1
  OBVIOUS
<1>2. CASE v = b /\ \A i \in 1 .. n : ~IsWrite(w[i])
  BY <1>1, <1>2 DEF Leave
<1>3. CASE \E i \in 1 .. n : /\ IsWrite(w[i]) /\ v = Left(w[i], l)
                            /\ \A j \in i + 1 .. n : ~IsWrite(w[j])
  <2>1. PICK i \in 1 .. n : /\ IsWrite(w[i]) /\ v = Left(w[i], l)
                           /\ \A j \in i + 1 .. n : ~IsWrite(w[j])
    BY <1>3
  <2>2. i \in 1 .. n + 1 /\ \A j \in i + 1 .. n + 1 : j \in i + 1 .. n \/ j = n + 1
    OBVIOUS
  <2>3. \A j \in i + 1 .. n + 1 : ~IsWrite(w[j])
    BY <2>1, <2>2
  <2> QED BY <2>1, <2>2, <2>3 DEF Leave
<1> QED BY <1>2, <1>3 DEF Leave

\* A line that writes leaves its own.
LEMMA LeaveWrite ==
    ASSUME NEW w, NEW n \in Nat, NEW b, NEW l, IsWrite(w[n + 1])
    PROVE  Leave(w, n + 1, b, l, Left(w[n + 1], l))
<1>1. n + 1 \in 1 .. n + 1 /\ (n + 1) + 1 .. n + 1 = {}
  OBVIOUS
<1> QED BY <1>1 DEF Leave

\* Nothing changes for a table that starts with the value that is left.
LEMMA LeaveAgain ==
    ASSUME NEW w, NEW n \in Nat, NEW b, NEW l, NEW v, Leave(w, n, b, l, v)
    PROVE  Leave(w, n, v, l, v)
BY DEF Leave

\* The log after one more line.
LEMMA LeaveAppended ==
    ASSUME Typed, NEW e \in Line, NEW b, NEW l, NEW v, NEW w, w = Append(wal, e),
           \/ Leave(wal, Len(wal), b, l, v) /\ ~IsWrite(e)
           \/ IsWrite(e) /\ v = Left(e, l)
    PROVE  Leave(w, Len(w), b, l, v)
<1>1. PICK n \in Nat : n = Len(wal)
  BY DEF Typed
<1>2. Len(w) = n + 1 /\ w[n + 1] = e /\ \A i \in 1 .. n : w[i] = wal[i]
  BY <1>1, LineAppended
<1>3. CASE Leave(wal, Len(wal), b, l, v) /\ ~IsWrite(e)
  <2>1. Leave(wal, n, b, l, v)
    BY <1>1, <1>3
  <2>2. Leave(w, n, b, l, v)
    BY <1>2, <2>1, LeaveSame
  <2>3. Leave(w, n + 1, b, l, v)
    BY <1>2, <1>3, <2>2, LeaveOther
  <2> QED BY <1>2, <2>3
<1>4. CASE IsWrite(e) /\ v = Left(e, l)
  <2>1. Leave(w, n + 1, b, l, Left(w[n + 1], l))
    BY <1>2, <1>4, LeaveWrite
  <2> QED BY <1>2, <1>4, <2>1
<1> QED BY <1>3, <1>4

\* The dimensionalities in it.
LEMMA DimAppended ==
    ASSUME Typed, NEW e \in Line, NEW w, w = Append(wal, e), NEW d, e.dim = d,
           \A i \in 1 .. Len(wal) : wal[i].dim = d
    PROVE  \A i \in 1 .. Len(w) : w[i].dim = d
<1>1. PICK n \in Nat : n = Len(wal)
  BY DEF Typed
<1>2. Len(w) = n + 1 /\ w[n + 1] = e /\ \A i \in 1 .. n : w[i] = wal[i]
  BY <1>1, LineAppended
<1>3. \A i \in 1 .. n + 1 : i \in 1 .. n \/ i = n + 1
  OBVIOUS
<1> QED BY <1>1, <1>2, <1>3

-----------------------------------------------------------------------------
(* The table last created.                                                 *)

\* The files give the table back as answered calls left it.
Restores == /\ expect # NoTable
            /\ Leave(wal, Len(wal), snapshot, life, expect.value)
            /\ \A i \in 1 .. Len(wal) : wal[i].dim = expect.dim
            /\ metadata # NoTable => metadata = expect.dim

Restorable == \/ proc \in Stopping \cup {"replay"}
              \/ proc = "up" /\ table # NoTable
              \/ proc = "down" /\ hasLog /\ metadata # NoTable

Served == /\ proc \in {"up"} \cup Stopping /\ table # NoTable => table = expect
          /\ proc \in {"snapshotSaved", "metadataSaved"} => snapshot = expect.value
          /\ proc = "metadataSaved" => metadata = expect.dim
          /\ Restorable => Restores
          /\ proc = "replay" => /\ table.dim = expect.dim
                                /\ Leave(wal, pos, snapshot, life, table.value)

Kept == /\ ~torn /\ ~hasLog /\ proc # "logGone" => metadata = NoTable
        /\ ~torn /\ ~mixed => Served

\* A table is created over no files.
LEMMA CreateKept ==
    ASSUME Typed, FilesApart, Kept, NEW dim \in Dim, CreateTable(dim)
    PROVE  Kept'
<1>1. PICK e : e = [op |-> "create", dim |-> dim, life |-> life']
  OBVIOUS
<1>2. e \in Line /\ e.dim = dim /\ ~IsWrite(e)
  BY <1>1 DEF CreateTable, Line, Typed, IsWrite
<1>3. /\ wal' = Append(wal, e) /\ hasLog' = TRUE /\ mixed' = (wal # << >>)
      /\ table' = NewTable(dim) /\ expect' = NewTable(dim)
      /\ proc = "up" /\ table = NoTable
      /\ UNCHANGED <<proc, snapshot, metadata, torn>>
  BY <1>1 DEF CreateTable, AppendLine
<1>4. ASSUME ~torn', ~mixed' PROVE Served'
  <2>1. wal = << >> /\ Len(wal) = 0
    BY <1>3, <1>4, EmptyLog
  <2>2. metadata = NoTable /\ snapshot = 0
    BY <1>3, <1>4, <2>1 DEF Kept, FilesApart
  <2>3. expect' # NoTable /\ expect'.value = 0 /\ expect'.dim = dim
    BY <1>3, ConstantsAssumption DEF NewTable, ConstantsAssumption
  <2>4. PICK l : l = life'
    OBVIOUS
  <2>5. PICK w : w = wal'
    OBVIOUS
  <2>6. Leave(wal, Len(wal), 0, l, 0)
    BY <2>1 DEF Leave
  <2>7. Leave(w, Len(w), 0, l, 0)
    BY <1>2, <1>3, <2>5, <2>6, LeaveAppended
  <2>8. \A i \in 1 .. Len(w) : w[i].dim = dim
    BY <1>2, <1>3, <2>1, <2>5, DimAppended
  <2>9. Restores'
    BY <1>3, <2>2, <2>3, <2>4, <2>5, <2>7, <2>8 DEF Restores
  <2>10. proc' = "up" /\ table' = expect'
    BY <1>3
  <2> QED BY <2>9, <2>10 DEF Served, Stopping
<1> QED BY <1>3, <1>4 DEF Kept

\* A write is the last one of the log.
LEMMA WriteKept ==
    ASSUME Typed, OneLife, Kept, NEW op \in {"insert", "remove"}, Write(op)
    PROVE  Kept'
<1>1. PICK e : e = [op |-> op, dim |-> table.dim, life |-> life]
  OBVIOUS
<1>2. table \in Table /\ e \in Line /\ table # NoTable
  BY <1>1, TableOrNone DEF Write, Line, Typed, Table
<1>3. /\ wal' = Append(wal, e) /\ hasLog' = TRUE
      /\ table' = Effect(table, e) /\ expect' = Effect(table, e)
      /\ Succeeds(table, e) /\ proc = "up"
      /\ UNCHANGED <<proc, snapshot, metadata, torn, mixed, life>>
  BY <1>1 DEF Write, AppendLine
<1>4. ASSUME ~torn, ~mixed PROVE Served'
  <2>1. Restores /\ table = expect
    BY <1>2, <1>3, <1>4 DEF Kept, Served, Restorable
  <2>2. /\ expect' \in Table /\ expect'.dim = table.dim
        /\ expect'.value = Left(e, life) /\ IsWrite(e) /\ e.dim = table.dim
    BY <1>1, <1>2, <1>3, EffectTable DEF Left, IsWrite
  <2>3. expect' # NoTable
    BY <2>2, TableOrNone DEF Tables, Table
  <2>4. PICK w : w = wal'
    OBVIOUS
  <2>5. Leave(w, Len(w), snapshot, life, Left(e, life))
    BY <1>2, <1>3, <2>2, <2>4, LeaveAppended
  <2>6. \A i \in 1 .. Len(w) : w[i].dim = table.dim
    BY <1>2, <1>3, <2>1, <2>2, <2>4, DimAppended DEF Restores
  <2>7. Restores'
    BY <1>3, <2>1, <2>2, <2>3, <2>4, <2>5, <2>6 DEF Restores
  <2>8. proc' = "up" /\ table' = expect'
    BY <1>3
  <2> QED BY <2>7, <2>8 DEF Served, Stopping
<1> QED BY <1>3, <1>4 DEF Kept

\* The constructor starts from the snapshot, before the first line.
LEMMA RestartKept ==
    ASSUME Typed, Kept, Restart
    PROVE  Kept'
<1>1. PICK e : e = [op |-> "create", dim |-> metadata, life |-> life]
  OBVIOUS
<1>2. e \in Line /\ e.dim = metadata /\ ~IsWrite(e)
  BY <1>1 DEF Restart, Line, Typed, IsWrite
<1>3. /\ wal' = Append(wal, e) /\ hasLog' = TRUE
      /\ proc = "down" /\ proc' = "replay" /\ hasLog /\ metadata # NoTable
      /\ table' = [dim |-> metadata, value |-> snapshot]
      /\ UNCHANGED <<expect, snapshot, metadata, pos, torn, mixed, life>>
  BY <1>1 DEF Restart, AppendLine, history
<1>4. ASSUME ~torn, ~mixed PROVE Served'
  <2>1. Restores
    BY <1>3, <1>4 DEF Kept, Served, Restorable
  <2>2. PICK w : w = wal'
    OBVIOUS
  <2>3. Leave(w, Len(w), snapshot, life, expect.value)
    BY <1>2, <1>3, <2>1, <2>2, LeaveAppended DEF Restores
  <2>4. \A i \in 1 .. Len(w) : w[i].dim = expect.dim
    BY <1>2, <1>3, <2>1, <2>2, DimAppended DEF Restores
  <2>5. Restores'
    BY <1>3, <2>1, <2>2, <2>3, <2>4 DEF Restores
  <2>6. Leave(w, 0, snapshot, life, snapshot)
    BY DEF Leave
  <2>7. pos' = 0 /\ table'.value = snapshot' /\ table'.dim = expect'.dim
    BY <1>3, <2>1 DEF Typed, Restores
  <2>8. Leave(wal', pos', snapshot', life', table'.value)
    BY <1>3, <2>2, <2>6, <2>7
  <2> QED BY <1>3, <2>5, <2>7, <2>8 DEF Served, Stopping
<1> QED BY <1>3, <1>4 DEF Kept

\* Replaying a line over a table that may already hold what it wrote leaves
\* what it wrote.
LEMMA ReplayKept ==
    ASSUME Typed, DropsUnderWay, OneLife, Kept, ReplayEntry
    PROVE  Kept'
<1>1. PICK n \in Nat : n = pos /\ n + 1 \in 1 .. Len(wal) /\ proc = "replay"
  BY DEF ReplayEntry, Typed
<1>2. PICK e \in Line : e = wal[n + 1]
  BY <1>1 DEF Typed
<1>3. table \in Table /\ table # NoTable
  BY <1>1, TableOrNone DEF Typed
<1>4. /\ table' = IF e.op \in {"create", "drop"} THEN table ELSE Effect(table, e)
      /\ proc' = IF e.op = "drop" THEN "hung" ELSE "replay"
      /\ pos' = n + 1
      /\ UNCHANGED <<files, expect, torn, mixed, life>>
  BY <1>1, <1>2 DEF ReplayEntry, history
<1>5. ASSUME ~torn, ~mixed PROVE Served'
  <2>1. Restores /\ table.dim = expect.dim /\ Leave(wal, n, snapshot, life, table.value)
    BY <1>1, <1>5 DEF Kept, Served, Restorable
  <2>2. e.op # "drop"
    BY <1>1, <1>2, <1>5 DEF DropsUnderWay, Logged
  <2>3. e.dim = expect.dim /\ e.life = life /\ table.value \in {0, life}
    BY <1>1, <1>2, <1>3, <1>5, <2>1 DEF Restores, OneLife
  <2>4. Leave(wal, n + 1, snapshot, life, table'.value) /\ table'.dim = expect.dim
    <3>1. CASE e.op = "create"
      <4>1. table' = table /\ ~IsWrite(wal[n + 1])
        BY <1>2, <1>4, <3>1 DEF IsWrite
      <4> QED BY <2>1, <4>1, LeaveOther
    <3>2. CASE e.op \in {"insert", "remove"}
      <4>1. table' = Effect(table, e) /\ IsWrite(wal[n + 1])
        BY <1>2, <1>4, <3>2 DEF IsWrite
      <4>2. Leave(wal, n + 1, snapshot, life, Left(wal[n + 1], life))
        BY <4>1, LeaveWrite
      <4>3. /\ table'.dim = table.dim
            /\ table'.value = IF ~Succeeds(table, e) THEN table.value
                              ELSE IF e.op = "insert" THEN e.life ELSE 0
        BY <1>3, <4>1, EffectTable
      <4>4. Succeeds(table, e) <=> IF e.op = "insert" THEN table.value = 0 ELSE table.value # 0
        BY <2>1, <2>3 DEF Succeeds
      <4>5. table'.value = Left(e, life)
        BY <2>3, <3>2, <4>3, <4>4 DEF Left
      <4> QED BY <1>2, <2>1, <4>2, <4>3, <4>5
    <3> QED BY <2>2, <3>1, <3>2 DEF Line
  <2>5. Restores'
    BY <1>4, <2>1 DEF Restores, files
  <2>6. Leave(wal', pos', snapshot', life', table'.value) /\ table'.dim = expect'.dim
    BY <1>4, <2>4 DEF files
  <2>7. proc' = "replay"
    BY <1>4, <2>2
  <2> QED BY <2>5, <2>6, <2>7 DEF Served, Stopping
<1>6. (~torn /\ ~hasLog /\ proc # "logGone" => metadata = NoTable)'
  BY <1>1, <1>4 DEF Kept, files
<1> QED BY <1>4, <1>5, <1>6 DEF Kept

\* What the replay leaves is what the log and the snapshot say.
LEMMA EndReplayKept ==
    ASSUME Typed, Kept, EndReplay
    PROVE  Kept'
<1>1. /\ proc = "replay" /\ proc' = "up" /\ pos = Len(wal)
      /\ UNCHANGED <<table, files, expect, torn, mixed, life>>
  BY DEF EndReplay, Move, history
<1>2. ASSUME ~torn, ~mixed PROVE Served'
  <2>1. /\ Restores /\ table.dim = expect.dim
        /\ Leave(wal, Len(wal), snapshot, life, table.value)
    BY <1>1, <1>2 DEF Kept, Served, Restorable
  <2>2. Len(wal) \in Nat
    BY DEF Typed
  <2>3. table.value = expect.value
    BY <2>1, <2>2, LeaveOne DEF Restores
  <2>4. table \in Table /\ expect \in Table
    BY <1>1, <2>1, TableOrNone DEF Typed, Restores
  <2>5. table = expect
    BY <2>1, <2>3, <2>4 DEF Table
  <2>6. Restores'
    BY <1>1, <2>1 DEF Restores, files
  <2>7. table' = expect' /\ proc' = "up"
    BY <1>1, <2>5
  <2> QED BY <2>6, <2>7 DEF Served, Stopping
<1> QED BY <1>1, <1>2 DEF Kept, files

\* The snapshot is the table, and the log says so again.
LEMMA SaveSnapshotKept ==
    ASSUME Typed, Kept, SaveSnapshot
    PROVE  Kept'
<1>1. /\ proc = "stopSynced" /\ proc' = "snapshotSaved" /\ snapshot' = table.value
      /\ table # NoTable
      /\ UNCHANGED <<table, hasLog, wal, metadata, expect, torn, mixed, life>>
  BY DEF SaveSnapshot, Move, history, Typed, Stopping
<1>2. ASSUME ~torn, ~mixed PROVE Served'
  <2>1. Restores /\ table = expect
    BY <1>1, <1>2 DEF Kept, Served, Restorable, Stopping
  <2>2. Len(wal) \in Nat
    BY DEF Typed
  <2>3. PICK v : v = expect.value
    OBVIOUS
  <2>4. Leave(wal, Len(wal), snapshot, life, v)
    BY <2>1, <2>3 DEF Restores
  <2>5. Leave(wal, Len(wal), v, life, v)
    BY <2>2, <2>4, LeaveAgain
  <2>6. snapshot' = v /\ expect' = expect
    BY <1>1, <2>1, <2>3
  <2>7. Restores'
    BY <1>1, <2>1, <2>3, <2>5, <2>6 DEF Restores
  <2> QED BY <1>1, <2>1, <2>3, <2>6, <2>7 DEF Served
<1> QED BY <1>1, <1>2 DEF Kept

\* So does the metadata.
LEMMA SaveMetadataKept ==
    ASSUME Typed, FilesApart, Kept, SaveMetadata
    PROVE  Kept'
<1>1. /\ proc = "snapshotSaved" /\ proc' = "metadataSaved" /\ metadata' = table.dim
      /\ table # NoTable /\ hasLog
      /\ UNCHANGED <<table, hasLog, wal, snapshot, expect, torn, mixed, life>>
  BY DEF SaveMetadata, Move, history, Typed, Stopping, FilesApart
<1>2. ASSUME ~torn, ~mixed PROVE Served'
  <2>1. Restores /\ table = expect /\ snapshot = expect.value
    BY <1>1, <1>2 DEF Kept, Served, Restorable, Stopping
  <2>2. Restores'
    BY <1>1, <2>1 DEF Restores
  <2> QED BY <1>1, <2>1, <2>2 DEF Served
<1> QED BY <1>1, <1>2 DEF Kept

\* An empty log leaves the snapshot as it is.
LEMMA ClearWALKept ==
    ASSUME Typed, FilesApart, Kept, ClearWAL
    PROVE  Kept'
<1>1. /\ proc = "metadataSaved" /\ proc' = "down" /\ wal' = << >>
      /\ table # NoTable /\ hasLog
      /\ UNCHANGED <<hasLog, snapshot, metadata, expect, torn, mixed, life>>
  BY DEF ClearWAL, Move, Typed, Stopping, FilesApart
<1>2. ASSUME ~torn, ~mixed PROVE Served'
  <2>1. /\ Restores /\ snapshot = expect.value
    BY <1>1, <1>2 DEF Kept, Served, Restorable, Stopping
  <2>2. PICK w : w = wal'
    OBVIOUS
  <2>3. Len(w) = 0
    BY <1>1, <2>2, EmptyLog
  <2>4. Leave(w, 0, snapshot, life, snapshot)
    BY DEF Leave
  <2>5. Restores'
    BY <1>1, <2>1, <2>2, <2>3, <2>4 DEF Restores
  <2> QED BY <1>1, <2>5 DEF Served, Stopping
<1> QED BY <1>1, <1>2 DEF Kept

\* A crash outside DropTable leaves the files.
LEMMA CrashKept ==
    ASSUME Typed, DropsUnderWay, FilesApart, Kept, Crash
    PROVE  Kept'
<1>1. /\ proc # "down" /\ proc' = "down" /\ torn' = (torn \/ proc \in Dropping)
      /\ UNCHANGED <<files, expect, mixed, life>>
  BY DEF Crash
<1>2. ASSUME ~torn', ~mixed PROVE Served'
  <2>1. ~torn /\ proc \notin Dropping /\ proc # "hung"
    BY <1>1, <1>2 DEF DropsUnderWay
  <2>2. ASSUME hasLog, metadata # NoTable PROVE Restores'
    <3>1. proc \in {"up", "replay"} \cup Stopping
      BY <1>1, <2>1 DEF Typed, Proc
    <3>2. proc = "up" => table # NoTable
      BY <2>2 DEF FilesApart
    <3>3. Restores
      BY <1>1, <1>2, <2>1, <3>1, <3>2 DEF Kept, Served, Restorable
    <3> QED BY <1>1, <3>3 DEF Restores, files
  <2> QED BY <1>1, <2>2 DEF Served, Restorable, Stopping, files
<1>3. (~torn /\ ~hasLog /\ proc # "logGone" => metadata = NoTable)'
  BY <1>1 DEF Kept, Dropping, files
<1> QED BY <1>1, <1>2, <1>3 DEF Kept

\* Every step keeps the table last created.
LEMMA KeptStep ==
    ASSUME Typed, DropsUnderWay, FilesApart, OneLife, Kept, [Next]_vars
    PROVE  Kept'
<1>1. ASSUME proc' \in Dropping, torn' = torn, metadata' = metadata,
             hasLog' = hasLog \/ hasLog' \/ proc' = "logGone",
             proc # "logGone"
      PROVE  Kept'
  BY <1>1 DEF Kept, Served, Restorable, Dropping, Stopping
<1>2. CASE AppendDrop
  BY <1>1, <1>2 DEF AppendDrop, AppendLine, Move, Dropping, history
<1>3. CASE DropSync
  BY <1>1, <1>3 DEF DropSync, Move, Dropping, files, history
<1>4. CASE RemoveSnapshot
  BY <1>1, <1>4 DEF RemoveSnapshot, Move, Dropping, history
<1>5. CASE RemoveLog
  BY <1>1, <1>5 DEF RemoveLog, Move, Dropping, history
<1>6. CASE RemoveMetadata
  <2>1. table' = NoTable /\ metadata' = NoTable /\ proc' = "up"
    BY <1>6 DEF RemoveMetadata, Move
  <2> QED BY <2>1 DEF Kept, Served, Restorable, Stopping
<1>7. ASSUME UNCHANGED <<proc, table, files, expect, torn, mixed, life, pos>>
      PROVE  Kept'
  BY <1>7 DEF Kept, Served, Restorable, Restores, files
<1>8. CASE UNCHANGED vars
  BY <1>7, <1>8 DEF vars, history
<1>9. ASSUME UNCHANGED <<table, files, expect, torn, mixed, life>>,
             \/ proc = "up" /\ proc' = "stopping" /\ table # NoTable
             \/ proc = "stopping" /\ proc' = "stopSynced"
      PROVE  Kept'
  <2>1. ~torn /\ ~mixed => Served'
    BY <1>9 DEF Kept, Served, Restorable, Restores, Stopping, files
  <2> QED BY <1>9, <2>1 DEF Kept, files
<1>10. CASE BeginStop \/ StopSync
  BY <1>9, <1>10 DEF BeginStop, StopSync, Move, history
<1>11. CASE StopEmpty
  <2>1. /\ proc = "up" /\ proc' = "down" /\ table = NoTable
        /\ UNCHANGED <<files, torn>>
    BY <1>11 DEF StopEmpty, Move
  <2>2. ~hasLog \/ metadata = NoTable
    BY <2>1 DEF FilesApart
  <2> QED BY <2>1, <2>2 DEF Kept, Served, Restorable, Stopping, files
<1>12. CASE RestartWithout
  <2>1. /\ proc = "down" /\ proc' = "up" /\ table = NoTable /\ table' = NoTable
        /\ UNCHANGED <<files, torn>>
    BY <1>12 DEF RestartWithout, Typed, history
  <2> QED BY <2>1 DEF Kept, Served, Restorable, Stopping, files
<1> QED
  BY <1>2, <1>3, <1>4, <1>5, <1>6, <1>8, <1>10, <1>11, <1>12,
     CreateKept, WriteKept, RestartKept, ReplayKept, EndReplayKept,
     SaveSnapshotKept, SaveMetadataKept, ClearWALKept, CrashKept
  DEF Next, DropStep, StopStep

\* A table that is served is the one last created, with what its answered
\* writes left, across any number of shutdowns, crashes and restarts.
THEOREM ServedIsTheLast == Spec => []ServedTableIsTheLast
<1> DEFINE Inv == Typed /\ DropsUnderWay /\ FilesApart /\ OneLife /\ Kept
<1>1. Init => Inv
  <2> SUFFICES ASSUME Init PROVE Inv
    OBVIOUS
  <2>1. Len(wal) = 0 /\ proc = "up" /\ table = NoTable /\ metadata = NoTable
    BY EmptyLog DEF Init
  <2> QED BY <2>1, InitTyped, InitApart
          DEF DropsUnderWay, Kept, Served, Restorable, Stopping
<1>2. Inv /\ [Next]_vars => Inv'
  BY TypedStep, DropsStep, FilesApartStep, OneLifeStep, KeptStep
<1>3. Inv => ServedTableIsTheLast
  BY DEF Kept, Served, ServedTableIsTheLast
<1> QED
  BY <1>1, <1>2, <1>3, PTL DEF Spec

\* The count of crashes, the only variable that Typed leaves out.
LEMMA CrashesStep ==
    ASSUME crashes \in Nat, [Next]_vars
    PROVE  crashes' \in Nat
<1>1. crashes' \in {crashes, crashes + 1}
  BY DEF Next, DropStep, StopStep, vars, CreateTable, Write, AppendDrop, DropSync, RemoveSnapshot,
         RemoveLog, RemoveMetadata, StopEmpty, BeginStop, StopSync, SaveSnapshot, SaveMetadata,
         ClearWAL, Crash, Restart, RestartWithout, ReplayEntry, EndReplay
<1> QED BY <1>1

\* Every variable of the primary stays in its set.
THEOREM TypeCorrect == Spec => []TypeOK
<1> DEFINE Inv == Typed /\ crashes \in Nat
<1>1. Init => Inv
  BY InitTyped DEF Init
<1>2. Inv /\ [Next]_vars => Inv'
  BY TypedStep, CrashesStep
<1>3. Inv => TypeOK
  <2> SUFFICES ASSUME Typed, crashes \in Nat PROVE TypeOK
    OBVIOUS
  <2>1. Len(wal) \in Nat /\ pos \in Nat /\ pos <= Len(wal)
    BY DEF Typed
  <2> QED BY <2>1 DEF Typed, TypeOK
<1> QED
  BY <1>1, <1>2, <1>3, PTL DEF Spec
-----------------------------------------------------------------------------
(* Types of the replication.                                               *)

SyncTyped ==
    /\ modified \in BOOLEAN
    /\ offset \in Nat
    /\ copy \in Tables
    /\ sync \in [Syncer -> SyncState]
    /\ \A s \in Syncer : sync[s].pc \in {"sum", "send"} => sync[s].count < Len(sync[s].batch)
    /\ stops \in Nat /\ losses \in Nat
    /\ disturbed \subseteq Disturbance

\* One local state of Sync.
Sound(l) == l \in SyncState /\ (l.pc \in {"sum", "send"} => l.count < Len(l.batch))

LEMMA RestingSound == Sound(Resting) /\ Resting.pc = "idle"
BY ReplicationAssumption DEF ReplicationAssumption, Resting, Sound, SyncState

\* Where an attempt leads that is over, and what it leaves alone.
Over(l, m) == /\ Sound(m)
              /\ m.pc = "finish" \/ (m.pc = "read" /\ m.attempt > 0)
              /\ m.life = l.life

LEMMA NextAttemptOver ==
    ASSUME NEW l \in SyncState
    PROVE  Over(l, NextAttempt(l))
<1>1. CASE l.attempt = RetryCount
  <2>1. NextAttempt(l) = [l EXCEPT !.pc = "finish"]
    BY <1>1 DEF NextAttempt
  <2> QED BY <2>1 DEF SyncState, Sound, Over
<1>2. CASE l.attempt # RetryCount
  <2>1. NextAttempt(l) = [l EXCEPT !.attempt = @ + 1, !.pc = "read"]
    BY <1>2 DEF NextAttempt
  <2>2. l.attempt + 1 \in 0 .. RetryCount /\ l.attempt + 1 > 0
    BY <1>2, ReplicationAssumption DEF ReplicationAssumption, SyncState
  <2> QED BY <2>1, <2>2 DEF SyncState, Sound, Over
<1> QED BY <1>1, <1>2

LEMMA FailedSound ==
    ASSUME NEW l \in SyncState
    PROVE  /\ Failed(l) \in SyncState
           /\ Over(l, NextAttempt(Failed(l)))
           /\ Over(l, MissedAttempt(l))
<1>1. Failed(l) = [l EXCEPT !.failed = TRUE]
  BY DEF Failed
<1>2. Failed(l) \in SyncState /\ Failed(l).life = l.life
  BY <1>1 DEF SyncState
<1>3. Over(l, NextAttempt(Failed(l))) /\ Over(l, NextAttempt(l))
  BY <1>2, NextAttemptOver DEF Over
<1>4. MissedAttempt(l) \in {NextAttempt(Failed(l)), NextAttempt(l)}
  BY DEF MissedAttempt
<1> QED BY <1>2, <1>3, <1>4

\* What a step of one Sync does to the local states.
LEMMA Replaced ==
    ASSUME SyncTyped, NEW s \in Syncer, NEW l, Sound(l), Becomes(s, l)
    PROVE  /\ sync' \in [Syncer -> SyncState]
           /\ \A t \in Syncer : sync'[t].pc \in {"sum", "send"} => sync'[t].count < Len(sync'[t].batch)
           /\ sync'[s] = l
           /\ \A t \in Syncer : t # s => sync'[t] = sync[t]
BY DEF SyncTyped, Becomes, Sound

\* What is sent is what the log holds past the offset.
LEMMA UnsentLines ==
    ASSUME NEW w \in Seq(Line), NEW o \in Nat
    PROVE  LET u == SubSeq(w, o + 1, Len(w))
           IN  /\ u \in Seq(Line)
               /\ Len(w) <= o => u = << >>
               /\ o < Len(w) => u # << >>
               /\ o <= Len(w) => Len(u) = Len(w) - o /\ \A i \in 1 .. Len(u) : u[i] = w[o + i]
<1>1. /\ Len(w) \in Nat /\ o + 1 \in Int /\ Len(w) \in Int
      /\ \A i \in o + 1 .. Len(w) : w[i] \in Line
  OBVIOUS
<1>2. PICK u : u = SubSeq(w, o + 1, Len(w))
  OBVIOUS
<1>3. /\ u \in Seq(Line)
      /\ Len(u) = IF o + 1 <= Len(w) THEN Len(w) - (o + 1) + 1 ELSE 0
      /\ \A i \in 1 .. Len(w) - (o + 1) + 1 : u[i] = w[o + 1 + i - 1]
  BY <1>1, <1>2, SubSeqProperties
<1>4. Len(w) <= o => u = << >>
  BY <1>1, <1>2, SubSeqEmpty
<1>5. o <= Len(w) => Len(u) = Len(w) - o /\ \A i \in 1 .. Len(u) : u[i] = w[o + i]
  BY <1>1, <1>3
<1>6. o < Len(w) => u # << >>
  BY <1>1, <1>5, EmptyLog
<1> QED BY <1>2, <1>3, <1>4, <1>5, <1>6

\* What a Sync does in its first step, and what it leaves.
LEMMA BeginSound ==
    ASSUME life \in Nat
    PROVE  LET l == [Resting EXCEPT !.pc = "read", !.life = life]
           IN  Sound(l) /\ l.pc = "read" /\ l.life = life /\ l.attempt = 0
<1>1. PICK k \in SyncState : k = Resting /\ k.attempt = 0
  BY RestingSound DEF Sound, Resting
<1> QED BY <1>1 DEF Sound, SyncState

\* Each step of Sync puts a sound state in the place of one.
LEMMA SyncStepSound ==
    ASSUME Typed, SyncTyped, NEW s \in Syncer, SyncStep(s) \/ LoseSync(s) \/ LoseChecksum(s)
    PROVE  \E m : Sound(m) /\ Becomes(s, m)
<1> DEFINE l == sync[s]
<1>0. Sound(l) /\ l \in SyncState
  BY DEF SyncTyped, Sound
<1> HIDE DEF l
<1>1. Sound(NextAttempt(l)) /\ Sound(NextAttempt(Failed(l))) /\ Sound(MissedAttempt(l))
  BY <1>0, NextAttemptOver, FailedSound DEF Over
<1>2. CASE ReadLog(s)
  <2>1. wal \in Seq(Line) /\ offset \in Nat
    BY DEF Typed, SyncTyped
  <2>2. PICK u \in Seq(Line) : u = Unsent
    BY <2>1, UnsentLines DEF Unsent
  <2>3. u # << >> => 0 < Len(u)
    BY <2>2
  <2>4. u # << >> => Sound([l EXCEPT !.pc = "sum", !.batch = u, !.count = 0])
    BY <1>0, <2>2, <2>3 DEF Sound, SyncState
  <2> QED BY <1>1, <1>2, <2>2, <2>4 DEF ReadLog, l
<1>3. CASE ComputeChecksum(s)
  <2>1. Checksum(table) \in Nat
    BY TableOrNone DEF Checksum, Typed, Table
  <2>2. l.pc = "sum"
    BY <1>3 DEF ComputeChecksum, l
  <2>3. Sound([l EXCEPT !.pc = "send", !.sum = Checksum(table)])
    BY <1>0, <2>1, <2>2 DEF Sound, SyncState
  <2> QED BY <1>3, <2>3 DEF ComputeChecksum, l
<1>4. CASE ReplicaApply(s)
  <2>1. l.pc = "send" /\ l.count \in Nat /\ l.count < Len(l.batch) /\ l.batch \in Seq(Line)
    BY <1>0, <1>4 DEF ReplicaApply, Sound, SyncState, l
  <2>2. Sound([l EXCEPT !.pc = "answer"])
    BY <1>0, <2>1 DEF Sound, SyncState
  <2>3. PICK pc : pc = IF l.count + 1 = Len(l.batch) THEN "answer" ELSE "send"
    OBVIOUS
  <2>4. pc \in {"answer", "send"} /\ (pc = "send" => l.count + 1 < Len(l.batch)) /\ l.count + 1 \in Nat
    BY <2>1, <2>3
  <2>5. Sound([l EXCEPT !.count = @ + 1, !.pc = pc])
    BY <1>0, <2>1, <2>4 DEF Sound, SyncState
  <2> QED BY <1>4, <2>2, <2>3, <2>5 DEF ReplicaApply, l
<1>5. CASE Acknowledge(s) \/ Compare(s) \/ LoseSync(s) \/ LoseChecksum(s)
  <2>1. Sound([l EXCEPT !.pc = "compare"]) /\ Sound([l EXCEPT !.pc = "finish"])
    BY <1>0 DEF Sound, SyncState
  <2> QED BY <1>1, <1>5, <2>1 DEF Acknowledge, Compare, LoseSync, LoseChecksum, l
<1>6. CASE Finish(s) \/ Abandon(s)
  BY <1>6, RestingSound DEF Finish, Abandon
<1> QED BY <1>2, <1>3, <1>4, <1>5, <1>6 DEF SyncStep

\* What the replica makes of a line.
LEMMA OutcomeTable ==
    ASSUME NEW t \in Tables, NEW e \in Line, Accepts(t, e)
    PROVE  Outcome(t, e) \in Tables
<1>1. CASE e.op = "create"
  BY <1>1 DEF Outcome, NewTable, Tables, Line
<1>2. CASE e.op = "drop"
  BY <1>2 DEF Outcome, Tables
<1>3. CASE e.op \in {"insert", "remove"}
  <2>1. t \in Table
    BY <1>3, TableOrNone DEF Accepts
  <2> QED BY <1>3, <2>1, EffectTable DEF Outcome, Tables, Table
<1> QED BY <1>1, <1>2, <1>3 DEF Line

\* Every step keeps the types.
LEMMA SyncTypedStep ==
    ASSUME Typed, SyncTyped, [ReplicatedNext]_allVars
    PROVE  SyncTyped'
<1>0. /\ \A s \in Syncer : Sound(sync[s]) /\ sync[s] \in SyncState
      /\ life \in Nat /\ disturbed \subseteq Disturbance
  BY DEF SyncTyped, Sound, Typed
<1>1. ASSUME UNCHANGED <<offset, copy, bounds, sync>>, modified' \in BOOLEAN, disturbed' \subseteq Disturbance
      PROVE  SyncTyped'
  BY <1>1 DEF SyncTyped, bounds
<1>2. ASSUME NEW s \in Syncer, NEW m, Sound(m), Becomes(s, m), UNCHANGED bounds,
             modified' \in BOOLEAN, offset' \in Nat, copy' \in Tables, disturbed' \subseteq Disturbance
      PROVE  SyncTyped'
  BY <1>2, Replaced DEF SyncTyped, bounds
<1>3. CASE Call
  <2>1. disturbed' \subseteq Disturbance
    BY <1>0, <1>3 DEF Call, Mark, Disturbance
  <2> QED BY <1>1, <1>3, <2>1 DEF Call
<1>4. CASE BeginMain
  <2>1. "main" \in Syncer /\ disturbed' \subseteq Disturbance
    BY <1>0, <1>4 DEF BeginMain, Syncer, Mark, Disturbance
  <2>2. modified' \in BOOLEAN /\ offset' \in Nat /\ copy' \in Tables
    BY <1>4 DEF BeginMain, SyncTyped
  <2> QED BY <1>0, <1>2, <1>4, <2>1, <2>2, BeginSound DEF BeginMain, Begin
<1>5. CASE Erase \/ Local \/ Reload
  <2>1. modified' \in BOOLEAN /\ disturbed' \subseteq Disturbance
    BY <1>5 DEF Erase, Local, Reload, SyncTyped
  <2> QED BY <1>1, <1>5, <2>1 DEF Erase, Local, Reload
<1>6. CASE End
  <2>1. ASSUME NEW s \in Syncer, NEW last \in {{"sum", "send"}, {"send"}}
        PROVE  Sound(Orphaned(sync[s], last))
    <3>1. CASE sync[s].pc \in last
      <4>1. Orphaned(sync[s], last) = [sync[s] EXCEPT !.pc = "send", !.life = 0]
        BY <3>1 DEF Orphaned
      <4>2. sync[s].count < Len(sync[s].batch)
        BY <1>0, <2>1, <3>1 DEF Sound
      <4>3. PICK l \in SyncState : l = sync[s]
        BY <1>0
      <4>4. PICK k \in SyncState : k = [l EXCEPT !.pc = "send", !.life = 0]
        BY <4>3 DEF SyncState
      <4>5. k.count < Len(k.batch)
        BY <4>2, <4>3, <4>4 DEF SyncState
      <4> QED BY <4>1, <4>3, <4>4, <4>5 DEF Sound
    <3>2. CASE sync[s].pc \notin last
      BY <3>2, RestingSound DEF Orphaned
    <3> QED BY <3>1, <3>2
  <2>2. PICK last \in {{"sum", "send"}, {"send"}} : sync' = [s \in Syncer |-> Orphaned(sync[s], last)]
    BY <1>6 DEF End
  <2>3. \A s \in Syncer : Sound(sync'[s])
    BY <2>1, <2>2
  <2>4. sync' \in [Syncer -> SyncState]
    BY <2>2, <2>3 DEF Sound
  <2>5. disturbed' \subseteq Disturbance
    BY <1>0, <1>6 DEF End, Mark, Disturbance
  <2>6. modified' = FALSE /\ offset' = 0 /\ UNCHANGED <<copy, stops, losses>>
    BY <1>6 DEF End, bounds
  <2> QED BY <2>3, <2>4, <2>5, <2>6 DEF SyncTyped, Sound
<1>7. CASE BeginLoop
  <2>1. "loop" \in Syncer /\ disturbed' \subseteq Disturbance
    BY <1>0, <1>7 DEF BeginLoop, Syncer, Mark, Disturbance
  <2>2. modified' \in BOOLEAN /\ offset' \in Nat /\ copy' \in Tables
    BY <1>7 DEF BeginLoop, SyncTyped
  <2> QED BY <1>0, <1>2, <1>7, <2>1, <2>2, BeginSound DEF BeginLoop, Begin
<1>8. CASE RestartReplica
  <2>1. \A s \in Syncer : Sound(IF sync[s].pc = "send" THEN MissedAttempt(sync[s]) ELSE sync[s])
    BY <1>0, FailedSound DEF Over
  <2>2. sync' = [s \in Syncer |-> IF sync[s].pc = "send" THEN MissedAttempt(sync[s]) ELSE sync[s]]
    BY <1>8 DEF RestartReplica
  <2>3. \A s \in Syncer : Sound(sync'[s])
    BY <2>1, <2>2
  <2>4. sync' \in [Syncer -> SyncState]
    BY <2>2, <2>3 DEF Sound
  <2>5. disturbed' \subseteq Disturbance
    BY <1>0, <1>8 DEF RestartReplica, Mark, Disturbance
  <2>6. copy' \in Tables /\ stops' \in Nat /\ UNCHANGED <<modified, offset, losses>>
    BY <1>8 DEF RestartReplica, Tables, SyncTyped
  <2> QED BY <2>3, <2>4, <2>5, <2>6 DEF SyncTyped, Sound
<1>9. ASSUME NEW s \in Syncer, SyncStep(s) PROVE SyncTyped'
  <2>1. PICK m : Sound(m) /\ Becomes(s, m)
    BY <1>9, SyncStepSound
  <2>2. sync[s].count \in Nat /\ offset \in Nat /\ copy \in Tables /\ modified \in BOOLEAN
        /\ sync[s].failed \in BOOLEAN
    BY <1>0 DEF SyncState, SyncTyped
  <2>3. offset' \in Nat /\ UNCHANGED <<bounds, disturbed>>
    BY <1>9, <2>2 DEF SyncStep, ReadLog, ComputeChecksum, ReplicaApply, Acknowledge, Compare, Finish, Abandon
  <2>4. modified' \in BOOLEAN
    BY <1>9, <2>2 DEF SyncStep, ReadLog, ComputeChecksum, ReplicaApply, Acknowledge, Compare, Finish, Abandon
  <2>5. copy' \in Tables
    <3>1. CASE ReplicaApply(s)
      <4>1. sync[s].count + 1 \in 1 .. Len(sync[s].batch) /\ sync[s].batch \in Seq(Line)
        BY <1>0, <3>1 DEF ReplicaApply, Sound, SyncState
      <4>2. PICK e \in Line : e = sync[s].batch[sync[s].count + 1]
        BY <4>1
      <4>3. copy' = copy \/ (Accepts(copy, e) /\ copy' = Outcome(copy, e))
        BY <3>1, <4>2 DEF ReplicaApply
      <4> QED BY <2>2, <4>3, OutcomeTable
    <3>2. CASE ~ReplicaApply(s)
      BY <1>9, <2>2, <3>2 DEF SyncStep, ReadLog, ComputeChecksum, Acknowledge, Compare, Finish, Abandon
    <3> QED BY <3>1, <3>2
  <2> QED BY <1>2, <2>1, <2>3, <2>4, <2>5 DEF SyncTyped
<1>10. ASSUME NEW s \in Syncer, Lose(s) PROVE SyncTyped'
  <2>1. PICK m : Sound(m) /\ Becomes(s, m)
    BY <1>10, SyncStepSound DEF Lose
  <2>2. disturbed' \subseteq Disturbance
    BY <1>0, <1>10 DEF Lose, Mark, Disturbance
  <2>3. losses' \in Nat /\ UNCHANGED <<modified, offset, copy, stops>>
    BY <1>10 DEF Lose, SyncTyped
  <2> QED BY <2>1, <2>2, <2>3, Replaced DEF SyncTyped
<1>11. CASE UNCHANGED allVars
  BY <1>11 DEF allVars, bounds, SyncTyped
<1> QED BY <1>3, <1>4, <1>5, <1>6, <1>7, <1>8, <1>9, <1>10, <1>11 DEF ReplicatedNext
-----------------------------------------------------------------------------
(* The first life of the name.                                             *)

\* The table after the first k lines of a log without refused ones.
Result(e) == CASE e.op = "create" -> NewTable(e.dim)
               [] e.op = "insert" -> [dim |-> e.dim, value |-> e.life]
               [] e.op = "remove" -> NewTable(e.dim)
               [] e.op = "drop" -> NoTable
After(w, k) == IF k = 0 THEN NoTable ELSE Result(w[k])

Chained(w) == \A k \in 1 .. Len(w) : /\ Accepts(After(w, k - 1), w[k])
                                     /\ Outcome(After(w, k - 1), w[k]) = After(w, k)

Sending(s) == sync[s].pc \in {"sum", "send", "answer"}

\* What is under way follows the offset in the present log.
Batched(l) == /\ l.pc = "answer" => l.count = Len(l.batch)
              /\ l.count <= Len(l.batch)
              /\ offset + Len(l.batch) <= Len(wal)
              /\ \A i \in 1 .. Len(l.batch) : l.batch[i] = wal[offset + i]

\* The Sync of DropTable or ~Engine: nothing is logged any more, so it leaves
\* its first attempt with all of the log.
CatchingUp(l) == /\ l.pc \in {"sum", "send", "answer"} => offset + Len(l.batch) = Len(wal)
                 /\ l.pc \in {"compare", "finish"} \/ (l.pc = "read" /\ l.attempt > 0) => offset = Len(wal)

\* Whose turn it is.
Turns ==
    /\ proc \in {"up"} \cup Dropping \cup Stopping
    /\ life \in {0, 1}
    /\ life = 0 => table = NoTable /\ offset = 0 /\ \A s \in Syncer : Idle(s)
    /\ \A s \in Syncer : ~Idle(s) => sync[s].life = life
    /\ ~Idle("main") <=> proc \in {"dropLogged", "stopping"}
    /\ proc \in {"dropLogged"} \cup Stopping => Idle("loop")
    /\ proc = "logGone" \/ (proc = "up" /\ table = NoTable) => wal = << >>

\* While there is something to send, the replica is as far as what is
\* acknowledged and what the Sync under way has had applied.
Following ==
    /\ Chained(wal)
    /\ After(wal, Len(wal)) = IF proc = "dropLogged" THEN NoTable ELSE table
    /\ offset <= Len(wal)
    /\ (\A s \in Syncer : ~Sending(s)) => copy = After(wal, offset)
    /\ \A s \in Syncer : Sending(s) => Batched(sync[s]) /\ copy = After(wal, offset + sync[s].count)
    /\ proc # "up" => CatchingUp(sync["main"])

\* Then it has what it is to have, and nothing is left to send.
Finished ==
    /\ \A s \in Syncer : ~Sending(s)
    /\ copy = IF proc \in Stopping THEN table ELSE NoTable
    /\ Len(wal) <= offset

Sharing == table # NoTable /\ proc \in {"up", "dropLogged", "stopping"}

Mirrored == disturbed = {} => /\ Turns
                              /\ Sharing => Following
                              /\ ~Sharing => Finished

\* One more accepted line.
LEMMA ChainedAppended ==
    ASSUME NEW w \in Seq(Line), Chained(w), NEW e \in Line,
           Accepts(After(w, Len(w)), e), Outcome(After(w, Len(w)), e) = Result(e),
           NEW v, v = Append(w, e)
    PROVE  /\ v \in Seq(Line) /\ Len(v) = Len(w) + 1
           /\ Chained(v)
           /\ After(v, Len(v)) = Result(e)
           /\ \A k \in 0 .. Len(w) : After(v, k) = After(w, k)
           /\ \A i \in 1 .. Len(w) : v[i] = w[i]
<1>1. /\ v \in Seq(Line) /\ Len(v) = Len(w) + 1 /\ v[Len(w) + 1] = e
      /\ \A i \in 1 .. Len(w) : v[i] = w[i]
      /\ Len(w) \in Nat
  BY AppendProperties
<1>2. \A k \in 0 .. Len(w) : After(v, k) = After(w, k)
  BY <1>1 DEF After
<1>3. After(v, Len(w) + 1) = Result(e) /\ After(v, Len(w)) = After(w, Len(w))
  BY <1>1, <1>2 DEF After
<1>4. ASSUME NEW k \in 1 .. Len(v)
      PROVE  Accepts(After(v, k - 1), v[k]) /\ Outcome(After(v, k - 1), v[k]) = After(v, k)
  <2>1. CASE k = Len(w) + 1
    <3>1. k - 1 = Len(w)
      BY <1>1, <2>1
    <3> QED BY <1>1, <1>3, <2>1, <3>1
  <2>2. CASE k # Len(w) + 1
    <3>1. k \in 1 .. Len(w) /\ k - 1 \in 0 .. Len(w) /\ k \in 0 .. Len(w)
      BY <1>1, <2>2
    <3> QED BY <1>1, <1>2, <3>1 DEF Chained
  <2> QED BY <2>1, <2>2
<1> QED BY <1>1, <1>2, <1>3, <1>4 DEF Chained

\* At most one Sync runs.
LEMMA OneSync ==
    ASSUME Turns, NEW s \in Syncer, ~Idle(s)
    PROVE  \A t \in Syncer : t # s => Idle(t)
BY DEF Turns, Syncer, Stopping

\* Every step of the composition is one of the primary or leaves it alone.
LEMMA PrimaryStep ==
    ASSUME [ReplicatedNext]_allVars
    PROVE  [Next]_vars
<1>1. CASE Call \/ BeginMain \/ Erase \/ Local \/ Reload \/ End
  BY <1>1 DEF Call, BeginMain, Erase, Local, Reload, End, Next, DropStep, StopStep
<1>2. CASE BeginLoop \/ RestartReplica \/ UNCHANGED allVars
  BY <1>2 DEF BeginLoop, RestartReplica, allVars
<1>3. ASSUME NEW s \in Syncer, SyncStep(s) PROVE [Next]_vars
  BY <1>3 DEF SyncStep, ReadLog, ComputeChecksum, ReplicaApply, Acknowledge, Compare, Finish, Abandon,
              Next, DropStep, StopStep
<1>4. ASSUME NEW s \in Syncer, Lose(s) PROVE [Next]_vars
  BY <1>4 DEF Lose
<1> QED BY <1>1, <1>2, <1>3, <1>4 DEF ReplicatedNext

\* What has disturbed the replication is not forgotten.
LEMMA DisturbedStays ==
    ASSUME [ReplicatedNext]_allVars, disturbed' = {}
    PROVE  /\ disturbed = {}
           /\ \/ Call /\ ~(life' > 1)
              \/ BeginMain /\ Idle("loop")
              \/ Erase \/ Local \/ Reload
              \/ BeginLoop /\ Idle("main")
              \/ \E s \in Syncer : SyncStep(s)
              \/ UNCHANGED allVars
<1>1. ASSUME NEW what, NEW happens \in BOOLEAN, Mark(what, happens)
      PROVE  disturbed = {} /\ ~happens
  BY <1>1 DEF Mark
<1>2. CASE Call
  BY <1>2 DEF Call, Mark
<1>3. CASE BeginMain \/ BeginLoop
  BY <1>1, <1>3 DEF BeginMain, BeginLoop, Idle
<1>4. CASE End \/ RestartReplica \/ \E s \in Syncer : Lose(s)
  BY <1>1, <1>4 DEF End, RestartReplica, Lose
<1>5. CASE Erase \/ Local \/ Reload
  BY <1>5 DEF Erase, Local, Reload
<1>6. CASE \E s \in Syncer : SyncStep(s)
  BY <1>6 DEF SyncStep, ReadLog, ComputeChecksum, ReplicaApply, Acknowledge, Compare, Finish, Abandon
<1>7. CASE UNCHANGED allVars
  BY <1>7 DEF allVars
<1> QED BY <1>2, <1>3, <1>4, <1>5, <1>6, <1>7 DEF ReplicatedNext

\* A created table is not on the replica, which has nothing yet.
LEMMA CreateMirrors ==
    ASSUME Typed, SyncTyped, Turns, ~Sharing => Finished,
           NEW dim \in Dim, CreateTable(dim), ~(life' > 1), UNCHANGED <<offset, copy, sync>>
    PROVE  Turns' /\ Sharing' /\ Following'
<1>1. /\ proc = "up" /\ table = NoTable /\ proc' = "up"
      /\ life' = life + 1 /\ life \in Nat
      /\ table' = NewTable(dim)
  BY DEF CreateTable, Typed
<1>2. life = 0 /\ life' = 1
  BY <1>1
<1>3. /\ wal = << >> /\ offset = 0 /\ copy = NoTable
      /\ \A s \in Syncer : Idle(s) /\ ~Sending(s)
  BY <1>1, <1>2 DEF Turns, Sharing, Finished, Idle, Sending, Stopping
<1>4. PICK e \in Line : e = [op |-> "create", dim |-> dim, life |-> 1] /\ wal' = Append(wal, e)
  BY <1>1, <1>2 DEF CreateTable, AppendLine, Line
<1>5. Result(e) = NewTable(dim) /\ Outcome(NoTable, e) = Result(e) /\ Accepts(NoTable, e)
  BY <1>4 DEF Result, Outcome, Accepts
<1>6. Chained(wal) /\ After(wal, Len(wal)) = NoTable /\ Len(wal) = 0 /\ wal \in Seq(Line)
  BY <1>3, EmptyLog DEF Chained, After, Typed
<1>7. /\ wal' \in Seq(Line) /\ Len(wal') = 1 /\ Chained(wal')
      /\ After(wal', Len(wal')) = NewTable(dim) /\ After(wal', 0) = NoTable
  <2>1. After(wal', 0) = NoTable
    BY DEF After
  <2>2. Accepts(After(wal, Len(wal)), e) /\ Outcome(After(wal, Len(wal)), e) = Result(e)
    BY <1>5, <1>6, Zenon
  <2>3. /\ wal' \in Seq(Line) /\ Len(wal') = Len(wal) + 1 /\ Chained(wal')
        /\ After(wal', Len(wal')) = Result(e)
    BY <1>4, <1>6, <2>2, ChainedAppended
  <2> QED BY <1>5, <1>6, <2>1, <2>3
<1>8. table' # NoTable /\ table' \in Table
  BY <1>1, TableOrNone DEF NewTable, Table, Tables
<1>9. Following'
  BY <1>1, <1>3, <1>7 DEF Following, Sending
<1>10. Turns'
  BY <1>1, <1>2, <1>3, <1>8 DEF Turns, Idle, Stopping
<1> QED BY <1>1, <1>8, <1>9, <1>10 DEF Sharing

\* A line is accepted that the primary's table accepts, and what is under way
\* stays where it is in the log.
LEMMA AppendMirrors ==
    ASSUME Typed, SyncTyped, Following, proc = "up", NEW e \in Line,
           Accepts(table, e), Outcome(table, e) = Result(e),
           wal' = Append(wal, e), UNCHANGED offset
    PROVE  /\ Chained(wal') /\ After(wal', Len(wal')) = Result(e)
           /\ Len(wal') = Len(wal) + 1
           /\ offset <= Len(wal')
           /\ After(wal', offset) = After(wal, offset)
           /\ \A s \in Syncer : Sending(s) =>
                  /\ offset + Len(sync[s].batch) <= Len(wal')
                  /\ \A i \in 1 .. Len(sync[s].batch) : sync[s].batch[i] = wal'[offset + i]
                  /\ After(wal', offset + sync[s].count) = After(wal, offset + sync[s].count)
<1>1. wal \in Seq(Line) /\ Len(wal) \in Nat /\ offset \in Nat
  BY DEF Typed, SyncTyped
<1>2. Chained(wal) /\ After(wal, Len(wal)) = table /\ offset <= Len(wal)
  BY DEF Following
<1>3. /\ Len(wal') = Len(wal) + 1 /\ Chained(wal')
      /\ After(wal', Len(wal')) = Result(e)
      /\ \A k \in 0 .. Len(wal) : After(wal', k) = After(wal, k)
      /\ \A i \in 1 .. Len(wal) : wal'[i] = wal[i]
  BY <1>1, <1>2, ChainedAppended
<1>4. ASSUME NEW s \in Syncer, Sending(s)
      PROVE  /\ offset + Len(sync[s].batch) <= Len(wal')
             /\ \A i \in 1 .. Len(sync[s].batch) : sync[s].batch[i] = wal'[offset + i]
             /\ After(wal', offset + sync[s].count) = After(wal, offset + sync[s].count)
  <2>1. PICK l \in SyncState : l = sync[s]
    BY DEF SyncTyped
  <2>2. l.count \in Nat /\ Len(l.batch) \in Nat
    BY <2>1 DEF SyncState
  <2>3. /\ l.count <= Len(l.batch) /\ offset + Len(l.batch) <= Len(wal)
        /\ \A i \in 1 .. Len(l.batch) : l.batch[i] = wal[offset + i]
    BY <1>4, <2>1 DEF Following, Batched
  <2>4. offset + l.count \in 0 .. Len(wal)
    BY <1>1, <2>2, <2>3
  <2>5. \A i \in 1 .. Len(l.batch) : offset + i \in 1 .. Len(wal)
    BY <1>1, <2>2, <2>3
  <2> QED BY <1>1, <1>3, <2>1, <2>2, <2>3, <2>4, <2>5
<1>5. After(wal', offset) = After(wal, offset) /\ offset <= Len(wal')
  BY <1>1, <1>2, <1>3
<1> QED BY <1>3, <1>4, <1>5

\* A write puts the replica one more line behind.
LEMMA WriteMirrors ==
    ASSUME Typed, SyncTyped, Turns, Sharing => Following,
           NEW op \in {"insert", "remove"}, Write(op), UNCHANGED <<offset, copy, sync>>
    PROVE  Turns' /\ Sharing' /\ Following'
<1>1. proc = "up" /\ table # NoTable /\ proc' = "up" /\ life' = life
  BY DEF Write
<1>2. Following /\ table \in Table
  BY <1>1, TableOrNone DEF Sharing, Typed
<1>3. PICK e \in Line : /\ e = [op |-> op, dim |-> table.dim, life |-> life]
                        /\ wal' = Append(wal, e)
                        /\ Succeeds(table, e) /\ table' = Effect(table, e)
  BY <1>1, <1>2 DEF Write, AppendLine, Typed, Line, Table
<1>4. Accepts(table, e) /\ Outcome(table, e) = Effect(table, e)
  BY <1>1, <1>3 DEF Accepts, Outcome
<1>5. Effect(table, e) = Result(e) /\ Effect(table, e) \in Table
  <2>1. Effect(table, e) = [table EXCEPT !.value = IF op = "insert" THEN life ELSE 0]
    BY <1>3 DEF Effect
  <2>2. Effect(table, e) = [dim |-> e.dim, value |-> IF op = "insert" THEN e.life ELSE 0]
    BY <1>2, <1>3, <2>1 DEF Table
  <2> QED BY <1>2, <1>3, <2>2, EffectTable DEF Result, NewTable
<1>6. table' # NoTable /\ table' \in Table
  BY <1>3, <1>5, TableOrNone DEF Tables, Table
<1>7. Following'
  <2>1. After(wal', Len(wal')) = table'
    BY <1>1, <1>2, <1>3, <1>4, <1>5, AppendMirrors
  <2>2. /\ Chained(wal') /\ offset <= Len(wal')
        /\ (\A s \in Syncer : ~Sending(s)) => copy = After(wal', offset)
    BY <1>1, <1>2, <1>3, <1>4, <1>5, AppendMirrors DEF Following
  <2>3. ASSUME NEW s \in Syncer, Sending(s)
        PROVE  Batched(sync[s])' /\ copy = After(wal', offset + sync[s].count)
    BY <1>1, <1>2, <1>3, <1>4, <1>5, <2>3, AppendMirrors DEF Following, Batched
  <2> QED BY <1>1, <2>1, <2>2, <2>3 DEF Following, Sending, Batched
<1>8. Turns'
  BY <1>1, <1>6 DEF Turns, Idle, Stopping
<1> QED BY <1>1, <1>6, <1>7, <1>8 DEF Sharing

\* DropTable and ~Engine begin with nothing under way.
LEMMA BeginMainMirrors ==
    ASSUME Typed, SyncTyped, Turns, Sharing => Following, BeginMain, Idle("loop")
    PROVE  Turns' /\ Sharing' /\ Following'
<1>1. proc = "up" /\ table # NoTable /\ table' = table /\ life' = life /\ UNCHANGED <<offset, copy>>
  BY DEF BeginMain, AppendDrop, BeginStop, Move
<1>2. Following /\ table \in Table /\ life \in Nat
  BY <1>1, TableOrNone DEF Sharing, Typed
<1>3. "main" \in Syncer /\ Idle("main") /\ \A s \in Syncer : s # "main" => s = "loop"
  BY DEF BeginMain, Begin, Syncer
<1>4. PICK l : Sound(l) /\ Becomes("main", l) /\ l.pc = "read" /\ l.life = life /\ l.attempt = 0
  BY <1>2, BeginSound DEF BeginMain, Begin
<1>5. sync'["main"] = l /\ sync'["loop"] = sync["loop"]
  BY <1>3, <1>4, Replaced DEF Syncer
<1>6. \A s \in Syncer : ~Sending(s) /\ ~Sending(s)'
  BY <1>3, <1>4, <1>5 DEF Sending, Idle
<1>7. copy = After(wal, offset)
  BY <1>2, <1>6 DEF Following
<1>8. ~CatchingUp(l)' => FALSE
  BY <1>4 DEF CatchingUp
<1>9. life # 0
  BY <1>1 DEF Turns
<1>10. CASE AppendDrop
  <2>1. PICK e \in Line : e = [op |-> "drop", dim |-> table.dim, life |-> life] /\ wal' = Append(wal, e)
    BY <1>1, <1>2, <1>10 DEF AppendDrop, AppendLine, Line, Table
  <2>2. Accepts(table, e) /\ Outcome(table, e) = NoTable /\ Result(e) = NoTable
    BY <1>1, <2>1 DEF Accepts, Outcome, Result
  <2>3. /\ Chained(wal') /\ After(wal', Len(wal')) = NoTable
        /\ offset <= Len(wal') /\ copy = After(wal', offset)
    BY <1>1, <1>2, <1>7, <2>1, <2>2, AppendMirrors
  <2>4. proc' = "dropLogged"
    BY <1>10 DEF AppendDrop, Move
  <2>5. Following'
    BY <1>1, <1>5, <1>6, <1>8, <2>3, <2>4 DEF Following
  <2>6. Turns'
    BY <1>1, <1>3, <1>4, <1>5, <1>9, <2>4 DEF Turns, Idle, Dropping, Stopping
  <2> QED BY <1>1, <2>4, <2>5, <2>6 DEF Sharing
<1>11. CASE BeginStop
  <2>1. proc' = "stopping" /\ wal' = wal
    BY <1>11 DEF BeginStop, Move, files
  <2>2. Following'
    BY <1>1, <1>2, <1>5, <1>6, <1>7, <1>8, <2>1 DEF Following
  <2>3. Turns'
    BY <1>1, <1>3, <1>4, <1>5, <1>9, <2>1 DEF Turns, Idle, Dropping, Stopping
  <2> QED BY <1>1, <2>1, <2>2, <2>3 DEF Sharing
<1> QED BY <1>10, <1>11 DEF BeginMain

\* Files and metadata go, or are written, when nothing is under way.
LEMMA LocalMirrors ==
    ASSUME Typed, SyncTyped, Turns, ~Sharing => Finished, Erase \/ Local
    PROVE  Turns' /\ ~Sharing' /\ Finished'
<1>1. UNCHANGED <<offset, copy, sync, life>>
  BY DEF Erase, Local, RemoveMetadata, RemoveSnapshot, RemoveLog, SaveSnapshot, SaveMetadata,
         RestartWithout, ReplayEntry, EndReplay
<1>2. \/ proc = "logGone" /\ proc' = "up" /\ table' = NoTable /\ wal' = wal
      \/ proc = "dropSynced" /\ proc' = "snapshotGone" /\ UNCHANGED <<table, wal>>
      \/ proc = "snapshotGone" /\ proc' = "logGone" /\ table' = table /\ wal' = << >>
      \/ proc = "stopSynced" /\ proc' = "snapshotSaved" /\ UNCHANGED <<table, wal>>
      \/ proc = "snapshotSaved" /\ proc' = "metadataSaved" /\ UNCHANGED <<table, wal>>
  <2>1. CASE Erase
    BY <2>1 DEF Erase, RemoveMetadata, Move
  <2>2. CASE RemoveSnapshot \/ RemoveLog \/ SaveSnapshot \/ SaveMetadata
    BY <2>2 DEF RemoveSnapshot, RemoveLog, SaveSnapshot, SaveMetadata, Move
  <2>3. ~RestartWithout /\ ~ReplayEntry /\ ~EndReplay
    BY DEF RestartWithout, ReplayEntry, EndReplay, Move, Turns, Dropping, Stopping
  <2> QED BY <2>1, <2>2, <2>3 DEF Local
<1>3. ~Sharing
  BY <1>2 DEF Sharing
<1>4. Finished
  BY <1>3
<1>5. ~Sharing'
  BY <1>2 DEF Sharing
<1>6. Finished'
  <2>1. Len(wal') <= offset
    BY <1>2, <1>4, EmptyLog DEF Finished, SyncTyped
  <2>2. copy = IF proc' \in Stopping THEN table' ELSE NoTable
    BY <1>2, <1>4 DEF Finished, Stopping
  <2> QED BY <1>1, <1>4, <2>1, <2>2 DEF Finished, Sending
<1>7. Turns'
  <2>1. life = 0 => table' = NoTable
    BY <1>2 DEF Turns
  <2>2. /\ proc' \in {"up"} \cup Dropping \cup Stopping
        /\ proc' \notin {"dropLogged", "stopping"} /\ proc \notin {"dropLogged", "stopping"}
        /\ proc' \in Stopping => proc \in Stopping
        /\ proc' = "logGone" \/ proc' = "up" => wal' = << >>
    BY <1>2 DEF Turns, Dropping, Stopping
  <2> QED BY <1>1, <2>1, <2>2 DEF Turns, Idle
<1> QED BY <1>5, <1>6, <1>7

\* The loop's Sync begins when no other runs.
LEMMA BeginLoopMirrors ==
    ASSUME Typed, SyncTyped, Turns, Sharing => Following, ~Sharing => Finished, BeginLoop, Idle("main")
    PROVE  Turns' /\ (Sharing' => Following') /\ (~Sharing' => Finished')
<1>1. /\ UNCHANGED <<proc, table, wal, life, offset, copy>>
      /\ proc \notin Stopping /\ table # NoTable /\ Idle("loop")
  BY DEF BeginLoop, Begin, vars, files
<1>2. "loop" \in Syncer /\ "main" \in Syncer /\ \A s \in Syncer : s \in {"loop", "main"}
  BY DEF Syncer
<1>3. life \in Nat
  BY DEF Typed
<1>4. PICK l : Sound(l) /\ Becomes("loop", l) /\ l.pc = "read" /\ l.life = life
  BY <1>3, BeginSound DEF BeginLoop, Begin
<1>5. sync'["loop"] = l /\ sync'["main"] = sync["main"]
  BY <1>2, <1>4, Replaced
<1>6. \A s \in Syncer : ~Sending(s) /\ ~Sending(s)'
  BY <1>1, <1>2, <1>4, <1>5 DEF Sending, Idle
<1>7. proc \notin {"dropLogged", "stopping"} /\ life # 0
  BY <1>1 DEF Turns
<1>8. Turns'
  BY <1>1, <1>2, <1>4, <1>5, <1>7 DEF Turns, Idle
<1>9. Sharing => Following'
  BY <1>1, <1>6, <1>7 DEF Following, Sharing
<1>10. ~Sharing => Finished'
  BY <1>1, <1>6 DEF Finished
<1>11. Sharing' <=> Sharing
  BY <1>1 DEF Sharing
<1> QED BY <1>8, <1>9, <1>10, <1>11

\* A step of a Sync that sends nothing, before it or after it.
LEMMA RestMirrors ==
    ASSUME Typed, SyncTyped, Turns, Sharing => Following, ~Sharing => Finished,
           NEW s \in Syncer, ~Idle(s), NEW m, Sound(m), Becomes(s, m),
           m.pc \in {"read", "compare", "finish"}, m.life = sync[s].life,
           Sharing /\ s = "main" => CatchingUp(m)',
           UNCHANGED <<proc, table, wal, life>>,
           \/ ~Sending(s) /\ UNCHANGED <<offset, copy>>
           \/ Sharing /\ offset' <= Len(wal) /\ copy' = After(wal, offset')
    PROVE  Turns' /\ (Sharing' => Following') /\ (~Sharing' => Finished')
<1>1. sync'[s] = m /\ \A t \in Syncer : t # s => sync'[t] = sync[t]
  BY Replaced
<1>2. \A t \in Syncer : t # s => Idle(t) /\ ~Sending(t)
  BY OneSync DEF Sending, Idle
<1>3. \A t \in Syncer : ~Sending(t)'
  BY <1>1, <1>2 DEF Sending
<1>4. life # 0
  BY DEF Turns
<1>5. \A t \in Syncer : Idle(t)' <=> Idle(t)
  BY <1>1, <1>2 DEF Idle
<1>6. \A t \in Syncer : ~Idle(t)' => sync'[t].life = life'
  BY <1>1, <1>2, <1>5 DEF Turns
<1>7. {"loop", "main"} \subseteq Syncer
  BY DEF Syncer
<1>8. Turns'
  BY <1>4, <1>5, <1>6, <1>7 DEF Turns
<1>9. Sharing' <=> Sharing
  BY DEF Sharing
<1>10. ASSUME Sharing PROVE Following'
  <2>1. copy' = After(wal, offset') /\ offset' <= Len(wal)
    <3>1. CASE ~Sending(s) /\ UNCHANGED <<offset, copy>>
      BY <1>2, <1>10, <3>1 DEF Following
    <3> QED BY <3>1
  <2>2. proc # "up" => CatchingUp(sync["main"])'
    <3>1. CASE s = "main"
      BY <1>1, <1>10, <3>1 DEF CatchingUp
    <3>2. CASE s # "main"
      BY <1>2, <1>7, <1>10, <3>2 DEF Turns, Sharing
    <3> QED BY <3>1, <3>2
  <2> QED BY <1>3, <1>10, <2>1, <2>2 DEF Following
<1>11. ASSUME ~Sharing PROVE Finished'
  BY <1>3, <1>11 DEF Finished
<1> QED BY <1>8, <1>9, <1>10, <1>11

\* The lines past the offset are read; when there are none, the attempt is over.
LEMMA ReadLogMirrors ==
    ASSUME Typed, SyncTyped, Turns, Sharing => Following, ~Sharing => Finished,
           NEW s \in Syncer, ReadLog(s)
    PROVE  Turns' /\ (Sharing' => Following') /\ (~Sharing' => Finished')
<1>1. /\ UNCHANGED <<proc, table, wal, life, offset, copy>>
      /\ sync[s].pc = "read" /\ ~Idle(s) /\ ~Sending(s)
  BY DEF ReadLog, vars, files, Idle, Sending
<1>2. PICK l \in SyncState : l = sync[s]
  BY DEF SyncTyped
<1>3. wal \in Seq(Line) /\ offset \in Nat /\ Len(wal) \in Nat
  BY DEF Typed, SyncTyped
<1>4. PICK u \in Seq(Line) : /\ u = Unsent
                             /\ Len(wal) <= offset => u = << >>
                             /\ offset < Len(wal) => u # << >>
                             /\ offset <= Len(wal) => /\ Len(u) = Len(wal) - offset
                                                      /\ \A i \in 1 .. Len(u) : u[i] = wal[offset + i]
  BY <1>3, UnsentLines DEF Unsent
<1>5. CASE u = << >>
  <2>1. PICK m : m = NextAttempt(l) /\ Over(l, m)
    BY <1>2, NextAttemptOver
  <2>2. Sound(m) /\ Becomes(s, m) /\ m.pc \in {"read", "finish"} /\ m.life = sync[s].life
    BY <1>2, <1>4, <1>5, <2>1 DEF ReadLog, Over
  <2>3. Sharing => offset = Len(wal)
    BY <1>3, <1>4, <1>5 DEF Following
  <2>4. Sharing => CatchingUp(m)'
    BY <1>1, <2>2, <2>3 DEF CatchingUp
  <2> QED BY <1>1, <2>2, <2>4, RestMirrors
<1>6. CASE u # << >>
  <2>1. PICK m : m = [l EXCEPT !.pc = "sum", !.batch = u, !.count = 0]
    OBVIOUS
  <2>2. /\ m.pc = "sum" /\ m.batch = u /\ m.count = 0 /\ m.life = l.life
        /\ Sound(m) /\ Becomes(s, m)
    <3>1. 0 < Len(u)
      BY <1>6
    <3> QED BY <1>2, <1>4, <1>6, <2>1, <3>1 DEF ReadLog, Sound, SyncState
  <2>3. sync'[s] = m /\ \A t \in Syncer : t # s => sync'[t] = sync[t]
    BY <2>2, Replaced
  <2>4. \A t \in Syncer : t # s => Idle(t) /\ ~Sending(t)
    BY <1>1, OneSync DEF Sending, Idle
  <2>5. offset < Len(wal) /\ Sharing
    BY <1>3, <1>4, <1>6 DEF Finished
  <2>6. Following /\ copy = After(wal, offset)
    BY <1>1, <2>4, <2>5 DEF Following
  <2>7. offset + Len(u) = Len(wal) /\ \A i \in 1 .. Len(u) : u[i] = wal[offset + i]
    BY <1>3, <1>4, <2>5
  <2>8. Batched(m)' /\ CatchingUp(m)' /\ offset + m.count = offset
    BY <1>1, <1>3, <2>2, <2>7 DEF Batched, CatchingUp
  <2>9. \A t \in Syncer : Sending(t)' => t = s
    BY <2>3, <2>4 DEF Sending
  <2>10. Sending(s)' /\ {"loop", "main"} \subseteq Syncer
    BY <2>2, <2>3 DEF Sending, Syncer
  <2>11. proc # "up" => s = "main"
    BY <2>4, <2>5, <2>10 DEF Turns, Sharing
  <2>12. Following'
    BY <1>1, <2>3, <2>6, <2>8, <2>9, <2>10, <2>11 DEF Following
  <2>13. life # 0 /\ sync[s].life = life /\ \A t \in Syncer : Idle(t)' <=> Idle(t)
    BY <1>1, <2>2, <2>3, <2>4 DEF Turns, Idle
  <2>14. Turns'
    BY <1>1, <1>2, <2>2, <2>3, <2>4, <2>10, <2>13 DEF Turns
  <2> QED BY <1>1, <2>5, <2>12, <2>14 DEF Sharing
<1> QED BY <1>5, <1>6

\* A step of the Sync under way that goes on sending.
LEMMA SendMirrors ==
    ASSUME Typed, SyncTyped, Turns, Sharing => Following, ~Sharing => Finished,
           NEW s \in Syncer, Sending(s), NEW m, Sound(m), Becomes(s, m),
           m.pc \in {"send", "answer"}, m.life = sync[s].life, m.batch = sync[s].batch,
           m.count <= Len(m.batch), m.pc = "answer" => m.count = Len(m.batch),
           UNCHANGED <<proc, table, wal, life, offset>>,
           copy' = After(wal, offset + m.count)
    PROVE  Turns' /\ (Sharing' => Following') /\ (~Sharing' => Finished')
<1>1. sync'[s] = m /\ \A t \in Syncer : t # s => sync'[t] = sync[t]
  BY Replaced
<1>2. ~Idle(s) /\ \A t \in Syncer : t # s => Idle(t) /\ ~Sending(t)
  BY OneSync DEF Sending, Idle
<1>3. Sharing /\ Following
  BY DEF Finished
<1>4. Batched(m)'
  BY <1>3 DEF Following, Batched
<1>5. \A t \in Syncer : Sending(t)' <=> t = s
  BY <1>1, <1>2 DEF Sending
<1>6. {"loop", "main"} \subseteq Syncer
  BY DEF Syncer
<1>7. proc # "up" => s = "main" /\ CatchingUp(m)'
  BY <1>2, <1>3, <1>6 DEF Turns, Sharing, Following, CatchingUp, Sending
<1>8. Following'
  BY <1>1, <1>3, <1>4, <1>5, <1>7 DEF Following
<1>9. life # 0 /\ sync[s].life = life /\ \A t \in Syncer : Idle(t)' <=> Idle(t)
  BY <1>1, <1>2 DEF Turns, Idle
<1>10. Turns'
  BY <1>1, <1>2, <1>6, <1>9 DEF Turns
<1> QED BY <1>3, <1>8, <1>10 DEF Sharing

\* The Sync under way: what the replica has, and the line it gets next.
LEMMA UnderWay ==
    ASSUME Typed, SyncTyped, ~Sharing => Finished, Sharing => Following, NEW s \in Syncer, Sending(s)
    PROVE  LET l == sync[s]
           IN  /\ Sharing /\ Following /\ Batched(l)
               /\ l \in SyncState /\ Sound(l)
               /\ copy = After(wal, offset + l.count)
               /\ l.pc = "send" => /\ Accepts(copy, l.batch[l.count + 1])
                                   /\ Outcome(copy, l.batch[l.count + 1]) = After(wal, offset + (l.count + 1))
<1>1. Sharing /\ Following
  BY DEF Finished
<1>2. PICK l : l = sync[s] /\ l \in SyncState /\ Sound(l)
  BY DEF SyncTyped, Sound
<1>3. Batched(l) /\ copy = After(wal, offset + l.count)
  BY <1>1, <1>2 DEF Following
<1>4. ASSUME l.pc = "send"
      PROVE  /\ Accepts(copy, l.batch[l.count + 1])
             /\ Outcome(copy, l.batch[l.count + 1]) = After(wal, offset + (l.count + 1))
  <2>1. /\ l.count \in Nat /\ Len(l.batch) \in Nat /\ l.count < Len(l.batch)
        /\ offset \in Nat /\ Len(wal) \in Nat
    BY <1>2, <1>4 DEF SyncState, Sound, SyncTyped, Typed
  <2>2. /\ offset + Len(l.batch) <= Len(wal)
        /\ \A i \in 1 .. Len(l.batch) : l.batch[i] = wal[offset + i]
    BY <1>3 DEF Batched
  <2>3. PICK i \in 1 .. Len(l.batch) : i = l.count + 1 /\ l.batch[i] = wal[offset + i]
    BY <2>1, <2>2
  <2>4. \A c, o, b, w \in Nat : c < b /\ o + b <= w
            => /\ o + (c + 1) \in 1 .. w
               /\ (o + (c + 1)) - 1 = o + c
    OBVIOUS
  <2>5. /\ offset + (l.count + 1) \in 1 .. Len(wal)
        /\ (offset + (l.count + 1)) - 1 = offset + l.count
    BY <2>1, <2>2, <2>4
  <2>6. PICK k \in 1 .. Len(wal) : k = offset + (l.count + 1) /\ k - 1 = offset + l.count
    BY <2>5
  <2>7. l.batch[l.count + 1] = wal[k]
    BY <2>6, <2>3
  <2>8. Accepts(After(wal, k - 1), wal[k]) /\ Outcome(After(wal, k - 1), wal[k]) = After(wal, k)
    BY <1>1 DEF Following, Chained
  <2> QED BY <1>3, <2>6, <2>7, <2>8
<1> QED BY <1>1, <1>2, <1>3, <1>4

\* Every step of a Sync keeps the replica where it is to be.
LEMMA SyncMirrors ==
    ASSUME Typed, SyncTyped, Turns, Sharing => Following, ~Sharing => Finished,
           NEW s \in Syncer, SyncStep(s)
    PROVE  Turns' /\ (Sharing' => Following') /\ (~Sharing' => Finished')
<1>1. PICK l : l = sync[s] /\ l \in SyncState /\ Sound(l)
  BY DEF SyncTyped, Sound
<1>2. /\ l.count \in Nat /\ Len(l.batch) \in Nat
      /\ offset \in Nat /\ Len(wal) \in Nat
  BY <1>1 DEF SyncState, SyncTyped, Typed
<1>3. CASE ReadLog(s)
  BY <1>3, ReadLogMirrors
<1>4. CASE ComputeChecksum(s)
  <2>1. UNCHANGED <<proc, table, wal, life, offset, copy>> /\ l.pc = "sum" /\ Sending(s)
    BY <1>1, <1>4 DEF ComputeChecksum, vars, files, Sending
  <2>2. PICK m : m = [l EXCEPT !.pc = "send", !.sum = Checksum(table)] /\ Becomes(s, m)
    BY <1>1, <1>4 DEF ComputeChecksum
  <2>3. m.pc = "send" /\ m.life = l.life /\ m.batch = l.batch /\ m.count = l.count
    BY <1>1, <2>2 DEF SyncState
  <2>4. Sound(m)
    <3>1. Checksum(table) \in Nat
      BY TableOrNone DEF Checksum, Typed, Table
    <3> QED BY <1>1, <2>1, <2>2, <3>1 DEF Sound, SyncState
  <2>5. copy' = After(wal, offset + m.count) /\ m.count <= Len(m.batch)
    BY <1>1, <2>1, <2>3, UnderWay DEF Batched
  <2> QED BY <1>1, <2>1, <2>2, <2>3, <2>4, <2>5, SendMirrors
<1>5. CASE ReplicaApply(s)
  <2>1. UNCHANGED <<proc, table, wal, life, offset>> /\ l.pc = "send" /\ Sending(s)
    BY <1>1, <1>5 DEF ReplicaApply, vars, files, Sending
  <2>2. /\ Accepts(copy, l.batch[l.count + 1])
        /\ Outcome(copy, l.batch[l.count + 1]) = After(wal, offset + (l.count + 1))
    BY <1>1, <2>1, UnderWay
  <2>3. PICK pc : pc = IF l.count + 1 = Len(l.batch) THEN "answer" ELSE "send"
    OBVIOUS
  <2>4. PICK m : m = [l EXCEPT !.count = @ + 1, !.pc = pc]
    OBVIOUS
  <2>5. Becomes(s, m) /\ copy' = After(wal, offset + (l.count + 1))
    BY <1>1, <1>5, <2>2, <2>3, <2>4 DEF ReplicaApply
  <2>6. l.count < Len(l.batch)
    BY <1>1, <2>1 DEF Sound
  <2>7. /\ m.pc = pc /\ m.life = l.life /\ m.batch = l.batch /\ m.count = l.count + 1
        /\ pc \in {"send", "answer"}
    BY <1>1, <1>2, <2>3, <2>4 DEF SyncState
  <2>8. /\ m.count <= Len(m.batch)
        /\ m.pc = "answer" => m.count = Len(m.batch)
        /\ m.pc = "send" => m.count < Len(m.batch)
    BY <1>2, <2>3, <2>6, <2>7
  <2>9. Sound(m)
    <3>1. l \in SyncState /\ l.count + 1 \in Nat
      BY <1>1, <1>2 DEF SyncState
    <3>2. m = [l EXCEPT !.count = l.count + 1, !.pc = pc]
      BY <2>4, <3>1 DEF SyncState
    <3>3. m \in SyncState
      BY <2>7, <3>1, <3>2 DEF SyncState
    <3> QED BY <2>7, <2>8, <3>3 DEF Sound
  <2>10. copy' = After(wal, offset + m.count)
    BY <2>5, <2>7
  <2> QED BY <1>1, <2>1, <2>5, <2>7, <2>8, <2>9, <2>10, SendMirrors
<1>6. CASE Acknowledge(s)
  <2>1. UNCHANGED <<proc, table, wal, life, copy>> /\ l.pc = "answer" /\ Sending(s) /\ ~Idle(s)
    BY <1>1, <1>6 DEF Acknowledge, vars, files, Sending, Idle
  <2>2. Sharing /\ Following /\ Batched(l) /\ copy = After(wal, offset + l.count)
    BY <1>1, <2>1, UnderWay
  <2>3. l.count = Len(l.batch) /\ offset' = offset + l.count /\ offset' <= Len(wal)
    BY <1>1, <1>2, <1>6, <2>1, <2>2 DEF Batched, Acknowledge
  <2>4. PICK m : m = [l EXCEPT !.pc = "compare"] /\ Becomes(s, m)
    BY <1>1, <1>6, <2>3 DEF Acknowledge
  <2>5. m.pc = "compare" /\ m.life = l.life /\ Sound(m)
    BY <1>1, <2>4 DEF Sound, SyncState
  <2>6. s = "main" => CatchingUp(m)'
    <3>1. s = "main" => proc # "up"
      BY <2>1 DEF Turns
    <3>2. s = "main" => offset' = Len(wal)
      BY <1>1, <2>1, <2>2, <2>3, <3>1 DEF Following, CatchingUp
    <3> QED BY <2>1, <2>5, <3>2 DEF CatchingUp
  <2> QED BY <1>1, <2>1, <2>2, <2>3, <2>4, <2>5, <2>6, RestMirrors
<1>7. CASE Compare(s)
  <2>1. UNCHANGED <<proc, table, wal, life, offset, copy>> /\ l.pc = "compare" /\ ~Sending(s) /\ ~Idle(s)
    BY <1>1, <1>7 DEF Compare, vars, files, Sending, Idle
  <2>2. PICK m : m \in {[l EXCEPT !.pc = "finish"], NextAttempt(Failed(l))} /\ Becomes(s, m)
    BY <1>1, <1>7 DEF Compare
  <2>3. m.pc \in {"read", "finish"} /\ m.life = l.life /\ Sound(m)
    <3>1. CASE m = NextAttempt(Failed(l))
      BY <1>1, <3>1, FailedSound DEF Over
    <3>2. CASE m = [l EXCEPT !.pc = "finish"]
      BY <1>1, <3>2 DEF Sound, SyncState
    <3> QED BY <2>2, <3>1, <3>2
  <2>4. Sharing /\ s = "main" => CatchingUp(m)'
    <3>1. Sharing /\ s = "main" => offset = Len(wal)
      BY <1>1, <2>1 DEF Turns, Following, CatchingUp
    <3> QED BY <2>1, <2>3, <3>1 DEF CatchingUp
  <2> QED BY <1>1, <2>1, <2>2, <2>3, <2>4, RestMirrors
<1>8. CASE Finish(s) /\ s = "main"
  <2>1. UNCHANGED <<table, wal, life, offset, copy>> /\ l.pc = "finish" /\ ~Idle(s) /\ ~Sending(s)
    BY <1>1, <1>8 DEF Finish, DropSync, StopSync, files, Sending, Idle
  <2>2. \/ proc = "dropLogged" /\ proc' = "dropSynced"
        \/ proc = "stopping" /\ proc' = "stopSynced"
    BY <1>8 DEF Finish, DropSync, StopSync, Move
  <2>3. table # NoTable /\ Sharing
    BY <2>2 DEF Typed, Dropping, Stopping, Sharing
  <2>4. \A t \in Syncer : t # s => Idle(t) /\ ~Sending(t)
    BY <2>1, OneSync DEF Sending, Idle
  <2>5. sync'[s] = Resting /\ (\A t \in Syncer : t # s => sync'[t] = sync[t]) /\ Resting.pc = "idle"
    BY <1>8, RestingSound, Replaced DEF Finish
  <2>6. \A t \in Syncer : ~Sending(t)' /\ Idle(t)'
    BY <2>4, <2>5 DEF Sending, Idle
  <2>7. offset = Len(wal) /\ copy = After(wal, offset)
    BY <1>1, <1>8, <2>1, <2>2, <2>3, <2>4 DEF Following, CatchingUp
  <2>8. copy = IF proc = "dropLogged" THEN NoTable ELSE table
    BY <2>3, <2>7 DEF Following
  <2>9. Finished' /\ ~Sharing'
    BY <1>2, <2>1, <2>2, <2>6, <2>7, <2>8 DEF Finished, Sharing, Stopping
  <2>10. Turns'
    BY <2>1, <2>2, <2>3, <2>6 DEF Turns, Idle, Dropping, Stopping, Syncer
  <2> QED BY <2>9, <2>10
<1>9. CASE Abandon(s) \/ (Finish(s) /\ s # "main")
  <2>1. UNCHANGED <<proc, table, wal, life, copy>> /\ ~Idle(s)
    BY <1>9 DEF Finish, Abandon, vars, files, Idle
  <2>2. ~Sending(s) /\ UNCHANGED offset
    <3>1. CASE Finish(s)
      BY <3>1 DEF Finish, Sending
    <3>2. CASE Abandon(s)
      <4>1. ~Holds(s)
        BY <3>2 DEF Abandon
      <4>2. table = NoTable
        BY <2>1, <4>1 DEF Holds, Turns
      <4>3. ~Sending(s)
        BY <4>2 DEF Sharing, Finished
      <4> QED BY <3>2, <4>3 DEF Abandon, Sending
    <3> QED BY <1>9, <3>1, <3>2
  <2>3. sync'[s] = Resting /\ (\A t \in Syncer : t # s => sync'[t] = sync[t]) /\ Resting.pc = "idle"
    BY <1>9, RestingSound, Replaced DEF Finish, Abandon
  <2>4. \A t \in Syncer : t # s => Idle(t) /\ ~Sending(t)
    BY <2>1, OneSync DEF Sending, Idle
  <2>5. \A t \in Syncer : ~Sending(t)' /\ Idle(t)' /\ ~Sending(t)
    BY <2>2, <2>3, <2>4 DEF Sending, Idle
  <2>6. {"loop", "main"} \subseteq Syncer
    BY DEF Syncer
  <2>7. s # "main"
    <3>1. CASE Finish(s)
      BY <1>9, <3>1 DEF Abandon, Finish
    <3>2. CASE Abandon(s)
      BY <2>1, <3>2 DEF Abandon, Holds, Turns, Typed, Dropping, Stopping
    <3> QED BY <1>9, <3>1, <3>2
  <2>8. Turns'
    BY <2>1, <2>2, <2>4, <2>5, <2>6, <2>7 DEF Turns
  <2>9. Sharing => Following'
    BY <2>1, <2>2, <2>4, <2>5, <2>6, <2>7 DEF Following, Sharing, Turns
  <2>10. ~Sharing => Finished'
    BY <2>1, <2>2, <2>5 DEF Finished
  <2> QED BY <2>1, <2>8, <2>9, <2>10 DEF Sharing
<1> QED BY <1>3, <1>4, <1>5, <1>6, <1>7, <1>8, <1>9 DEF SyncStep

-----------------------------------------------------------------------------
\* Every step of the primary, the replica or a Sync keeps the first life mirrored.
LEMMA MirroredStep ==
    ASSUME Typed, SyncTyped, Mirrored, [ReplicatedNext]_allVars
    PROVE  Mirrored'
<1> SUFFICES ASSUME disturbed' = {}
             PROVE  Turns' /\ (Sharing' => Following') /\ (~Sharing' => Finished')
  BY DEF Mirrored
<1>1. /\ \/ Call /\ ~(life' > 1)
         \/ BeginMain /\ Idle("loop")
         \/ Erase \/ Local \/ Reload
         \/ BeginLoop /\ Idle("main")
         \/ \E s \in Syncer : SyncStep(s)
         \/ UNCHANGED allVars
      /\ Turns /\ (Sharing => Following) /\ (~Sharing => Finished)
  BY DisturbedStays DEF Mirrored
<1>2. CASE Call /\ ~(life' > 1)
  BY <1>1, <1>2, CreateMirrors, WriteMirrors DEF Call
<1>3. CASE BeginMain /\ Idle("loop")
  BY <1>1, <1>3, BeginMainMirrors
<1>4. CASE Erase \/ Local
  BY <1>1, <1>4, LocalMirrors
<1>5. CASE Reload
  BY <1>1, <1>5 DEF Reload, Restart, Turns, Dropping, Stopping
<1>6. CASE BeginLoop /\ Idle("main")
  BY <1>1, <1>6, BeginLoopMirrors
<1>7. ASSUME NEW s \in Syncer, SyncStep(s)
      PROVE  Turns' /\ (Sharing' => Following') /\ (~Sharing' => Finished')
  BY <1>1, <1>7, SyncMirrors
<1>8. CASE UNCHANGED allVars
  BY <1>1, <1>8 DEF allVars, vars, files, Turns, Sharing, Following, Finished, Sending, Idle,
                    Batched, CatchingUp
<1> QED BY <1>1, <1>2, <1>3, <1>4, <1>5, <1>6, <1>7, <1>8

\* What holds at first.
LEMMA InitReplicated == ReplicatedInit => Typed /\ SyncTyped /\ Mirrored
<1> SUFFICES ASSUME ReplicatedInit PROVE Typed /\ SyncTyped /\ Mirrored
  OBVIOUS
<1>1. Typed
  BY InitTyped DEF ReplicatedInit
<1>2. /\ sync = [s \in Syncer |-> Resting] /\ copy = NoTable /\ offset = 0 /\ modified = FALSE
      /\ proc = "up" /\ table = NoTable /\ wal = << >> /\ life = 0
      /\ stops = 0 /\ losses = 0 /\ disturbed = {}
  BY DEF ReplicatedInit, Init
<1>3. \A s \in Syncer : Sound(sync[s]) /\ Idle(s) /\ ~Sending(s)
  BY <1>2, RestingSound DEF Idle, Sending
<1>4. SyncTyped
  <2>1. sync \in [Syncer -> SyncState]
    BY <1>2, RestingSound DEF Sound
  <2>2. copy \in Tables
    BY <1>2 DEF Tables
  <2> QED BY <1>2, <1>3, <2>1, <2>2 DEF SyncTyped, Sound
<1>5. Mirrored
  <2>1. Len(wal) = 0
    BY <1>2, EmptyLog
  <2> QED BY <1>2, <1>3, <2>1 DEF Mirrored, Turns, Sharing, Finished, Stopping, Idle, Syncer
<1> QED BY <1>1, <1>4, <1>5

\* The variables of the replication stay in their sets.
THEOREM ReplicationTyped == ReplicatedSpec => []ReplicatedTypeOK
<1> DEFINE Inv == Typed /\ SyncTyped
<1>1. ReplicatedInit => Inv
  BY InitReplicated
<1>2. Inv /\ [ReplicatedNext]_allVars => Inv'
  BY TypedStep, SyncTypedStep, PrimaryStep
<1>3. Inv => ReplicatedTypeOK
  BY DEF SyncTyped, ReplicatedTypeOK
<1> QED BY <1>1, <1>2, <1>3, PTL DEF ReplicatedSpec

\* A replica for which no line is left has the primary's table, a drop that has
\* returned has reached it, and so has what a shutdown saves, whatever clients
\* and the loop did between the steps of Sync.
THEOREM FirstLife == ReplicatedSpec => []FirstLifeMirrored
<1> DEFINE Inv == Typed /\ SyncTyped /\ Mirrored
<1>1. ReplicatedInit => Inv
  BY InitReplicated
<1>2. Inv /\ [ReplicatedNext]_allVars => Inv'
  BY TypedStep, SyncTypedStep, PrimaryStep, MirroredStep
<1>3. Inv => FirstLifeMirrored
  <2> SUFFICES ASSUME Inv, disturbed = {}
               PROVE  /\ proc = "up" /\ table # NoTable /\ Unsent = << >> => copy = table
                      /\ proc = "up" /\ table = NoTable => copy = NoTable
                      /\ proc \in Stopping \ {"stopping"} => copy = table
    BY DEF FirstLifeMirrored
  <2>1. (Sharing => Following) /\ (~Sharing => Finished)
    BY DEF Mirrored
  <2>2. ASSUME proc = "up", table # NoTable, Unsent = << >> PROVE copy = table
    <3>1. Following /\ wal \in Seq(Line) /\ offset \in Nat /\ Len(wal) \in Nat
      BY <2>1, <2>2 DEF Sharing, Typed, SyncTyped
    <3>2. offset = Len(wal)
      BY <2>2, <3>1, UnsentLines DEF Unsent, Following
    <3>3. After(wal, offset) = table
      BY <2>2, <3>1, <3>2 DEF Following
    <3>4. ASSUME NEW s \in Syncer, Sending(s) PROVE offset + sync[s].count = offset
      <4>1. PICK l \in SyncState : l = sync[s]
        BY DEF SyncTyped
      <4>2. l.count \in Nat /\ Len(l.batch) \in Nat
        BY <4>1 DEF SyncState
      <4>3. l.count <= Len(l.batch) /\ offset + Len(l.batch) <= Len(wal)
        BY <3>1, <3>4, <4>1 DEF Following, Batched
      <4> QED BY <3>1, <3>2, <4>1, <4>2, <4>3
    <3> QED BY <3>1, <3>3, <3>4 DEF Following
  <2>3. proc = "up" /\ table = NoTable => copy = NoTable
    BY <2>1 DEF Sharing, Finished, Stopping
  <2>4. proc \in Stopping \ {"stopping"} => copy = table
    BY <2>1 DEF Sharing, Finished, Stopping
  <2> QED BY <2>2, <2>3, <2>4
<1> QED BY <1>1, <1>2, <1>3, PTL DEF ReplicatedSpec
=============================================================================
