--------------------------- MODULE UtilitiesProofs ---------------------------
(* What the small components promise for any constants: each by itself,    *)
(* and among the others.                                                   *)
EXTENDS Utilities, SequenceTheorems, TLAPS

----------------------------------------------------------------------------
(* ValueInFile and the JSON functions: wherever a write is cut short, what *)
(* is loaded is the last value or one in doubt, a document whole; and no   *)
(* saved document is replaced.                                             *)

FileContents == FileValues \cup {DefaultValue}
IsJson == fileClass = "json"

(* The text of a value, and its parts.                                     *)
LEMMA TextIs ==
  ASSUME NEW v \in Seq(1..9)
  PROVE  /\ Text(v) \in Seq(0..9)
         /\ IsJson => Text(v) = Append(v, 0) /\ Len(Text(v)) = Len(v) + 1
         /\ ~IsJson => Text(v) = v
  BY DEF Text, IsJson

LEMMA PartIs ==
  ASSUME NEW v \in Seq(1..9), NEW n \in 0..Len(Text(v))
  PROVE  /\ Part(v, n) \in Seq(0..9)
         /\ Len(Part(v, n)) = n
         /\ \A i \in 1..n : Part(v, n)[i] = Text(v)[i]
  <1>1. Text(v) \in Seq(0..9)
    BY TextIs
  <1>2. \A i \in 1..n : Text(v)[i] \in 0..9
    BY <1>1
  <1> QED
    BY <1>1, <1>2, SubSeqProperties DEF Part

(* A document that is whole is the text of its value: the mark is at the   *)
(* end of no other part.                                                   *)
LEMMA DocumentIsWhole ==
  ASSUME NEW v \in Seq(1..9), IsJson
  PROVE  /\ Text(v) # <<>>
         /\ Complete(Text(v))
         /\ Value(Text(v)) = v
  <1>1. Text(v) = Append(v, 0) /\ Len(Text(v)) = Len(v) + 1
    BY TextIs
  <1>2. Text(v)[Len(Text(v))] = 0
    BY <1>1
  <1>3. \A i \in 1..(Len(Text(v)) - 1) : Text(v)[i] # 0
    BY <1>1
  <1>4. SubSeq(Text(v), 1, Len(Text(v)) - 1) = v
    BY <1>1
  <1> QED
    BY <1>1, <1>2, <1>3, <1>4 DEF Complete, Value, IsJson

LEMMA PartIsNotWhole ==
  ASSUME NEW v \in Seq(1..9), IsJson,
         NEW n \in 1..Len(Text(v)), Complete(Part(v, n))
  PROVE  Part(v, n) = Text(v)
  <1>1. Text(v) = Append(v, 0) /\ Len(Text(v)) = Len(v) + 1
    BY TextIs
  <1>2. Len(Part(v, n)) = n /\ Part(v, n)[n] = Text(v)[n]
    BY PartIs
  <1>3. Part(v, n)[n] = 0
    BY <1>2 DEF Complete, IsJson
  <1>4. n <= Len(v) => Text(v)[n] = v[n] /\ v[n] # 0
    BY <1>1
  <1>5. n = Len(Text(v))
    BY <1>1, <1>2, <1>3, <1>4
  <1> QED
    BY <1>1, <1>5 DEF Part

(* Writing from the beginning over nothing, or over a part of the same.    *)
LEMMA OverNothing ==
  ASSUME NEW text \in Seq(0..9), file = <<>>
  PROVE  Over(text) = text
  BY DEF Over

LEMMA OverPart ==
  ASSUME NEW v \in Seq(1..9), NEW n \in 1..Len(Text(v)), file = Part(v, n)
  PROVE  Over(Text(v)) = Text(v)
  <1>1. Text(v) \in Seq(0..9)
    BY TextIs
  <1>2. Len(file) = n /\ file \in Seq(0..9)
    BY PartIs
  <1>3. SubSeq(file, Len(Text(v)) + 1, Len(file)) = <<>>
    BY <1>1, <1>2
  <1>4. Over(Text(v)) = Text(v) \o <<>>
    BY <1>3 DEF Over
  <1>5. Text(v) \o <<>> = Text(v)
    BY <1>1
  <1> QED
    BY <1>4, <1>5
----------------------------------------------------------------------------
(* Between calls the file is what was stored or, if a write was not        *)
(* finished, a part of a value in doubt; a write that is not finished      *)
(* leaves a doubt, and a default value is created only where there was     *)
(* nothing to keep.                                                        *)
IsPartOf(v) == \E n \in 1..Len(Text(v)) : file = Part(v, n)
FileOk ==
  /\ stored \in FileContents \cup {NoFile} /\ inDoubt \subseteq FileContents
  /\ IF inDoubt = {} THEN file = IF stored = NoFile THEN NoFile ELSE Text(stored)
     ELSE file \in {NoFile, <<>>} \/ \E v \in inDoubt : IsPartOf(v)
OpOk ==
  /\ fileOp = Idle
     \/ fileOp \in [at : {"create", "opened", "part"}, v : FileContents]
  /\ Writing => fileOp.v \in inDoubt /\ loaded = NoFile
  /\ fileOp.at = "opened" => file = <<>>
  /\ fileOp.at = "part" => IsPartOf(fileOp.v)
  /\ fileOp.at = "create" => IsJson
FilesInv ==
  fileClass # "persistent" =>
    ~appending /\ FileOk /\ OpOk /\ LoadsWritten /\ SavedIsKept

LEMMA FilesStart == FilesInit => FilesInv
  BY DEF FilesInit, FilesInv, FileOk, OpOk, LoadsWritten, SavedIsKept, Idle,
         Writing, FileContents

(* What is read of a file that can be read.                                *)
LEMMA LoadGives ==
  ASSUME FileOk, file # NoFile, file # <<>>, Complete(file),
         fileClass # "persistent"
  PROVE  IF inDoubt = {} THEN Value(file) = stored
         ELSE \E v \in inDoubt :
                IF IsJson THEN Value(file) = v
                ELSE \E n \in 1..Len(v) : Value(file) = SubSeq(v, 1, n)
  <1>1. \A v \in FileContents : v \in Seq(1..9)
    BY FilesAssumption DEF FileContents
  <1>2. CASE inDoubt = {}
    <2>1. stored \in FileContents /\ file = Text(stored)
      BY <1>2 DEF FileOk
    <2>2. stored \in Seq(1..9)
      BY <1>1, <2>1
    <2>3. Value(Text(stored)) = stored
      BY <2>2, DocumentIsWhole, TextIs DEF Value, IsJson
    <2> QED
      BY <1>2, <2>1, <2>3
  <1>3. CASE inDoubt # {}
    <2>1. PICK v \in inDoubt : IsPartOf(v)
      BY <1>3 DEF FileOk
    <2>2. PICK n \in 1..Len(Text(v)) : file = Part(v, n)
      BY <2>1 DEF IsPartOf
    <2>3. v \in Seq(1..9)
      BY <1>1, <2>1 DEF FileOk
    <2>4. CASE IsJson
      <3>1. file = Text(v)
        BY <2>2, <2>3, <2>4, PartIsNotWhole
      <3>2. Value(Text(v)) = v
        BY <2>3, <2>4, DocumentIsWhole
      <3> QED
        BY <1>3, <2>4, <3>1, <3>2
    <2>5. CASE ~IsJson
      <3>1. Text(v) = v
        BY <2>3, <2>5, TextIs
      <3>2. Value(file) = SubSeq(v, 1, n)
        BY <2>2, <2>5, <3>1 DEF Value, Part, IsJson
      <3> QED
        BY <1>3, <2>2, <2>5, <3>1, <3>2
    <2> QED
      BY <2>4, <2>5
  <1> QED
    BY <1>2, <1>3

(* What was stored, and is not in doubt, is there to be loaded.            *)
LEMMA StoredIsThere ==
  ASSUME FileOk, IsJson, stored # NoFile, inDoubt = {}
  PROVE  file # NoFile /\ Complete(file)
  <1>1. stored \in FileContents /\ file = Text(stored)
    BY DEF FileOk
  <1>2. Text(stored) # NoFile
    BY <1>1, FilesAssumption DEF FileContents, IsJson, Text
  <1>3. Complete(Text(stored))
    BY <1>1, FilesAssumption, DocumentIsWhole DEF FileContents
  <1> QED
    BY <1>1, <1>2, <1>3

LEMMA FileStays ==
  FileOk /\ UNCHANGED <<fileClass, file, stored, inDoubt>> => FileOk'
  BY DEF FileOk, IsPartOf, Text, Part

(* What a load gives of a file that stays.                                 *)
LEMMA LoadKeeps ==
  ASSUME FileOk, fileClass # "persistent",
         file # NoFile, file # <<>>, Complete(file),
         loaded' = Value(file), UNCHANGED <<fileClass, file, stored, inDoubt>>
  PROVE  LoadsWritten'
  BY LoadGives DEF LoadsWritten, IsJson

LEMMA FilesStep == FilesInv /\ [FilesNext]_fileVars => FilesInv'
  <1> SUFFICES ASSUME FilesInv, [FilesNext]_fileVars, fileClass' # "persistent"
               PROVE  (~appending /\ FileOk /\ OpOk /\ LoadsWritten
                       /\ SavedIsKept)'
    BY DEF FilesInv
  <1>1. fileClass' = fileClass
    BY DEF FilesNext, fileVars, OpenPersistent, ClosePersistent, Update,
           UpdateFails, Read, BeginWrite, BeginsWriting, WritePart, WriteRest,
           WriteFails, Load, LoadOrReplace, LoadOrCreate, Crash
  <1>2. ~appending /\ FileOk /\ OpOk /\ LoadsWritten /\ SavedIsKept
    BY <1>1 DEF FilesInv
  <1> USE <1>1, <1>2
  <1> USE DEF IsJson
  <1>3. CASE UNCHANGED fileVars
    BY <1>3, FileStays
    DEF fileVars, OpOk, LoadsWritten, SavedIsKept, Text, Part, Writing, IsPartOf
  <1>4. CASE OpenPersistent \/ ClosePersistent \/ Read
             \/ \E v \in FileValues : Update(v) \/ UpdateFails(v)
    BY <1>4 DEF OpenPersistent, ClosePersistent, Read, Update, UpdateFails
  <1>5. ASSUME NEW v \in FileValues \cup {DefaultValue}, BeginWrite(v)
        PROVE  (~appending /\ FileOk /\ OpOk /\ LoadsWritten /\ SavedIsKept)'
    <2>1. /\ fileOp' = [at |-> "opened", v |-> v] /\ file' = <<>>
          /\ inDoubt' = inDoubt \cup {v} /\ loaded' = NoFile
          /\ UNCHANGED <<fileClass, appending, stored>>
      BY <1>5 DEF BeginWrite, BeginsWriting
    <2>2. FileOk'
      BY <2>1 DEF FileOk, FileContents
    <2> QED
      BY <2>1, <2>2 DEF OpOk, LoadsWritten, SavedIsKept, FileContents, Writing
  <1>6. CASE WritePart
    <2>1. /\ fileOp.at = "opened"
          /\ fileOp' = [fileOp EXCEPT !.at = "part"]
          /\ UNCHANGED <<fileClass, appending, stored, inDoubt, loaded>>
      BY <1>6 DEF WritePart
    <2>2. PICK n \in 1..Len(Text(fileOp.v)) : file' = Over(Part(fileOp.v, n))
      BY <1>6 DEF WritePart
    <2>3. /\ fileOp.v \in FileContents /\ file = <<>>
          /\ fileOp.v \in inDoubt /\ loaded = NoFile
      BY <2>1 DEF OpOk, Idle, Writing
    <2>4. fileOp' = [at |-> "part", v |-> fileOp.v]
      BY <2>1, <2>3 DEF OpOk, Idle
    <2>5. fileOp.v \in Seq(1..9)
      BY <2>3, FilesAssumption DEF FileContents
    <2>6. n \in 0..Len(Text(fileOp.v))
      BY <2>5, TextIs
    <2>7. file' = Part(fileOp.v, n)
      BY <2>2, <2>3, <2>5, <2>6, PartIs, OverNothing
    <2>8. IsPartOf(fileOp.v)'
      BY <2>1, <2>4, <2>7 DEF IsPartOf, Text, Part
    <2>9. FileOk'
      BY <2>1, <2>3, <2>4, <2>8 DEF FileOk
    <2>10. OpOk'
      BY <2>1, <2>3, <2>4, <2>8 DEF OpOk, Writing
    <2> QED
      BY <2>1, <2>3, <2>4, <2>9, <2>10 DEF LoadsWritten, SavedIsKept
  <1>7. CASE WriteRest
    <2>1. /\ Writing /\ file' = Over(Text(fileOp.v))
          /\ stored' = fileOp.v /\ inDoubt' = {} /\ fileOp' = Idle
          /\ UNCHANGED <<fileClass, appending, loaded>>
      BY <1>7 DEF WriteRest
    <2>2. fileOp.v \in FileContents /\ loaded = NoFile
      BY <2>1 DEF OpOk, Idle, Writing
    <2>3. fileOp.v \in Seq(1..9) /\ Text(fileOp.v) \in Seq(0..9)
      BY <2>2, FilesAssumption, TextIs DEF FileContents
    <2>4. file' = Text(fileOp.v)
      <3>1. CASE fileOp.at = "opened"
        BY <3>1, <2>1, <2>3, OverNothing DEF OpOk
      <3>2. CASE fileOp.at = "part"
        <4>1. PICK n \in 1..Len(Text(fileOp.v)) : file = Part(fileOp.v, n)
          BY <3>2 DEF OpOk, IsPartOf
        <4> QED
          BY <2>1, <2>3, <4>1, OverPart
      <3> QED
        BY <3>1, <3>2, <2>1 DEF Writing
    <2>5. stored' \in FileContents /\ stored' # NoFile /\ file' = Text(stored)'
      BY <2>1, <2>2, <2>4, FilesAssumption DEF Text, FileContents
    <2>6. FileOk'
      BY <2>1, <2>5 DEF FileOk
    <2> QED
      BY <2>1, <2>2, <2>6 DEF OpOk, LoadsWritten, SavedIsKept, Idle, Writing
  <1>8. CASE WriteFails
    <2>1. Writing /\ fileOp' = Idle
          /\ UNCHANGED <<fileClass, file, appending, stored, inDoubt, loaded>>
      BY <1>8 DEF WriteFails
    <2> QED
      BY <2>1, FileStays DEF OpOk, LoadsWritten, SavedIsKept, Idle, Writing
  <1>9. CASE Load
    <2>1. /\ fileOp' = fileOp /\ fileOp = Idle
          /\ UNCHANGED <<fileClass, file, appending, stored, inDoubt>>
          /\ loaded' = IF file = NoFile \/ file = <<>> \/ ~Complete(file)
                       THEN NoFile ELSE Value(file)
      BY <1>9 DEF Load
    <2>2. LoadsWritten'
      <3>1. CASE file = NoFile \/ file = <<>> \/ ~Complete(file)
        BY <2>1, <3>1 DEF LoadsWritten
      <3>2. CASE ~(file = NoFile \/ file = <<>> \/ ~Complete(file))
        BY <2>1, <3>2, LoadKeeps
      <3> QED
        BY <3>1, <3>2
    <2> QED
      BY <2>1, <2>2, FileStays DEF OpOk, SavedIsKept, Idle, Writing
  <1>10. CASE LoadOrReplace
    <2>1. /\ IsJson /\ fileOp = Idle
          /\ UNCHANGED <<fileClass, file, appending, stored, inDoubt>>
      BY <1>10 DEF LoadOrReplace
    <2>2. CASE NothingToLoad
      <3>1. fileOp' = [at |-> "create", v |-> DefaultValue] /\ loaded' = loaded
        BY <1>10, <2>2 DEF LoadOrReplace
      <3>2. stored = NoFile \/ inDoubt # {}
        BY <2>1, <2>2, StoredIsThere DEF NothingToLoad
      <3> QED
        BY <2>1, <3>1, <3>2, FileStays
        DEF OpOk, LoadsWritten, SavedIsKept, FileContents, Writing
    <2>3. CASE ~NothingToLoad
      <3>1. fileOp' = fileOp /\ loaded' = Value(file)
        BY <1>10, <2>3 DEF LoadOrReplace
      <3>2. file # NoFile /\ file # <<>> /\ Complete(file)
        BY <2>1, <2>3 DEF NothingToLoad, Complete
      <3>3. LoadsWritten'
        BY <2>1, <3>1, <3>2, LoadKeeps
      <3> QED
        BY <2>1, <3>1, <3>3, FileStays DEF OpOk, SavedIsKept, Idle, Writing
    <2> QED
      BY <2>2, <2>3
  <1>11. CASE LoadOrCreate
    <2>1. /\ IsJson /\ fileOp = Idle /\ file = NoFile
          /\ fileOp' = [at |-> "create", v |-> DefaultValue]
          /\ UNCHANGED <<fileClass, file, appending, stored, inDoubt, loaded>>
      BY <1>11 DEF LoadOrCreate
    <2>2. stored = NoFile \/ inDoubt # {}
      BY <2>1, StoredIsThere
    <2> QED
      BY <2>1, <2>2, FileStays
      DEF OpOk, LoadsWritten, SavedIsKept, FileContents, Writing
  <1>12. CASE Crash
    <2>1. fileOp' = Idle /\ appending' = FALSE /\ loaded' = NoFile
          /\ UNCHANGED <<fileClass, file, stored, inDoubt>>
      BY <1>12 DEF Crash
    <2> QED
      BY <2>1, FileStays DEF OpOk, LoadsWritten, SavedIsKept, Idle, Writing
  <1> QED
    BY <1>3, <1>4, <1>5, <1>6, <1>7, <1>8, <1>9, <1>10, <1>11, <1>12
    DEF FilesNext

(* ValueInFile and the JSON functions keep what they were given: nothing   *)
(* is loaded but the last value or one in doubt, a document whole, and no  *)
(* saved document is replaced.                                             *)
THEOREM FilesKept == FilesSpec => []FilesAreSafe
  <1>1. FilesInv => FilesAreSafe
    BY DEF FilesInv, FilesAreSafe
  <1> QED
    BY <1>1, FilesStart, FilesStep, PTL DEF FilesSpec
----------------------------------------------------------------------------
(* The types of the files: PersistentData included.  Between "opened" and  *)
(* the end of a write the call holds one of the values.                    *)
FilesTypeInv ==
  /\ FilesTypeOK
  /\ fileOp = Idle
     \/ fileOp \in [at : {"create", "opened", "part"}, v : FileContents]
  /\ appending \/ fileOp.at \in {"opened", "part"} => file \in Seq(0..9)
  /\ appending \in BOOLEAN

LEMMA FilesTypesStart == FilesInit => FilesTypeInv
  <1> SUFFICES ASSUME FilesInit PROVE FilesTypeInv
    OBVIOUS
  <1>1. fileOp = Idle /\ fileOp.at = "idle"
    BY DEF FilesInit, Idle
  <1>2. {stored, loaded} \ {NoFile} = {} /\ inDoubt = {}
    BY DEF FilesInit
  <1> QED
    BY <1>1, <1>2 DEF FilesInit, FilesTypeInv, FilesTypeOK

(* Writing over a file leaves a file.                                      *)
LEMMA OverIsFile ==
  ASSUME NEW text \in Seq(0..9), file \in Seq(0..9)
  PROVE  Over(text) \in Seq(0..9)
  <1>1. SubSeq(file, Len(text) + 1, Len(file)) \in Seq(0..9)
    <2>1. \A i \in (Len(text) + 1)..Len(file) : file[i] \in 0..9
      OBVIOUS
    <2> QED
      BY <2>1, SubSeqProperties
  <1> QED
    BY <1>1, ConcatProperties DEF Over

LEMMA ValueIsDigits ==
  ASSUME NEW content \in Seq(0..9)
  PROVE  Value(content) \in Seq(0..9)
  <1>1. \A i \in 1..(Len(content) - 1) : content[i] \in 0..9
    OBVIOUS
  <1> QED
    BY <1>1, SubSeqProperties DEF Value

LEMMA FilesTypesStep == FilesTypeInv /\ [FilesNext]_fileVars => FilesTypeInv'
  <1> SUFFICES ASSUME FilesTypeInv, [FilesNext]_fileVars PROVE FilesTypeInv'
    OBVIOUS
  <1> USE DEF FilesTypeInv, FilesTypeOK
  <1>1. \A v \in FileContents : v \in Seq(0..9) /\ Text(v) \in Seq(0..9)
                /\ \A n \in 0..Len(Text(v)) : Part(v, n) \in Seq(0..9)
    <2> SUFFICES ASSUME NEW v \in FileContents
                 PROVE  v \in Seq(0..9) /\ Text(v) \in Seq(0..9)
                        /\ \A n \in 0..Len(Text(v)) : Part(v, n) \in Seq(0..9)
      OBVIOUS
    <2>1. v \in Seq(1..9) /\ v \in Seq(0..9)
      BY FilesAssumption, SeqMonotonic DEF FileContents
    <2> QED
      BY <2>1, TextIs, PartIs
  <1>2. CASE UNCHANGED fileVars
    BY <1>2 DEF fileVars
  <1>3. CASE OpenPersistent
    BY <1>3 DEF OpenPersistent
  <1>4. CASE ClosePersistent
    BY <1>4 DEF ClosePersistent
  <1>5. ASSUME NEW v \in FileValues, Update(v) PROVE FilesTypeInv'
    <2>1. v \in FileContents /\ file \in Seq(0..9)
      BY <1>5 DEF Update, FileContents
    <2>2. file' \in Seq(0..9)
      BY <1>5, <1>1, <2>1 DEF Update
    <2>3. stored' = v /\ loaded' = NoFile /\ appending' = appending
          /\ UNCHANGED <<fileClass, fileOp, inDoubt>>
      BY <1>5 DEF Update
    <2> QED
      BY <1>1, <2>1, <2>2, <2>3, FilesAssumption
  <1>6. ASSUME NEW v \in FileValues \cup {DefaultValue}, BeginWrite(v)
        PROVE  FilesTypeInv'
    BY <1>6 DEF BeginWrite, BeginsWriting, FileContents
  <1>7. CASE WritePart
    <2>1. fileOp.v \in FileContents /\ fileOp.at = "opened" /\ file \in Seq(0..9)
      BY <1>7 DEF WritePart, Idle
    <2>2. fileOp' \in [at : {"part"}, v : FileContents]
      BY <1>7, <2>1 DEF WritePart, Idle
    <2>3. PICK n \in 1..Len(Text(fileOp.v)) : file' = Over(Part(fileOp.v, n))
      BY <1>7 DEF WritePart
    <2>4. n \in 0..Len(Text(fileOp.v))
      BY <1>1, <2>1
    <2>5. Part(fileOp.v, n) \in Seq(0..9)
      BY <1>1, <2>1, <2>4
    <2>6. file' \in Seq(0..9)
      BY <2>1, <2>3, <2>5, OverIsFile
    <2> QED
      BY <1>7, <2>2, <2>6 DEF WritePart, Idle
  <1>8. CASE WriteRest
    <2>1. fileOp.v \in FileContents /\ file \in Seq(0..9)
      BY <1>8 DEF WriteRest, Writing, Idle
    <2>2. file' \in Seq(0..9)
      BY <1>8, <1>1, <2>1, OverIsFile DEF WriteRest
    <2>3. stored' \in Seq(0..9) /\ inDoubt' = {} /\ fileOp' = Idle
          /\ UNCHANGED <<fileClass, appending, loaded>>
      BY <1>8, <1>1, <2>1 DEF WriteRest
    <2> QED
      BY <2>2, <2>3 DEF Idle
  <1>9. CASE WriteFails
    BY <1>9 DEF WriteFails, Writing, Idle
  <1>10. CASE Read
    BY <1>10, <1>1 DEF Read, FileContents
  <1>11. CASE Load
    <2>1. loaded' = NoFile \/ (file \in Seq(0..9) /\ loaded' = Value(file))
      BY <1>11 DEF Load
    <2>2. UNCHANGED <<fileClass, file, fileOp, appending, stored, inDoubt>>
      BY <1>11 DEF Load
    <2> QED
      BY <2>1, <2>2, ValueIsDigits DEF Idle
  <1>12. CASE LoadOrReplace
    <2>1. UNCHANGED <<fileClass, file, appending, stored, inDoubt>>
          /\ fileOp = Idle
      BY <1>12 DEF LoadOrReplace
    <2>2. CASE NothingToLoad
      BY <1>12, <2>1, <2>2 DEF LoadOrReplace, FileContents, Idle
    <2>3. CASE ~NothingToLoad
      BY <1>12, <2>1, <2>3, ValueIsDigits
      DEF LoadOrReplace, NothingToLoad, Idle
    <2> QED
      BY <2>2, <2>3
  <1>13. CASE LoadOrCreate
    BY <1>13 DEF LoadOrCreate, FileContents
  <1>14. CASE Crash
    BY <1>14 DEF Crash, Idle
  <1>15. ASSUME NEW v \in FileValues, UpdateFails(v) PROVE FilesTypeInv'
    <2>1. v \in FileContents /\ file \in Seq(0..9)
      BY <1>15 DEF UpdateFails, FileContents
    <2>2. PICK n \in 0..Len(v) : file' = file \o Part(v, n)
      BY <1>15 DEF UpdateFails
    <2>3. Part(v, n) \in Seq(0..9)
      <3>1. v \in Seq(1..9)
        BY <2>1, FilesAssumption DEF FileContents
      <3>2. n \in 0..Len(Text(v))
        BY <3>1, TextIs
      <3> QED
        BY <1>1, <2>1, <3>2
    <2>4. file' \in Seq(0..9)
      BY <2>1, <2>2, <2>3, ConcatProperties
    <2>5. inDoubt' = inDoubt \cup {v} /\ loaded' = NoFile /\ appending' = FALSE
          /\ UNCHANGED <<fileClass, fileOp, stored>>
      BY <1>15 DEF UpdateFails
    <2> QED
      BY <2>4, <2>5
  <1> QED
    BY <1>2, <1>3, <1>4, <1>5, <1>6, <1>7, <1>8, <1>9, <1>10, <1>11, <1>12,
       <1>13, <1>14, <1>15 DEF FilesNext

----------------------------------------------------------------------------
(* DebugMutex.                                                             *)

(* The mutex is held by the thread that is not outside, and owner names    *)
(* the thread that is inside.                                              *)
Holder == \A t \in Threads : mtx = t <=> mutexPlace[t] # "outside"
Owner == \A t \in Threads : owner = t <=> mutexPlace[t] = "inside"
MutexInv == MutexTypeOK /\ Holder /\ Owner

LEMMA MutexStart == MutexInit => MutexInv
  BY NoThreadAssumption DEF MutexInit, MutexInv, MutexTypeOK, Holder, Owner

LEMMA MutexStep == MutexInv /\ [MutexNext]_mutexVars => MutexInv'
  <1> SUFFICES ASSUME MutexInv, [MutexNext]_mutexVars PROVE MutexInv'
    OBVIOUS
  <1> USE NoThreadAssumption DEF MutexInv, MutexTypeOK, Holder, Owner, Moves
  <1>1. CASE UNCHANGED mutexVars
    BY <1>1 DEF mutexVars
  <1>2. ASSUME NEW t \in Threads, Lock(t) PROVE MutexInv'
    BY <1>2 DEF Lock
  <1>3. ASSUME NEW t \in Threads, SetOwner(t) PROVE MutexInv'
    BY <1>3 DEF SetOwner
  <1>4. ASSUME NEW t \in Threads, ResetOwner(t) PROVE MutexInv'
    BY <1>4 DEF ResetOwner
  <1>5. ASSUME NEW t \in Threads, Unlock(t) PROVE MutexInv'
    BY <1>5 DEF Unlock
  <1> QED
    BY <1>1, <1>2, <1>3, <1>4, <1>5 DEF MutexNext

(* isLockedByCurrentThread() answers rightly, for any set of threads.      *)
THEOREM OwnerKnown == MutexSpec => []OwnerIsRight
  <1>1. MutexInv => OwnerIsRight
    BY DEF MutexInv, Owner, OwnerIsRight, isLockedByCurrentThread
  <1> QED
    BY <1>1, MutexStart, MutexStep, PTL DEF MutexSpec

(* Never two threads between lock() and unlock().                          *)
THEOREM MutualExclusion ==
  MutexSpec => [](\A t, u \in Threads :
                    mutexPlace[t] # "outside" /\ mutexPlace[u] # "outside"
                    => t = u)
  <1>1. MutexInv => \A t, u \in Threads :
                 mutexPlace[t] # "outside" /\ mutexPlace[u] # "outside" => t = u
    BY DEF MutexInv, Holder
  <1> QED
    BY <1>1, MutexStart, MutexStep, PTL DEF MutexSpec

----------------------------------------------------------------------------
(* ThreadSafeData.                                                         *)

(* The mutex is held by the one user inside set or get; while the object   *)
(* is moved from everybody else is outside; and a half-written or          *)
(* half-read value is seen by its own user alone.                          *)
Holding(u) == dataPlace[u] \in {"set", "setting", "get", "getting"}
Exclusive ==
  /\ \A u \in DataUsers : Holding(u) <=> dataMutex = u
  /\ \A u, w \in DataUsers :
       dataPlace[u] = "moving" /\ u # w => dataPlace[w] = "outside"
WholeBetween ==
  (\A u \in DataUsers : dataPlace[u] \notin {"setting", "moving"})
    => data[1] = data[2]
WholeInHand ==
  \A u \in DataUsers :
    /\ dataPlace[u] \in {"set", "setting", "outside"} =>
         copied[u][1] = copied[u][2]
    /\ dataPlace[u] = "setting" => data[1] = copied[u][1]
    /\ dataPlace[u] = "getting" => copied[u][1] = data[1]
    /\ dataPlace[u] = "moving" => data[1] = NoData /\ copied[u][1] = data[2]
DataInv == DataTypeOK /\ Exclusive /\ WholeBetween /\ WholeInHand

LEMMA DataStart == DataInit => DataInv
  BY DataAssumption
  DEF DataInit, DataInv, DataTypeOK, Halves, Exclusive, Holding, WholeBetween,
      WholeInHand

LEMMA DataStep == DataInv /\ CarefulMove /\ [DataNext]_dataVars => DataInv'
  <1> SUFFICES ASSUME DataInv, CarefulMove, [DataNext]_dataVars PROVE DataInv'
    OBVIOUS
  <1> USE DataAssumption
      DEF DataInv, DataTypeOK, Halves, Exclusive, Holding, WholeBetween,
          WholeInHand, At, Enter, NobodyMoves, ReadFirstHalf, ReadSecondHalf
  <1>1. CASE UNCHANGED dataVars
    BY <1>1 DEF dataVars
  <1>2. ASSUME NEW u \in DataUsers, NobodyMoves(u), CallSet(u) PROVE DataInv'
    BY <1>2 DEF CallSet
  <1>3. ASSUME NEW u \in DataUsers, NobodyMoves(u), CallGet(u) PROVE DataInv'
    BY <1>3 DEF CallGet
  <1>4. ASSUME NEW u \in DataUsers, SetFirstHalf(u) PROVE DataInv'
    BY <1>4 DEF SetFirstHalf
  <1>5. ASSUME NEW u \in DataUsers, SetSecondHalf(u) PROVE DataInv'
    BY <1>5 DEF SetSecondHalf
  <1>6. ASSUME NEW u \in DataUsers, Get(u) PROVE DataInv'
    BY <1>6 DEF Get
  <1>7. ASSUME NEW u \in DataUsers, Move(u) PROVE DataInv'
    BY <1>7, SMTT(30) DEF Move
  <1> QED
    BY <1>1, <1>2, <1>3, <1>4, <1>5, <1>6, <1>7 DEF DataNext

(* Every call copies a whole value, for any users and any values, if the   *)
(* object is moved from while nobody else uses it.                         *)
THEOREM WholeCopies ==
  ASSUME CarefulMove
  PROVE  DataSpec => []CopiesAreWhole
  <1>1. DataInv => CopiesAreWhole
    BY DEF DataInv, WholeInHand, CopiesAreWhole
  <1>2. DataInv /\ [DataNext]_dataVars => DataInv'
    BY DataStep, CarefulMove
  <1> QED
    BY <1>1, <1>2, DataStart, PTL DEF DataSpec

----------------------------------------------------------------------------
(* ThreadInterval and SpeedMonitor: their callbacks.                       *)

(* A callback that comes late is the one whose test passed before running  *)
(* was reset: after it the thread finds running reset.                     *)
IntervalInv ==
  /\ IntervalTypeOK
  /\ running <=> client = "using"
  /\ running => lateTicks = 0
  /\ thread = "calling" => lateTicks = 0
  /\ lateTicks <= 1
  /\ client = "gone" => thread = "done"

LEMMA IntervalStart == IntervalInit => IntervalInv
  BY DEF IntervalInit, IntervalInv, IntervalTypeOK

LEMMA IntervalStep ==
  IntervalInv /\ [IntervalNext]_intervalVars => IntervalInv'
  <1> SUFFICES ASSUME IntervalInv, [IntervalNext]_intervalVars
               PROVE IntervalInv'
    OBVIOUS
  <1> USE DEF IntervalInv, IntervalTypeOK, Runs
  <1>1. CASE WakeUp
    BY <1>1 DEF WakeUp
  <1>2. CASE TestRunning
    BY <1>2 DEF TestRunning
  <1>3. CASE CallCallback
    BY <1>3 DEF CallCallback
  <1>4. CASE CallbackReturns
    BY <1>4 DEF CallbackReturns
  <1>5. CASE BeginDestructor
    BY <1>5 DEF BeginDestructor
  <1>6. CASE JoinTicker
    BY <1>6 DEF JoinTicker
  <1>7. CASE UNCHANGED intervalVars
    BY <1>7 DEF intervalVars
  <1> QED
    BY <1>1, <1>2, <1>3, <1>4, <1>5, <1>6, <1>7 DEF IntervalNext, Tick

(* A late edge is the one of the poll after the last test: its thread was  *)
(* asleep when running was reset.  And the last edge reported is the side  *)
(* of the threshold the speed is on, since each poll compares two speeds.  *)
MonitorInv ==
  /\ lateEdges \in Nat
  /\ monitor \in {"starting", "testing", "asleep", "inside", "done"}
  /\ monitoring \in BOOLEAN
  /\ monitoring <=> monitorClient = "using"
  /\ monitoring \/ monitor = "asleep" => lateEdges = 0
  /\ lateEdges <= 1
  /\ monitorClient = "gone" => monitor = "done"
  /\ ReportsFollowSpeed

LEMMA MonitorStart == MonitorInit => MonitorInv
  BY DEF MonitorInit, MonitorInv, ReportsFollowSpeed

LEMMA MonitorKeeps == MonitorInv /\ [MonitorNext]_monitorVars => MonitorInv'
  <1> SUFFICES ASSUME MonitorInv, [MonitorNext]_monitorVars
               PROVE MonitorInv'
    OBVIOUS
  <1> USE DEF MonitorInv
  <1>1. CASE TestMonitoring
    BY <1>1 DEF TestMonitoring, polled, ReportsFollowSpeed, Below
  <1>2. CASE Poll
    <2>1. PICK dt \in Elapsed :
            LET now == Smooth(RawSpeed(sharedValue - lastValue, dt), speed)
                edge == Edge(speed, now)
            IN /\ speed' = now
               /\ monitor' = IF edge = "none" THEN "testing" ELSE "inside"
               /\ lastEdge' = IF edge = "none" THEN lastEdge ELSE edge
               /\ lateEdges' = lateEdges + IF edge = "none" \/ monitoring
                                           THEN 0 ELSE 1
      BY <1>2 DEF Poll
    <2> DEFINE edge == Edge(speed, speed')
    <2>2. /\ monitor' \in {"testing", "inside"}
          /\ lateEdges' \in {lateEdges, lateEdges + 1}
          /\ monitoring => lateEdges' = lateEdges
          /\ lastEdge' = IF edge = "none" THEN lastEdge ELSE edge
      BY <2>1
    <2>3. monitor = "asleep" /\ UNCHANGED <<monitoring, monitorClient>>
      BY <1>2 DEF Poll
    <2>4. ReportsFollowSpeed'
      BY <2>2 DEF ReportsFollowSpeed, Edge, Below
    <2> QED
      BY <2>2, <2>3, <2>4
  <1>3. CASE EdgeReturns
    BY <1>3 DEF EdgeReturns, polled, ReportsFollowSpeed, Below
  <1>4. CASE SetValue
    BY <1>4 DEF SetValue, polled, ReportsFollowSpeed, Below
  <1>5. CASE DestroyMonitor
    BY <1>5 DEF DestroyMonitor, polled, ReportsFollowSpeed, Below
  <1>6. CASE JoinMonitor
    BY <1>6 DEF JoinMonitor, polled, ReportsFollowSpeed, Below
  <1>7. CASE UNCHANGED monitorVars
    BY <1>7 DEF monitorVars, polled, ReportsFollowSpeed, Below
  <1>8. CASE StartMonitoring
    BY <1>8 DEF StartMonitoring, ReportsFollowSpeed, Below
  <1> QED
    BY <1>1, <1>2, <1>3, <1>4, <1>5, <1>6, <1>7, <1>8 DEF MonitorNext, MonitorStep

(* ThreadInterval by itself: at most one callback begins after the         *)
(* destructor has reset running, and none after it has returned.           *)
THEOREM OneLateTickEver == IntervalSpec => []OneLateTick
  <1>1. IntervalInv => OneLateTick
    BY DEF IntervalInv, OneLateTick
  <1> QED
    BY <1>1, IntervalStart, IntervalStep, PTL DEF IntervalSpec

(* SpeedMonitor by itself: at most one late edge, none after the           *)
(* destructor, and the last edge reported tells the side of the speed,     *)
(* infinities and NaNs included.                                           *)
THEOREM EdgesAreTrue == MonitorSpec => [](OneLateEdge /\ ReportsFollowSpeed)
  <1>1. MonitorInv => OneLateEdge /\ ReportsFollowSpeed
    BY DEF MonitorInv, OneLateEdge
  <1> QED
    BY <1>1, MonitorStart, MonitorKeeps, PTL DEF MonitorSpec

----------------------------------------------------------------------------
(* The types of SpeedMonitor and ThreadSafeEvent.                          *)

(* A smoothed speed is a number, an infinity or not a number.              *)
Speeds ==
  [kind : {"number"}, v : Int]
  \cup [kind : {"infinite", "minus infinite", "nan"}, v : {0}]

LEMMA NumbersHaveValues ==
  ASSUME NEW s \in Speeds
  PROVE  /\ s.kind \in {"number", "infinite", "minus infinite", "nan"}
         /\ s.v \in Int
         /\ s.kind # "number" => s.v = 0
  <1>1. CASE s \in [kind : {"number"}, v : Int]
    BY <1>1
  <1>2. CASE s \in [kind : {"infinite", "minus infinite", "nan"}, v : {0}]
    <2>1. s.kind \in {"infinite", "minus infinite", "nan"} /\ s.v = 0
      BY <1>2
    <2>2. 0 \in Int
      OBVIOUS
    <2> QED
      BY <2>1, <2>2, Zenon
  <1> QED
    BY <1>1, <1>2 DEF Speeds

LEMMA SpeedType ==
  ASSUME NEW delta \in Int, NEW dt \in Int, NEW old \in Speeds
  PROVE  Smooth(RawSpeed(delta, dt), old) \in Speeds
  <1>1. \A n \in Int : Number(n) \in Speeds
    BY DEF Number, Speeds
  <1>2. Special("nan") \in Speeds /\ Special("infinite") \in Speeds
        /\ Special("minus infinite") \in Speeds
    BY DEF Special, Speeds
  <1> DEFINE raw == RawSpeed(delta, dt)
  <1>3. raw \in Speeds
    <2>1. dt > 0 => (4 * delta) \div dt \in Int
      OBVIOUS
    <2> QED
      BY <1>1, <1>2, <2>1 DEF RawSpeed
  <1> HIDE DEF raw
  <1>4. CASE raw.kind = "number" /\ old.kind = "number"
    <2>1. raw.v \in Int /\ old.v \in Int
      BY <1>3, <1>4, NumbersHaveValues
    <2>2. (raw.v + old.v) \div 2 \in Int
      BY <2>1
    <2>3. Smooth(raw, old) = Number((raw.v + old.v) \div 2)
      BY <1>4 DEF Smooth
    <2> QED
      BY <1>1, <2>2, <2>3 DEF raw
  <1>5. CASE ~(raw.kind = "number" /\ old.kind = "number")
    <2>1. Smooth(raw, old) = Special("nan")
          \/ Smooth(raw, old) \in {raw, old}
      <3>1. \E s \in {raw, old} : s.kind # "number"
        BY <1>5
      <3>2. (CHOOSE s \in {raw, old} : s.kind # "number") \in {raw, old}
        BY <3>1
      <3> QED
        BY <1>5, <3>2 DEF Smooth
    <2> QED
      BY <1>2, <1>3, <2>1 DEF raw
  <1> QED
    BY <1>4, <1>5

MonitorTypeInv == MonitorTypeOK /\ speed \in Speeds

LEMMA MonitorTypeStart == MonitorInit => MonitorTypeInv
  BY DEF MonitorInit, MonitorTypeInv, MonitorTypeOK, Speeds, Number

LEMMA MonitorTypeStep ==
  MonitorTypeInv /\ [MonitorNext]_monitorVars => MonitorTypeInv'
  <1> SUFFICES ASSUME MonitorTypeInv, [MonitorNext]_monitorVars
               PROVE MonitorTypeInv'
    OBVIOUS
  <1>0. /\ sharedValue \in Samples \cup {0} /\ lastValue \in Samples \cup {0}
        /\ lateEdges \in Nat /\ lastEdge \in {"none", "rising", "falling"}
        /\ speed \in Speeds
    BY DEF MonitorTypeInv, MonitorTypeOK
  <1>1. CASE TestMonitoring
    BY <1>1 DEF TestMonitoring, polled, MonitorTypeInv, MonitorTypeOK
  <1>2. CASE Poll
    <2>1. PICK dt \in Elapsed :
            LET now == Smooth(RawSpeed(sharedValue - lastValue, dt), speed)
                edge == Edge(speed, now)
            IN /\ speed' = now
               /\ monitor' = IF edge = "none" THEN "testing" ELSE "inside"
               /\ lastEdge' = IF edge = "none" THEN lastEdge ELSE edge
               /\ lateEdges' = lateEdges + IF edge = "none" \/ monitoring
                                           THEN 0 ELSE 1
      BY <1>2 DEF Poll
    <2>2. sharedValue - lastValue \in Int /\ dt \in Int
      BY <1>0, MonitorAssumption
    <2>3. speed' \in Speeds
      BY <1>0, <2>1, <2>2, SpeedType
    <2>4. /\ monitor' \in {"testing", "inside"} /\ lateEdges' \in Nat
          /\ lastEdge' \in {"none", "rising", "falling"}
      <3> DEFINE edge == Edge(speed, speed')
      <3>1. edge \in {"none", "rising", "falling"}
        BY DEF Edge
      <3>2. /\ monitor' \in {"testing", "inside"}
            /\ lateEdges' \in {lateEdges, lateEdges + 1}
            /\ lastEdge' = IF edge = "none" THEN lastEdge ELSE edge
        BY <1>0, <2>1
      <3> QED
        BY <1>0, <3>1, <3>2
    <2>5. /\ lastValue' = sharedValue
          /\ UNCHANGED <<sharedValue, monitoring, monitorClient>>
      BY <1>2 DEF Poll
    <2> QED
      BY <2>3, <2>4, <2>5, NumbersHaveValues DEF MonitorTypeInv, MonitorTypeOK
  <1>3. CASE EdgeReturns
    BY <1>3 DEF EdgeReturns, polled, MonitorTypeInv, MonitorTypeOK
  <1>4. CASE SetValue
    BY <1>4 DEF SetValue, polled, MonitorTypeInv, MonitorTypeOK
  <1>5. CASE DestroyMonitor
    BY <1>5 DEF DestroyMonitor, polled, MonitorTypeInv, MonitorTypeOK
  <1>6. CASE JoinMonitor
    BY <1>6 DEF JoinMonitor, polled, MonitorTypeInv, MonitorTypeOK
  <1>7. CASE UNCHANGED monitorVars
    BY <1>7 DEF monitorVars, polled, MonitorTypeInv, MonitorTypeOK
  <1>8. CASE StartMonitoring
    BY <1>0, <1>8 DEF StartMonitoring, MonitorTypeInv, MonitorTypeOK
  <1> QED
    BY <1>1, <1>2, <1>3, <1>4, <1>5, <1>6, <1>7, <1>8 DEF MonitorNext, MonitorStep

LEMMA EventTypeStep == EventTypeOK /\ [EventNext]_eventVars => EventTypeOK'
  BY DEF EventTypeOK, EventNext, eventVars, CallEnds, Turns, SetEvent,
         CallWaitEvent, CallWaitForEvent, Release, Expire

LEMMA DataTypeStep == DataTypeOK /\ [DataNext]_dataVars => DataTypeOK'
  <1> SUFFICES ASSUME DataTypeOK, [DataNext]_dataVars PROVE DataTypeOK'
    OBVIOUS
  <1> USE DEF DataTypeOK, Halves, At, Enter, ReadFirstHalf, ReadSecondHalf
  <1>1. CASE UNCHANGED dataVars
    BY <1>1 DEF dataVars
  <1>2. ASSUME NEW u \in DataUsers, CallSet(u) \/ CallGet(u) PROVE DataTypeOK'
    BY <1>2 DEF CallSet, CallGet
  <1>3. ASSUME NEW u \in DataUsers, SetFirstHalf(u) \/ SetSecondHalf(u)
        PROVE  DataTypeOK'
    BY <1>3 DEF SetFirstHalf, SetSecondHalf
  <1>4. ASSUME NEW u \in DataUsers, Get(u) PROVE DataTypeOK'
    BY <1>4 DEF Get
  <1>5. ASSUME NEW u \in DataUsers, Move(u) PROVE DataTypeOK'
    <2>1. data[1] \in Halves /\ data[2] \in Halves /\ NoData \in Halves
      OBVIOUS
    <2>2. data' \in Halves \X Halves /\ dataMutex' = dataMutex
      BY <1>5, <2>1 DEF Move
    <2>3. dataPlace' \in [DataUsers -> {"outside", "set", "setting", "get",
                                       "getting", "moving"}]
      BY <1>5 DEF Move
    <2>4. copied' \in [DataUsers -> Halves \X Halves]
      BY <1>5, <2>1 DEF Move
    <2> QED
      BY <2>2, <2>3, <2>4
  <1> QED
    BY <1>1, <1>2, <1>3, <1>4, <1>5 DEF DataNext

----------------------------------------------------------------------------
(* The components side by side: a step of the small components is a step   *)
(* of each of them or leaves it alone.                                     *)
LEMMA StepOfOne ==
  [Next]_vars => /\ [MutexNext]_mutexVars /\ [IntervalNext]_intervalVars
                 /\ [MonitorNext]_monitorVars /\ [EventNext]_eventVars
                 /\ [DataNext]_dataVars /\ [FilesNext]_fileVars
                 /\ subject' = subject
  BY DEF Next, vars, MutexTurn, IntervalTurn, MonitorTurn, EventTurn, DataTurn,
         FilesTurn, Only

(* Types, whichever component is looked at.                                *)
THEOREM UtilitiesTyped == Spec => []TypeOK
  <1> DEFINE IInv ==
        /\ subject \in Subjects
        /\ MutexInv /\ IntervalInv /\ MonitorTypeInv /\ EventTypeOK
        /\ DataTypeOK /\ FilesTypeInv
  <1>1. Init => IInv
    <2>1. EventInit => EventTypeOK
      BY DEF EventInit, EventTypeOK
    <2>2. DataInit => DataTypeOK
      BY DEF DataInit, DataTypeOK, Halves
    <2> QED
      BY <2>1, <2>2, MutexStart, IntervalStart, MonitorTypeStart,
         FilesTypesStart
      DEF Init
  <1>2. IInv /\ [Next]_vars => IInv'
    BY StepOfOne, MutexStep, IntervalStep, MonitorTypeStep, EventTypeStep,
       DataTypeStep, FilesTypesStep
  <1>3. IInv => TypeOK
    BY DEF TypeOK, MutexInv, IntervalInv, MonitorTypeInv, FilesTypeInv
  <1> QED
    <2> HIDE DEF IInv
    <2> QED
      BY <1>1, <1>2, <1>3, PTL DEF Spec

(* Callbacks are true to their objects, whichever component is looked at.  *)
THEOREM CallbacksProved == Spec => []CallbacksAreTrue
  <1> DEFINE IInv == IntervalInv /\ MonitorInv
  <1>1. Init => IInv
    BY IntervalStart, MonitorStart DEF Init
  <1>2. IInv /\ [Next]_vars => IInv'
    BY StepOfOne, IntervalStep, MonitorKeeps
  <1>3. IInv => CallbacksAreTrue
    BY DEF IntervalInv, MonitorInv, CallbacksAreTrue, OneLateTick, OneLateEdge
  <1> QED
    <2> HIDE DEF IInv
    <2> QED
      BY <1>1, <1>2, <1>3, PTL DEF Spec

(* DebugMutex knows its owner, whichever component is looked at.           *)
THEOREM OwnerProved == Spec => []OwnerIsRight
  <1>1. Init => MutexInv
    BY MutexStart DEF Init
  <1>2. MutexInv /\ [Next]_vars => MutexInv'
    BY StepOfOne, MutexStep
  <1>3. MutexInv => OwnerIsRight
    BY DEF MutexInv, Owner, OwnerIsRight, isLockedByCurrentThread
  <1> QED
    BY <1>1, <1>2, <1>3, PTL DEF Spec

(* ThreadSafeData is copied whole, whichever component is looked at, if it *)
(* is moved from while nobody else uses it.                                *)
THEOREM CopiesProved ==
  ASSUME CarefulMove
  PROVE  Spec => []CopiesAreWhole
  <1>1. Init => DataInv
    BY DataStart DEF Init
  <1>2. DataInv /\ [Next]_vars => DataInv'
    BY StepOfOne, DataStep, CarefulMove
  <1>3. DataInv => CopiesAreWhole
    BY DEF DataInv, WholeInHand, CopiesAreWhole
  <1> QED
    BY <1>1, <1>2, <1>3, PTL DEF Spec

(* The files keep what they were given, whichever component is looked at.  *)
THEOREM FilesProved == Spec => []FilesAreSafe
  <1>1. Init => FilesInv
    BY FilesStart DEF Init
  <1>2. FilesInv /\ [Next]_vars => FilesInv'
    BY StepOfOne, FilesStep
  <1>3. FilesInv => FilesAreSafe
    BY DEF FilesInv, FilesAreSafe
  <1> QED
    BY <1>1, <1>2, <1>3, PTL DEF Spec
=============================================================================
