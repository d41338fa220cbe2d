------------------------------- MODULE Files -------------------------------
(***************************************************************************)
(* The classes that keep a value in a file: PersistentData, ValueInFile,   *)
(* saveJsonToFile, loadOrCreateJson and JsonLoader, of one process, on one *)
(* path.  The process may crash at any point and starts again; a write may *)
(* be cut short by that, or fail, as on a full disk, after any part of it. *)
(*                                                                         *)
(* A file is a sequence of digits.  A document, an object or an array, has *)
(* a mark at its end, 0; what ValueInFile and PersistentData write has no  *)
(* mark, so that a part of it is as good a value as the whole.             *)
(***************************************************************************)
EXTENDS Naturals, Sequences

CONSTANTS
  FileValues,    (* the values written: sequences of digits                *)
  DefaultValue,  (* T{}                                                    *)
  FileClasses,   (* the classes looked at: "persistent", "value", "json"   *)
  MaxFile,       (* bound: the longest content that updates append to      *)
  NoFile

(* No digit of a value is the 0 that closes a document.                    *)
ASSUME FilesAssumption ==
  /\ FileValues \cup {DefaultValue} \subseteq Seq(1..9)
  /\ \A v \in FileValues \cup {DefaultValue} : NoFile \notin {v, Append(v, 0)}

VARIABLES
  fileClass,     (* the class the program uses for the file                *)
  file,          (* the content of the file, or NoFile                     *)
  fileOp,        (* the call under way: its place and the value it writes  *)
  appending,     (* PersistentData: outfile is open                        *)
  stored,        (* the last value whose write returned success, or NoFile *)
  inDoubt,       (* values whose write failed or was cut short since       *)
  loaded         (* what a load gave, until the file is written again      *)

fileVars == <<fileClass, file, fileOp, appending, stored, inDoubt, loaded>>

Idle == [at |-> "idle", v |-> <<>>]
Text(v) == IF fileClass = "json" THEN Append(v, 0) ELSE v
Part(v, n) == SubSeq(Text(v), 1, n)
Complete(content) ==
  fileClass = "json" =>
    /\ content # <<>> /\ content[Len(content)] = 0
    /\ \A i \in 1..(Len(content) - 1) : content[i] # 0
Value(content) ==
  IF fileClass = "json" THEN SubSeq(content, 1, Len(content) - 1) ELSE content

FilesTypeOK ==
  /\ fileClass \in FileClasses
  /\ file = NoFile \/ file \in Seq(0..9)
  /\ fileOp.at \in {"idle", "opened", "part", "create"}
  /\ {stored, loaded} \ {NoFile} \subseteq Seq(0..9)
  /\ inDoubt \subseteq FileValues \cup {DefaultValue}

FilesInit ==
  /\ fileClass \in FileClasses
  /\ file = NoFile /\ fileOp = Idle /\ appending = FALSE
  /\ stored = NoFile /\ inDoubt = {} /\ loaded = NoFile

----------------------------------------------------------------------------
(* PersistentData: the constructor opens the file in append mode, where    *)
(* update's seekp(0) has no effect on the place of the next write.         *)
OpenPersistent ==
  /\ fileClass = "persistent" /\ ~appending
  /\ appending' = TRUE
  /\ file' = IF file = NoFile THEN <<>> ELSE file
  /\ UNCHANGED <<fileClass, fileOp, stored, inDoubt, loaded>>

ClosePersistent ==
  /\ appending /\ appending' = FALSE
  /\ UNCHANGED <<fileClass, file, fileOp, stored, inDoubt, loaded>>

Update(v) ==
  /\ appending /\ Len(file) + Len(v) <= MaxFile
  /\ file' = file \o Text(v)
  /\ stored' = v /\ loaded' = NoFile
  /\ UNCHANGED <<fileClass, fileOp, appending, inDoubt>>

(* The stream fails in the middle, or the process ends: a part is added,   *)
(* and a stream that has failed writes nothing more.                       *)
UpdateFails(v) ==
  /\ appending /\ Len(file) + Len(v) <= MaxFile
  /\ \E n \in 0..Len(v) : file' = file \o Part(v, n)
  /\ inDoubt' = inDoubt \cup {v} /\ loaded' = NoFile
  /\ appending' = FALSE
  /\ UNCHANGED <<fileClass, fileOp, stored>>

(* read() of an empty file returns a variable that was never set.          *)
Read ==
  /\ fileClass = "persistent"
  /\ loaded' \in IF file = NoFile THEN {DefaultValue}
                 ELSE IF file = <<>> THEN FileValues \cup {DefaultValue}
                 ELSE {file}
  /\ UNCHANGED <<fileClass, file, fileOp, appending, stored, inDoubt>>

----------------------------------------------------------------------------
(* ValueInFile::write and saveJsonToFile, of a value or of the default     *)
(* that a load wants to create: opening the file empties it; the text      *)
(* follows, from the beginning of the file, a part of it first.            *)
Wanted(v) ==
  \/ v \in FileValues /\ fileClass # "persistent" /\ fileOp = Idle
  \/ fileOp = [at |-> "create", v |-> v]

BeginsWriting(v) ==
  /\ Wanted(v)
  /\ fileOp' = [at |-> "opened", v |-> v]
  /\ inDoubt' = inDoubt \cup {v} /\ loaded' = NoFile
  /\ UNCHANGED <<fileClass, appending, stored>>

Over(text) == text \o SubSeq(file, Len(text) + 1, Len(file))

(* Variant: the file is opened without being emptied.                      *)
KeepContent(v) ==
  BeginsWriting(v) /\ file' = IF file = NoFile THEN <<>> ELSE file
BeginWrite(v) == BeginsWriting(v) /\ file' = <<>>

WritePart ==
  /\ fileOp.at = "opened" /\ fileClass # "persistent"
  /\ \E n \in 1..Len(Text(fileOp.v)) : file' = Over(Part(fileOp.v, n))
  /\ fileOp' = [fileOp EXCEPT !.at = "part"]
  /\ UNCHANGED <<fileClass, appending, stored, inDoubt, loaded>>

Writing == fileOp.at \in {"opened", "part"}
WriteRest ==
  /\ Writing
  /\ file' = Over(Text(fileOp.v))
  /\ stored' = fileOp.v /\ inDoubt' = {}
  /\ fileOp' = Idle
  /\ UNCHANGED <<fileClass, appending, loaded>>

(* The stream fails, after any part: the call returns false.               *)
WriteFails ==
  /\ Writing
  /\ fileOp' = Idle
  /\ UNCHANGED <<fileClass, file, appending, stored, inDoubt, loaded>>

----------------------------------------------------------------------------
(* ValueInFile::load, loadJsonFromFile.                                    *)
Load ==
  /\ fileClass # "persistent" /\ fileOp = Idle
  /\ loaded' = IF file = NoFile \/ file = <<>> \/ ~Complete(file) THEN NoFile
               ELSE Value(file)
  /\ UNCHANGED <<fileClass, file, fileOp, appending, stored, inDoubt>>

(* JsonLoader::load, createIfMissing: where the document is missing, and   *)
(* also where it cannot be read, the default value is saved.               *)
(* loadOrCreateJson creates a missing document only.                       *)
(* Variant: whatever is there is replaced.                                 *)
ReplaceAlways == TRUE
NothingToLoad == file = NoFile \/ ~Complete(file)
LoadOrReplace ==
  /\ fileClass = "json" /\ fileOp = Idle
  /\ IF NothingToLoad
     THEN /\ fileOp' = [at |-> "create", v |-> DefaultValue]
          /\ UNCHANGED loaded
     ELSE loaded' = Value(file) /\ UNCHANGED fileOp
  /\ UNCHANGED <<fileClass, file, appending, stored, inDoubt>>

LoadOrCreate ==
  /\ fileClass = "json" /\ fileOp = Idle /\ file = NoFile
  /\ fileOp' = [at |-> "create", v |-> DefaultValue]
  /\ UNCHANGED <<fileClass, file, appending, stored, inDoubt, loaded>>

(* The process ends at any point and starts again.                         *)
Crash ==
  /\ fileOp' = Idle /\ appending' = FALSE /\ loaded' = NoFile
  /\ UNCHANGED <<fileClass, file, stored, inDoubt>>

FilesNext ==
  \/ OpenPersistent \/ ClosePersistent
  \/ \E v \in FileValues : Update(v) \/ UpdateFails(v)
  \/ \E v \in FileValues \cup {DefaultValue} : BeginWrite(v)
  \/ WritePart \/ WriteRest \/ WriteFails
  \/ Read \/ Load \/ LoadOrReplace \/ LoadOrCreate \/ Crash

FilesSpec == FilesInit /\ [][FilesNext]_fileVars

(* As long as no update has failed since, what is read is the value of the *)
(* last one.                                                               *)
LoadsLast ==
  loaded # NoFile /\ stored # NoFile /\ inDoubt = {} => loaded = stored

(* What is loaded is the last value, if no write has failed or was cut     *)
(* short by a crash since; otherwise it is a value whose write was: a      *)
(* document whole, but of a value in a file perhaps only a beginning, that *)
(* nobody wrote.                                                           *)
LoadsWritten ==
  loaded # NoFile =>
    IF inDoubt = {} THEN loaded = stored
    ELSE \E v \in inDoubt :
           IF fileClass = "json" THEN loaded = v
           ELSE \E n \in 1..Len(v) : loaded = SubSeq(v, 1, n)

(* A document whose save returned true is not replaced by the default one  *)
(* until another write has failed.                                         *)
SavedIsKept == fileOp.at = "create" => stored = NoFile \/ inDoubt # {}

(* ValueInFile and the JSON functions keep what they were given: nothing   *)
(* is loaded but what was written last or is in doubt, and a document is   *)
(* whole; through crashes and failures at every point of a write.          *)
FilesAreSafe == fileClass # "persistent" => LoadsWritten /\ SavedIsKept
=============================================================================
