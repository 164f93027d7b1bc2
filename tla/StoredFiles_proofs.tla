------------------------- MODULE StoredFiles_proofs -------------------------
(***************************************************************************)
(* Theorems about the files of the offline storage: which list, stream or  *)
(* token leads to which file.                                              *)
(***************************************************************************)
EXTENDS TokenStore_proofs

(* Every record fits into a file, so that no file is given up before it    *)
(* was written to; and no two files are named in the same second, so that  *)
(* no name is used twice.  Each theorem below names the one it needs.      *)
RecordsFit  == \A n \in RecordSizes : n <= MaxFileSize
UniqueNames == ~ SameSecond /\ ~ FastRestart

(* The token of the last line of f is out. *)
EofOf(t, f) == token_store[t].file = f /\ token_store[t].eof
LastLineKnown(f) == \E t \in Token : EofOf(t, f)

(* What in memory leads to f, the write file apart; and what is known of f *)
(* at all.                                                                 *)
Used(f) == \/ stored_files[f] > 0
           \/ f = active_read_file
           \/ isTokenAvailable(f)
           \/ Tracked(f)
           \/ \E t \in Token : token_store[t].file = f
Mentioned(f) == \/ Used(f)
                \/ f \in files
                \/ backup_file[f] # NoPos
                \/ f = active_write_file

(* A file is written, stored, read or wholly handed out, and only one of   *)
(* these; the exception is the write file the reader has taken, which is   *)
(* stored and read.                                                        *)
Exclusive ==
    /\ \A f \in Path : stored_files[f] <= 1
    /\ \A f \in Path : LastLineKnown(f) => stored_files[f] = 0 /\ active_read_file # f
    /\ \A f \in Path, t, u \in Token : EofOf(t, f) /\ EofOf(u, f) => t = u
    /\ active_write_file # NoFile => /\ stored_files[active_write_file] = 0
                                     /\ active_read_file # active_write_file
                                     /\ ~ LastLineKnown(active_write_file)
    /\ mode = "down" => active_read_file = NoFile

(* What is stored, read or handed out is on disk. *)
OnDisk ==
    /\ \A f \in Path : stored_files[f] > 0 \/ f = active_read_file \/ LastLineKnown(f)
                         => f \in files
    /\ active_write_file_size > 0 => active_write_file \in files

(* Names known are of different seconds, none later than the last          *)
(* rotation, which named the write file; and nothing that is left of an    *)
(* earlier file leads to the write file.                                   *)
NamesInv ==
    /\ \A f \in Path : Mentioned(f) => f[1] <= now
    /\ \A f, g \in Path : Mentioned(f) /\ Mentioned(g) /\ f[1] = g[1] => f = g
    /\ active_write_file # NoFile => active_write_file[1] = now /\ ~ Used(active_write_file)

FilesInv == /\ Exclusive
            /\ RecordsFit => OnDisk
            /\ UniqueNames => NamesInv

(* A name that a rotation may take. *)
NewName(f) == /\ stored_files[f] = 0
              /\ active_read_file # f
              /\ ~ LastLineKnown(f)
              /\ f # active_write_file
-----------------------------------------------------------------------------
LEMMA ListValues ==
    ASSUME NEW list \in [Path -> Nat], NEW f
    PROVE  /\ \A g \in Path : Push(list, f)[g] = IF g = f THEN list[g] + 1 ELSE list[g]
           /\ f \in Path => \A g \in Path :
                Erase(list, f)[g] = IF g = f /\ list[g] > 0 THEN list[g] - 1 ELSE list[g]
  BY DEF Push, Erase

(* The parts of the types these proofs use. *)
LEMMA FileTypes ==
    ASSUME TInv
    PROVE  /\ stored_files \in [Path -> Nat]
           /\ \A f \in Path : stored_files[f] \in Nat /\ f[1] \in Nat
           /\ now \in Nat /\ active_write_file_size \in Nat
           /\ active_write_file \in Path \cup {NoFile}
           /\ active_read_file \in Path \cup {NoFile}
           /\ files \subseteq Path
           /\ token_store \in [Token -> FileTokenInfo \cup {NoInfo}]
           /\ file_tokens \in [Path -> Seq(Token)]
           /\ staged_tokens \in [Path -> Pos \cup {NoPos}]
           /\ backup_file \in [Path -> Pos \cup {NoPos}]
           /\ Up => active_write_file \in Path
<1>1. \A f \in Path : f[1] \in Nat
  BY StrategyAssumption
<1>2. QED
  BY <1>1 DEF TInv, TypeOK, TokenStoreTypeOK, ProcessInv

(* A name of a later second is known apart from the others.                *)
LEMMA LaterName ==
    ASSUME NamesInv, NEW h \in Path, ~ (h[1] <= now),
           \A g \in Path : Mentioned(g)' => Mentioned(g) \/ g = h
    PROVE  \A f, g \in Path : Mentioned(f)' /\ Mentioned(g)' /\ f[1] = g[1] => f = g
  BY DEF NamesInv

(* Rotations take new names, because the name of a written file is taken,  *)
(* or because names of the past never come again.                          *)
LEMMA RotationTakesNewName ==
    ASSUME TInv, FilesInv, RecordsFit \/ UniqueNames, Up,
           active_write_file_size > 0 \/ \E n \in RecordSizes : Overfills(n),
           NEW f \in Path, NextPath(f, SameSecond)
    PROVE  NewName(f)
<1>1. CASE RecordsFit
  <2>1. active_write_file_size > 0
    <3>1. ASSUME NEW n \in RecordSizes, Overfills(n)
          PROVE  active_write_file_size > 0
      <4>1. n \in Nat /\ n <= MaxFileSize /\ MaxFileSize \in Nat
        BY <1>1, RecordSizesType, StrategyAssumption DEF RecordsFit
      <4>2. QED
        BY <3>1, <4>1, FileTypes DEF Overfills
    <3>2. QED
      BY <3>1
  <2>2. OnDisk
    BY <1>1 DEF FilesInv
  <2>3. f \notin files
    BY DEF NextPath
  <2>4. QED
    BY <2>1, <2>2, <2>3, FileTypes DEF OnDisk, NewName
<1>2. CASE UniqueNames
  <2>1. f[1] = now + 1
    BY <1>2 DEF NextPath, UniqueNames
  <2>2. ~ (f[1] <= now)
    BY <2>1, FileTypes
  <2>3. ~ Mentioned(f)
    BY <1>2, <2>2 DEF FilesInv, NamesInv
  <2>4. QED
    BY <2>3, FileTypes DEF Mentioned, Used, NewName, LastLineKnown, EofOf
<1>3. QED
  BY <1>1, <1>2
-----------------------------------------------------------------------------
(* Steps that concern no file but in what they say. *)

LEMMA NothingMoves ==
    ASSUME TInv, FilesInv,
           UNCHANGED <<tokenVars, backup_file, files, stored_files, active_read_file,
                       writeVars, now>>,
           mode' = mode \/ (mode # "down" /\ mode' # "down")
    PROVE  FilesInv'
<1>1. Exclusive'
  BY DEF FilesInv, Exclusive, LastLineKnown, EofOf, tokenVars, writeVars
<1>2. RecordsFit => OnDisk'
  BY DEF FilesInv, OnDisk, LastLineKnown, EofOf, tokenVars, writeVars
<1>3. UniqueNames => NamesInv'
  BY DEF FilesInv, NamesInv, Mentioned, Used, isTokenAvailable, Tracked, tokenVars, writeVars
<1>4. QED
  BY <1>1, <1>2, <1>3 DEF FilesInv

(* The end of the process: what is left is on disk. *)
LEMMA MemoryLost ==
    ASSUME TInv, FilesInv, LoseMemory, UNCHANGED <<diskVars, now>>
    PROVE  FilesInv'
<1>1. /\ token_store' = [t \in Token |-> NoInfo]
      /\ file_tokens' = [f \in Path |-> <<>>]
      /\ staged_tokens' = [f \in Path |-> NoPos]
      /\ stored_files' = [f \in Path |-> 0]
      /\ active_write_file' = NoFile /\ active_read_file' = NoFile
      /\ active_write_file_size' = 0
      /\ files' = files /\ backup_file' = backup_file /\ now' = now
  BY DEF LoseMemory, ForgetTokens, None, diskVars
<1>2. \A f \in Path : ~ Used(f)' /\ ~ LastLineKnown(f)' /\ f # NoFile
  BY <1>1, TokenStoreAssumption
     DEF Used, LastLineKnown, EofOf, isTokenAvailable, Tracked, NoInfo
<1>3. Exclusive'
  BY <1>1, <1>2, TokenStoreAssumption DEF Exclusive, EofOf, NoInfo
<1>4. OnDisk'
  BY <1>1, <1>2 DEF OnDisk
<1>5. UniqueNames => NamesInv'
  BY <1>1, <1>2 DEF FilesInv, NamesInv, Mentioned
<1>6. QED
  BY <1>3, <1>4, <1>5 DEF FilesInv

(* write() begins, and may rotate. *)
LEMMA BeginWriteFiles ==
    ASSUME TInv, FilesInv, RecordsFit \/ UniqueNames,
           NEW w \in Writer, checkIfWriteFileShouldRotate(w)
    PROVE  FilesInv'
<1>1. Up /\ UNCHANGED <<tokenVars, diskVars, active_read_file>> /\ mode' = mode
  BY DEF checkIfWriteFileShouldRotate, readVars
<1>2. CASE UNCHANGED <<storedVars, writeVars, now>>
  <2>1. UNCHANGED <<tokenVars, backup_file, files, stored_files, active_read_file, writeVars, now>>
    BY <1>1, <1>2 DEF storedVars, diskVars, tokenVars, writeVars
  <2>2. mode' = mode \/ (mode # "down" /\ mode' # "down")
    BY <1>1
  <2>3. QED
    BY <2>1, <2>2, NothingMoves
<1>3. ASSUME NEW n \in RecordSizes, Overfills(n), NEW f \in Path, rotateWriteFile(f),
             stored_files' = Push(stored_files, active_write_file)
      PROVE  FilesInv'
  <2>1. NewName(f) /\ NextPath(f, SameSecond)
    BY <1>1, <1>3, RotationTakesNewName DEF rotateWriteFile
  <2>2. active_write_file' = f /\ active_write_file_size' = 0 /\ now' = f[1]
    BY <1>3 DEF rotateWriteFile
  <2>3. /\ active_write_file \in Path
        /\ \A g \in Path : stored_files'[g] = IF g = active_write_file THEN stored_files[g] + 1
                                              ELSE stored_files[g]
    BY <1>1, <1>3, FileTypes, ListValues
  <2>4. /\ \A g, t : EofOf(t, g)' <=> EofOf(t, g)
        /\ \A g : LastLineKnown(g)' <=> LastLineKnown(g)
    BY <1>1 DEF EofOf, LastLineKnown, tokenVars
  <2>5. active_write_file # NoFile
    BY <2>3, TokenStoreAssumption
  <2>6. Exclusive'
    <3>1. Exclusive
      BY DEF FilesInv
    <3>2. \A g \in Path : stored_files'[g] <= 1
      <4>1. \A g \in Path : stored_files[g] <= 1 /\ stored_files[g] \in Nat
        BY <3>1, FileTypes DEF Exclusive
      <4>2. stored_files[active_write_file] = 0
        BY <2>5, <3>1 DEF Exclusive
      <4>3. QED
        BY <2>3, <4>1, <4>2
    <3>3. \A g \in Path : LastLineKnown(g)' => stored_files'[g] = 0 /\ active_read_file' # g
      BY <1>1, <2>3, <2>4, <2>5, <3>1 DEF Exclusive
    <3>4. \A g \in Path, t, u \in Token : EofOf(t, g)' /\ EofOf(u, g)' => t = u
      BY <2>4, <3>1 DEF Exclusive
    <3>5. stored_files'[f] = 0 /\ active_read_file' # f /\ ~ LastLineKnown(f)'
      BY <1>1, <2>1, <2>3, <2>4 DEF NewName
    <3>6. QED
      BY <1>1, <2>2, <3>2, <3>3, <3>4, <3>5 DEF Exclusive, Up
  <2>7. ASSUME RecordsFit PROVE OnDisk'
    <3>1. active_write_file_size > 0
      <4>1. n \in Nat /\ n <= MaxFileSize /\ MaxFileSize \in Nat
        BY <2>7, RecordSizesType, StrategyAssumption DEF RecordsFit
      <4>2. QED
        BY <1>3, <4>1, FileTypes DEF Overfills
    <3>2. OnDisk
      BY <2>7 DEF FilesInv
    <3>3. \A g \in Path : stored_files'[g] > 0 => stored_files[g] > 0 \/ g = active_write_file
      BY <2>3
    <3>4. files' = files /\ active_read_file' = active_read_file
      BY <1>1 DEF diskVars
    <3>5. ~ (active_write_file_size' > 0)
      BY <2>2
    <3>6. QED
      BY <2>4, <3>1, <3>2, <3>3, <3>4, <3>5 DEF OnDisk
  <2>8. ASSUME UniqueNames PROVE NamesInv'
    <3>1. f[1] = now + 1 /\ f[1] \in Nat /\ now \in Nat
      BY <2>1, <2>8, FileTypes DEF NextPath, UniqueNames
    <3>2. NamesInv /\ ~ Mentioned(f)
      BY <2>8, <3>1 DEF FilesInv, NamesInv
    <3>3. \A g \in Path : Used(g)' => Mentioned(g)
      BY <1>1, <2>3, FileTypes DEF Used, Mentioned, isTokenAvailable, Tracked, tokenVars
    <3>4. \A g \in Path : Mentioned(g)' => Mentioned(g) \/ g = f
      BY <1>1, <2>2, <3>3 DEF Mentioned, diskVars
    <3>5. \A g \in Path : g[1] <= now => g[1] <= now'
      BY <2>2, <3>1, FileTypes
    <3>6. \A g \in Path : Mentioned(g)' => g[1] <= now'
      BY <2>2, <3>1, <3>2, <3>4, <3>5 DEF NamesInv
    <3>7. ~ Used(f)'
      BY <3>2, <3>3
    <3>8. \A g, h \in Path : Mentioned(g)' /\ Mentioned(h)' /\ g[1] = h[1] => g = h
      <4>1. ~ (f[1] <= now)
        BY <3>1
      <4>2. QED
        BY <3>2, <3>4, <4>1, LaterName
    <3>9. QED
      BY <2>2, <3>6, <3>7, <3>8 DEF NamesInv
  <2>9. QED
    BY <2>6, <2>7, <2>8 DEF FilesInv
<1>4. QED
  BY <1>2, <1>3 DEF checkIfWriteFileShouldRotate

(* The oldest file goes, from the list and from the disk, and no longer is *)
(* read.                                                                   *)
LEMMA DeleteOldestFiles ==
    ASSUME TInv, FilesInv, NEW w \in Writer, deleteOldestFile(w)
    PROVE  FilesInv'
<1>1. UNCHANGED <<tokenVars, writeVars, mode, now>>
  BY DEF deleteOldestFile, processVars
<1>2. PICK f \in Path :
        /\ Oldest(f, stored_files)
        /\ stored_files' = Erase(stored_files, f)
        /\ IF f = active_read_file
             THEN active_read_file' = NoFile /\ read_pos' = 0
             ELSE UNCHANGED readVars
        /\ deleteFile(f)
  BY DEF deleteOldestFile
<1>3. files' = files \ {f} /\ backup_file' = backup_file
  BY <1>2 DEF deleteFile, diskVars
<1>4. /\ stored_files[f] > 0
      /\ \A g \in Path : stored_files'[g] = IF g = f THEN stored_files[g] - 1 ELSE stored_files[g]
  BY <1>2, FileTypes, ListValues DEF Oldest, Held
<1>5. /\ active_read_file' \in {active_read_file, NoFile}
      /\ active_read_file' # f
  BY <1>2, TokenStoreAssumption DEF readVars
<1>6. /\ \A g, t : EofOf(t, g)' <=> EofOf(t, g)
      /\ \A g : LastLineKnown(g)' <=> LastLineKnown(g)
  BY <1>1 DEF EofOf, LastLineKnown, tokenVars
<1>7. Exclusive'
  <2>1. Exclusive
    BY DEF FilesInv
  <2>2. \A g \in Path : stored_files[g] \in Nat
    BY FileTypes
  <2>3. \A g \in Path : stored_files[g] <= 1 => stored_files'[g] <= 1
    BY <1>4, <2>2
  <2>4. \A g \in Path : stored_files[g] = 0 => stored_files'[g] = 0
    BY <1>4, <2>2
  <2>5. \A g \in Path : active_read_file # g => active_read_file' # g
    BY <1>5, TokenStoreAssumption
  <2>6. QED
    BY <1>1, <1>5, <1>6, <2>1, <2>3, <2>4, <2>5, FileTypes DEF Exclusive, writeVars
<1>8. f # active_write_file /\ stored_files[f] = 1 /\ ~ LastLineKnown(f)
  BY <1>4, FileTypes, TokenStoreAssumption DEF FilesInv, Exclusive
<1>9. RecordsFit => OnDisk'
  BY <1>1, <1>3, <1>4, <1>5, <1>6, <1>8, FileTypes, TokenStoreAssumption
     DEF FilesInv, OnDisk, writeVars
<1>10. \A g \in Path : (Used(g)' => Used(g)) /\ (Mentioned(g)' => Mentioned(g))
  BY <1>1, <1>3, <1>4, <1>5, FileTypes, TokenStoreAssumption
     DEF Used, Mentioned, isTokenAvailable, Tracked, tokenVars, writeVars
<1>11. UniqueNames => NamesInv'
  BY <1>1, <1>10, FileTypes DEF FilesInv, NamesInv, writeVars
<1>12. QED
  BY <1>7, <1>9, <1>11 DEF FilesInv

(* The file written to exists from then on. *)
LEMMA AppendFiles ==
    ASSUME TInv, FilesInv, NEW w \in Writer, append(w)
    PROVE  FilesInv'
<1>1. /\ files' = files \cup {active_write_file}
      /\ UNCHANGED <<tokenVars, backup_file, stored_files, active_write_file, active_read_file,
                     mode, now>>
  BY DEF append, storedVars, readVars, processVars
<1>2. Exclusive'
  BY <1>1 DEF FilesInv, Exclusive, LastLineKnown, EofOf, tokenVars
<1>3. RecordsFit => OnDisk'
  BY <1>1 DEF FilesInv, OnDisk, LastLineKnown, EofOf, tokenVars
<1>4. \A g \in Path : (Used(g)' <=> Used(g)) /\ (Mentioned(g)' => Mentioned(g))
  BY <1>1 DEF Used, Mentioned, isTokenAvailable, Tracked, tokenVars
<1>5. UniqueNames => NamesInv'
  BY <1>1, <1>4, FileTypes DEF FilesInv, NamesInv
<1>6. QED
  BY <1>2, <1>3, <1>5 DEF FilesInv
-----------------------------------------------------------------------------
(* read() reads the active file, a stored file it takes off the list, or   *)
(* the write file, which it rotates and leaves on the list.                *)
LEMMA ReadCases ==
    ASSUME TInv, Read
    PROVE  /\ Up /\ mode' = mode /\ UNCHANGED diskVars
           /\ \E f \in Path, p \in Pos, stored \in [Path -> Nat] :
                /\ ReadLine(f, p, stored)
                /\ \/ /\ f = active_read_file
                      /\ p = read_pos
                      /\ stored = stored_files
                      /\ UNCHANGED <<active_write_file, active_write_file_size, now>>
                   \/ /\ active_read_file = NoFile
                      /\ p = StartOf(f)
                      /\ Newest(f, stored_files)
                      /\ stored = Erase(stored_files, f)
                      /\ UNCHANGED <<active_write_file, active_write_file_size, now>>
                   \/ /\ active_read_file = NoFile
                      /\ p = StartOf(f)
                      /\ f = active_write_file
                      /\ stored = Push(stored_files, f)
                      /\ active_write_file_size > 0
                      /\ \E g \in Path : rotateWriteFile(g)
<1>1. /\ Up /\ mode' = mode /\ UNCHANGED diskVars
  BY DEF Read, readActiveFile, readStoredFile, readWriteFile, MayRead, processVars
<1>2. /\ stored_files \in [Path -> Nat] /\ read_pos \in Pos /\ \A f : StartOf(f) \in Pos
      /\ active_read_file \in Path \cup {NoFile} /\ active_write_file \in Path
  BY <1>1 DEF TInv, TypeOK, ProcessInv, StartOf, Pos
<1>3. CASE readActiveFile
  <2>1. /\ active_read_file \in Path
        /\ ReadLine(active_read_file, read_pos, stored_files)
        /\ UNCHANGED <<active_write_file, active_write_file_size, now>>
    BY <1>2, <1>3 DEF readActiveFile, writeVars, processVars
  <2>2. QED
    BY <1>1, <1>2, <2>1
<1>4. CASE readStoredFile
  <2>1. PICK f \in Path : Newest(f, stored_files)
                          /\ ReadLine(f, StartOf(f), Erase(stored_files, f))
    BY <1>4 DEF readStoredFile
  <2>2. /\ active_read_file = NoFile
        /\ UNCHANGED <<active_write_file, active_write_file_size, now>>
    BY <1>4 DEF readStoredFile, writeVars, processVars
  <2>3. Erase(stored_files, f) \in [Path -> Nat] /\ StartOf(f) \in Pos
    BY <1>2, PushType
  <2>4. QED
    BY <1>1, <2>1, <2>2, <2>3
<1>5. CASE readWriteFile
  <2>1. /\ ReadLine(active_write_file, StartOf(active_write_file),
                    Push(stored_files, active_write_file))
        /\ active_read_file = NoFile
        /\ active_write_file_size > 0
        /\ \E g \in Path : rotateWriteFile(g)
    BY <1>5 DEF readWriteFile
  <2>2. Push(stored_files, active_write_file) \in [Path -> Nat]
    BY <1>2, PushType
  <2>3. QED
    BY <1>1, <1>2, <2>1, <2>2
<1>6. QED
  BY <1>3, <1>4, <1>5 DEF Read

(* A token is new to the file it is created for, and to the store.         *)
LEMMA NewTokenInfo ==
    ASSUME TInv, NEW f \in Path, NEW t \in FreshToken, NEW pos, NEW eof \in BOOLEAN,
           createToken(t, f, pos, eof)
    PROVE  /\ t \in Token
           /\ \A g \in Path : token_store[t].file # g
           /\ \A u \in Token, g \in Path :
                EofOf(u, g)' <=> EofOf(u, g) \/ (u = t /\ g = f /\ eof)
           /\ \A g \in Path : LastLineKnown(g)' <=> LastLineKnown(g) \/ (g = f /\ eof)
           /\ \A u \in Token, g \in Path :
                token_store'[u].file = g => token_store[u].file = g \/ g = f
           /\ \A g \in Path : Tracked(g)' => Tracked(g) \/ g = f
<1>1. t \in Token /\ token_store[t] = NoInfo
  BY DEF FreshToken, Unused, Known
<1>2. /\ \A u \in Token : token_store'[u] = IF u = t THEN [file |-> f, pos |-> pos, eof |-> eof]
                                            ELSE token_store[u]
      /\ \A g \in Path : g # f => file_tokens'[g] = file_tokens[g]
  BY <1>1, FileTypes DEF createToken
<1>3. \A g \in Path : token_store[t].file # g
  BY <1>1, TokenStoreAssumption DEF NoInfo
<1>4. \A u \in Token, g \in Path :
        EofOf(u, g)' <=> EofOf(u, g) \/ (u = t /\ g = f /\ eof)
  BY <1>1, <1>2, <1>3 DEF EofOf
<1>5. QED
  BY <1>1, <1>2, <1>3, <1>4 DEF LastLineKnown, Tracked

(* A read changes who leads to the file it reads, and to no other.         *)
LEMMA ReadFiles ==
    ASSUME TInv, FilesInv, RecordsFit \/ UniqueNames, Read
    PROVE  FilesInv'
<1>1. Up /\ mode' = mode /\ UNCHANGED diskVars
  BY ReadCases
<1>2. PICK f \in Path, p \in Pos, stored \in [Path -> Nat] :
        /\ ReadLine(f, p, stored)
        /\ \/ /\ f = active_read_file
              /\ p = read_pos
              /\ stored = stored_files
              /\ UNCHANGED <<active_write_file, active_write_file_size, now>>
           \/ /\ active_read_file = NoFile
              /\ p = StartOf(f)
              /\ Newest(f, stored_files)
              /\ stored = Erase(stored_files, f)
              /\ UNCHANGED <<active_write_file, active_write_file_size, now>>
           \/ /\ active_read_file = NoFile
              /\ p = StartOf(f)
              /\ f = active_write_file
              /\ stored = Push(stored_files, f)
              /\ active_write_file_size > 0
              /\ \E g \in Path : rotateWriteFile(g)
  BY ReadCases
<1>3. PICK t \in FreshToken, pos \in Pos, next \in Pos, eof \in BOOLEAN,
           data \in Record \cup {NoRecord} :
        /\ createToken(t, f, pos, eof)
        /\ batch' = Append(batch, [token |-> t, record |-> data])
        /\ staged_tokens' = [staged_tokens EXCEPT ![f] = NoPos]
        /\ stored_files' = IF eof THEN Erase(stored, f) ELSE stored
        /\ active_read_file' = IF eof THEN NoFile ELSE f
        /\ read_pos' = IF eof THEN 0 ELSE next
  <2>1. TypeOK /\ ReadLine(f, p, stored)
    BY <1>2 DEF TInv
  <2>2. QED
    BY <2>1, ReadLineFacts
<1>4. /\ t \in Token
      /\ \A g \in Path : token_store[t].file # g
      /\ \A u \in Token, g \in Path : EofOf(u, g)' <=> EofOf(u, g) \/ (u = t /\ g = f /\ eof)
      /\ \A g \in Path : LastLineKnown(g)' <=> LastLineKnown(g) \/ (g = f /\ eof)
      /\ \A u \in Token, g \in Path : token_store'[u].file = g => token_store[u].file = g \/ g = f
      /\ \A g \in Path : Tracked(g)' => Tracked(g) \/ g = f
  BY <1>3, NewTokenInfo
<1>5. \A g \in Path : g # NoFile
  BY TokenStoreAssumption
<1>6. Exclusive
  BY DEF FilesInv
<1>7. /\ \A g \in Path : stored_files[g] \in Nat /\ stored_files[g] <= 1
      /\ \A g \in Path : stored[g] \in Nat
  BY <1>6, FileTypes DEF Exclusive
<1>8. /\ \A g \in Path : g # f => stored_files'[g] = stored_files[g]
      /\ stored_files'[f] \in {0, 1}
      /\ eof => stored_files'[f] = 0
  <2>1. stored[f] <= 1 /\ \A g \in Path : g # f => stored[g] = stored_files[g]
    <3> stored_files \in [Path -> Nat]
      BY FileTypes
    <3> DEFINE less == Erase(stored_files, f)
               more == Push(stored_files, f)
    <3>4. /\ \A g \in Path : less[g] = IF g = f /\ stored_files[g] > 0 THEN stored_files[g] - 1
                                        ELSE stored_files[g]
          /\ \A g \in Path : more[g] = IF g = f THEN stored_files[g] + 1 ELSE stored_files[g]
      BY ListValues
    <3> HIDE DEF less, more
    <3>1. stored_files[f] <= 1 /\ less[f] <= 1
      BY <1>7, <3>4
    <3>2. \A g \in Path : g # f => less[g] = stored_files[g] /\ more[g] = stored_files[g]
      BY <3>4
    <3>3. f = active_write_file => more[f] = 1
      BY <1>5, <1>6, <1>7, <3>4 DEF Exclusive
    <3>5. QED
      BY <1>2, <1>7, <3>1, <3>2, <3>3 DEF less, more
  <2>2. \A g \in Path : Erase(stored, f)[g] = IF g = f /\ stored[g] > 0 THEN stored[g] - 1
                                              ELSE stored[g]
    BY ListValues
  <2>3. QED
    BY <1>3, <1>7, <2>1, <2>2
<1>9. /\ \A g \in Path : active_read_file = g => g = f
      /\ \A g \in Path : active_read_file' = g => g = f /\ ~ eof
  BY <1>2, <1>3, <1>5
<1>10. /\ ~ LastLineKnown(f)
       /\ Used(f) \/ f = active_write_file
  BY <1>1, <1>2, <1>5, <1>6, <1>7 DEF Exclusive, Newest, Held, Used
<1>11. \/ UNCHANGED <<active_write_file, active_write_file_size, now>> /\ f # active_write_file
       \/ /\ active_write_file' \in Path /\ active_write_file_size' = 0
          /\ active_write_file_size > 0 /\ f = active_write_file
          /\ NewName(active_write_file') /\ NextPath(active_write_file', SameSecond)
          /\ now' = active_write_file'[1]
  <2>1. CASE UNCHANGED <<active_write_file, active_write_file_size, now>>
             /\ (f = active_read_file \/ Newest(f, stored_files))
    BY <1>5, <1>6, <2>1 DEF Exclusive, Newest, Held
  <2>2. CASE /\ f = active_write_file
             /\ active_write_file_size > 0
             /\ \E g \in Path : rotateWriteFile(g)
    BY <1>1, <2>2, RotationTakesNewName DEF rotateWriteFile
  <2>3. QED
    BY <1>2, <2>1, <2>2
<1>12. Exclusive'
  <2>1. \A g \in Path : stored_files'[g] <= 1
    BY <1>7, <1>8
  <2>2. \A g \in Path : LastLineKnown(g)' => stored_files'[g] = 0 /\ active_read_file' # g
    BY <1>4, <1>6, <1>8, <1>9, <1>10 DEF Exclusive
  <2>3. ASSUME NEW g \in Path, NEW u \in Token, NEW v \in Token, EofOf(u, g)', EofOf(v, g)'
        PROVE  u = v
    <3>1. g = f => ~ EofOf(u, g) /\ ~ EofOf(v, g)
      BY <1>10 DEF LastLineKnown
    <3>2. QED
      BY <1>4, <1>6, <2>3, <3>1 DEF Exclusive
  <2>4. active_write_file' # NoFile =>
          /\ stored_files'[active_write_file'] = 0
          /\ active_read_file' # active_write_file'
          /\ ~ LastLineKnown(active_write_file)'
    <3>1. CASE UNCHANGED <<active_write_file, active_write_file_size, now>> /\ f # active_write_file
      BY <1>1, <1>4, <1>6, <1>8, <1>9, <3>1, FileTypes DEF Exclusive
    <3>2. CASE /\ active_write_file' \in Path /\ f = active_write_file
               /\ NewName(active_write_file')
      BY <1>4, <1>8, <1>9, <3>2 DEF NewName
    <3>3. QED
      BY <1>11, <3>1, <3>2
  <2>5. mode' # "down"
    BY <1>1 DEF Up
  <2>6. QED
    BY <2>1, <2>2, <2>3, <2>4, <2>5 DEF Exclusive
<1>13. ASSUME RecordsFit PROVE OnDisk'
  <2>1. OnDisk /\ files' = files
    BY <1>1, <1>13 DEF FilesInv, diskVars
  <2>2. f \in files
    BY <1>2, <2>1 DEF OnDisk, Newest, Held
  <2>3. \A g \in Path : stored_files'[g] > 0 => stored_files[g] > 0 \/ g = f
    BY <1>8
  <2>4. active_write_file_size' > 0 => active_write_file' = active_write_file
                                       /\ active_write_file_size' = active_write_file_size
    BY <1>11
  <2>5. QED
    BY <1>4, <1>9, <2>1, <2>2, <2>3, <2>4 DEF OnDisk
<1>14. ASSUME UniqueNames PROVE NamesInv'
  <2>1. NamesInv /\ files' = files /\ backup_file' = backup_file
    BY <1>1, <1>14 DEF FilesInv, diskVars
  <2>2. Mentioned(f)
    BY <1>10 DEF Mentioned
  <2>3. \A g \in Path : Used(g)' => Used(g) \/ g = f
    <3>1. \A g \in Path : stored_files'[g] > 0 => stored_files[g] > 0 \/ g = f
      BY <1>8
    <3>2. \A g \in Path : isTokenAvailable(g)' => isTokenAvailable(g) \/ g = f
      BY <1>3, FileTypes DEF isTokenAvailable
    <3>3. QED
      BY <1>4, <1>9, <3>1, <3>2 DEF Used
  <2>4. CASE UNCHANGED <<active_write_file, active_write_file_size, now>> /\ f # active_write_file
    <3>1. \A g \in Path : Mentioned(g)' => Mentioned(g)
      BY <2>1, <2>2, <2>3, <2>4 DEF Mentioned
    <3>2. active_write_file' \in Path \cup {NoFile}
      BY <2>4, FileTypes
    <3>3. QED
      BY <2>1, <2>3, <2>4, <3>1, <3>2 DEF NamesInv
  <2>5. CASE /\ active_write_file' \in Path /\ f = active_write_file
             /\ NextPath(active_write_file', SameSecond)
             /\ now' = active_write_file'[1]
    <3>0. PICK h \in Path : h = active_write_file'
      BY <2>5
    <3>1. h[1] = now + 1 /\ now' = now + 1 /\ now \in Nat
      BY <1>14, <2>5, <3>0, FileTypes DEF NextPath, UniqueNames
    <3>2. \A g \in Path : g[1] <= now => g[1] <= now'
      BY <3>1, FileTypes
    <3>3. ~ (h[1] <= now)
      BY <3>1
    <3>4. ~ Mentioned(h)
      BY <2>1, <2>5, <3>3 DEF NamesInv
    <3>5. h # f /\ ~ Used(h)'
      <4>1. h # f
        BY <2>2, <3>4
      <4>2. ~ Used(h)
        BY <3>4 DEF Mentioned
      <4>3. QED
        BY <2>3, <2>5, <4>1, <4>2
    <3>6. \A g \in Path : Mentioned(g)' => Mentioned(g) \/ g = h
      BY <2>1, <2>2, <2>3, <3>0 DEF Mentioned
    <3>7. h[1] <= now'
      BY <3>1
    <3>8. \A g, k \in Path : Mentioned(g)' /\ Mentioned(k)' /\ g[1] = k[1] => g = k
      BY <2>1, <3>3, <3>6, LaterName
    <3>9. h[1] = now'
      BY <3>1
    <3>10. QED
      BY <2>1, <3>0, <3>2, <3>5, <3>6, <3>7, <3>8, <3>9 DEF NamesInv
  <2>6. QED
    BY <1>11, <2>4, <2>5
<1>15. QED
  BY <1>12, <1>13, <1>14 DEF FilesInv

(* A token that is forgotten: what it stood for is known no more.          *)
LEMMA ForgottenToken ==
    ASSUME TInv, FilesInv, NEW t \in Token, token_store' = [token_store EXCEPT ![t] = NoInfo]
    PROVE  /\ \A u \in Token, g \in Path : EofOf(u, g)' <=> EofOf(u, g) /\ u # t
           /\ \A g \in Path : LastLineKnown(g)' => LastLineKnown(g) /\ ~ EofOf(t, g)
           /\ \A u \in Token, g \in Path : token_store'[u].file = g => token_store[u].file = g
<1>1. \A u \in Token : token_store'[u] = IF u = t THEN NoInfo ELSE token_store[u]
  BY FileTypes
<1>2. \A g \in Path : NoInfo.file # g
  BY TokenStoreAssumption DEF NoInfo
<1>3. \A u \in Token, g \in Path : EofOf(u, g)' <=> EofOf(u, g) /\ u # t
  BY <1>1, <1>2 DEF EofOf
<1>4. \A u \in Token, g \in Path : EofOf(u, g) /\ EofOf(t, g) => u = t
  BY DEF FilesInv, Exclusive
<1>5. QED
  BY <1>1, <1>2, <1>3, <1>4 DEF LastLineKnown

(* resolve(token, true): with its last line a file that nothing else leads *)
(* to goes.                                                                *)
LEMMA ForgetLineFiles ==
    ASSUME TInv, FilesInv, NEW t \in Token, ForgetLine(t),
           UNCHANGED <<stored_files, active_read_file, writeVars, mode, now>>
    PROVE  FilesInv'
<1>1. CASE UNCHANGED <<tokenVars, diskVars, stored_files_size>>
  <2>1. UNCHANGED <<tokenVars, backup_file, files, stored_files, active_read_file,
                    writeVars, now>> /\ mode' = mode
    BY <1>1 DEF diskVars, tokenVars, writeVars
  <2>2. QED
    BY <2>1, NothingMoves
<1>2. CASE Resolvable(t)
  <2>0. PICK f \in Path : f = token_store[t].file
    BY <1>2 DEF Resolvable
  <2>1. /\ token_store' = [token_store EXCEPT ![t] = NoInfo]
        /\ UNCHANGED <<file_tokens, staged_tokens>>
    BY <1>2 DEF ForgetLine, Resolvable, resolve
  <2>2. /\ \A u \in Token, g \in Path : EofOf(u, g)' <=> EofOf(u, g) /\ u # t
        /\ \A g \in Path : LastLineKnown(g)' => LastLineKnown(g) /\ ~ EofOf(t, g)
        /\ \A u \in Token, g \in Path : token_store'[u].file = g => token_store[u].file = g
    BY <2>1, ForgottenToken
  <2>3. /\ backup_file' = backup_file
        /\ files' = files \/ (files' = files \ {f} /\ EofOf(t, f))
    BY <1>2, <2>0 DEF ForgetLine, deleteFile, diskVars, EofOf
  <2>4. Exclusive /\ active_write_file' = active_write_file
        /\ active_write_file_size' = active_write_file_size
    BY DEF FilesInv, writeVars
  <2>5. Exclusive'
    <3>1. \A g \in Path, u, v \in Token : EofOf(u, g)' /\ EofOf(v, g)' => u = v
      BY <2>2, <2>4 DEF Exclusive
    <3>2. \A g \in Path : LastLineKnown(g)' => stored_files[g] = 0 /\ active_read_file # g
      BY <2>2, <2>4 DEF Exclusive
    <3>3. active_write_file # NoFile => ~ LastLineKnown(active_write_file)'
      BY <2>2, <2>4, FileTypes DEF Exclusive
    <3>4. QED
      BY <2>4, <3>1, <3>2, <3>3 DEF Exclusive
  <2>6. ASSUME RecordsFit PROVE OnDisk'
    <3>1. OnDisk
      BY <2>6 DEF FilesInv
    <3>2. EofOf(t, f) => LastLineKnown(f)
      BY DEF LastLineKnown
    <3>3. EofOf(t, f) => stored_files[f] = 0 /\ active_read_file # f /\ active_write_file # f
                         /\ ~ LastLineKnown(f)'
      BY <2>1, <2>2, <2>4, <3>2, TokenStoreAssumption DEF Exclusive
    <3>4. \A g \in Path : stored_files[g] \in Nat
      BY FileTypes
    <3>5. QED
      BY <2>2, <2>3, <2>4, <3>1, <3>3, <3>4 DEF OnDisk
  <2>7. \A g \in Path : (Used(g)' => Used(g)) /\ (Mentioned(g)' => Mentioned(g))
    BY <2>1, <2>2, <2>3, <2>4 DEF Used, Mentioned, isTokenAvailable, Tracked
  <2>8. UniqueNames => NamesInv'
    BY <2>4, <2>7, FileTypes DEF FilesInv, NamesInv
  <2>9. QED
    BY <2>5, <2>6, <2>8 DEF FilesInv
<1>3. QED
  BY <1>1, <1>2 DEF ForgetLine

(* resolve(token, false): a file all of which was handed out is stored     *)
(* again.                                                                  *)
LEMMA KeepLineFiles ==
    ASSUME TInv, FilesInv, NEW t \in Token, KeepLine(t),
           UNCHANGED <<files, backup_file, active_read_file, writeVars, mode, now>>
    PROVE  FilesInv'
<1>1. CASE UNCHANGED <<tokenVars, stored_files>>
  <2>1. UNCHANGED <<tokenVars, backup_file, files, stored_files, active_read_file,
                    writeVars, now>> /\ mode' = mode
    BY <1>1
  <2>2. QED
    BY <2>1, NothingMoves
<1>2. CASE Known(t)
  <2> DEFINE f == token_store[t].file
  <2>1. /\ token_store' = [token_store EXCEPT ![t] = NoInfo]
        /\ \A g \in Path : staged_tokens'[g] # staged_tokens[g] => g = f
        /\ \A g \in Path : Tracked(g)' => Tracked(g)
        /\ stored_files' = IF token_store[t].eof THEN Push(stored_files, f) ELSE stored_files
    BY <1>2, FileTypes DEF KeepLine, fail, Tracked
  <2>2. /\ \A u \in Token, g \in Path : EofOf(u, g)' <=> EofOf(u, g) /\ u # t
        /\ \A g \in Path : LastLineKnown(g)' => LastLineKnown(g) /\ ~ EofOf(t, g)
        /\ \A u \in Token, g \in Path : token_store'[u].file = g => token_store[u].file = g
    BY <2>1, ForgottenToken
  <2>3. Exclusive /\ active_write_file' = active_write_file
        /\ active_write_file_size' = active_write_file_size
    BY DEF FilesInv, writeVars
  <2>4. \A g \in Path : EofOf(t, g) => /\ LastLineKnown(g)
                                       /\ stored_files[g] = 0 /\ active_read_file # g
                                       /\ active_write_file # g
    BY <2>3, TokenStoreAssumption DEF Exclusive, LastLineKnown
  <2>5. \A g \in Path : stored_files'[g] = IF EofOf(t, g) THEN 1 ELSE stored_files[g]
    <3>1. \A g \in Path : Push(stored_files, f)[g] = IF g = f THEN stored_files[g] + 1
                                                     ELSE stored_files[g]
      <4>1. stored_files \in [Path -> Nat]
        BY FileTypes
      <4>2. QED
        BY <4>1, ListValues
    <3>2. \A g \in Path : EofOf(t, g) <=> g = f /\ token_store[t].eof
      BY DEF EofOf
    <3>3. QED
      BY <2>1, <2>4, <3>1, <3>2
  <2>6. Exclusive'
    <3>1. \A g \in Path : stored_files'[g] <= 1
      BY <2>3, <2>5 DEF Exclusive
    <3>2. \A g \in Path : LastLineKnown(g)' => stored_files'[g] = 0 /\ active_read_file # g
      BY <2>2, <2>3, <2>5 DEF Exclusive
    <3>3. \A g \in Path, u, v \in Token : EofOf(u, g)' /\ EofOf(v, g)' => u = v
      BY <2>2, <2>3 DEF Exclusive
    <3>4. active_write_file # NoFile => /\ stored_files'[active_write_file] = 0
                                        /\ ~ LastLineKnown(active_write_file)'
      BY <2>2, <2>3, <2>4, <2>5, FileTypes DEF Exclusive
    <3>5. QED
      BY <2>3, <3>1, <3>2, <3>3, <3>4 DEF Exclusive
  <2>7. ASSUME RecordsFit PROVE OnDisk'
    <3>1. OnDisk
      BY <2>7 DEF FilesInv
    <3>2. \A g \in Path : stored_files'[g] > 0 => stored_files[g] > 0 \/ LastLineKnown(g)
      BY <2>4, <2>5
    <3>3. QED
      BY <2>2, <2>3, <3>1, <3>2 DEF OnDisk
  <2>8. \A g \in Path : (Used(g)' => Used(g)) /\ (Mentioned(g)' => Mentioned(g))
    <3>1. \A g \in Path : stored_files'[g] > 0 => stored_files[g] > 0 \/ token_store[t].file = g
      BY <2>5 DEF EofOf
    <3>2. \A g \in Path : isTokenAvailable(g)' => isTokenAvailable(g) \/ token_store[t].file = g
      BY <2>1 DEF isTokenAvailable
    <3>3. QED
      BY <2>1, <2>2, <2>3, <3>1, <3>2 DEF Used, Mentioned
  <2>9. UniqueNames => NamesInv'
    BY <2>3, <2>8, FileTypes DEF FilesInv, NamesInv
  <2>10. QED
    BY <2>6, <2>7, <2>9 DEF FilesInv
<1>3. QED
  BY <1>1, <1>2 DEF KeepLine

(* A process that starts finds what is on disk, and writes to a file that  *)
(* is not.                                                                 *)
LEMMA StartFiles ==
    ASSUME TInv, FilesInv, Start
    PROVE  FilesInv'
<1>1. /\ mode = "down" /\ mode' = "up"
      /\ files' = files /\ backup_file' = [f \in Path |-> NoPos]
      /\ staged_tokens' = [f \in Path |-> backup_file[f]]
      /\ token_store' = [t \in Token |-> NoInfo]
      /\ file_tokens' = [f \in Path |-> <<>>]
      /\ active_read_file' = active_read_file
  BY DEF Start, restore, readVars
<1>2. PICK w \in Path : NextPath(w, FastRestart) /\ now' = w[1] /\ active_write_file' = w
                        /\ active_write_file_size' = 0
  BY DEF Start
<1>3. /\ \A f \in Path : stored_files'[f] \in {0, 1}
      /\ \A f \in Path : stored_files'[f] > 0 => f \in files
  BY DEF Start
<1>4. active_read_file = NoFile /\ \A f \in Path : f # NoFile
  BY <1>1, TokenStoreAssumption DEF FilesInv, Exclusive
<1>5. \A f \in Path : /\ ~ LastLineKnown(f)'
                      /\ ~ Tracked(f)'
                      /\ \A t \in Token : ~ EofOf(t, f)' /\ token_store'[t].file # f
  BY <1>1, <1>4 DEF LastLineKnown, EofOf, NoInfo, Tracked
<1>6. w \notin files
  BY <1>2 DEF NextPath
<1>7. Exclusive'
  BY <1>1, <1>2, <1>3, <1>4, <1>5, <1>6 DEF Exclusive
<1>8. OnDisk'
  BY <1>1, <1>2, <1>3, <1>4, <1>5 DEF OnDisk
<1>9. ASSUME UniqueNames PROVE NamesInv'
  <2>1. NamesInv
    BY <1>9 DEF FilesInv
  <2>2. w[1] = now + 1 /\ now' = now + 1 /\ now \in Nat
    BY <1>2, <1>9, FileTypes DEF NextPath, UniqueNames
  <2>3. ~ (w[1] <= now) /\ w[1] <= now' /\ \A f \in Path : f[1] <= now => f[1] <= now'
    BY <2>2, FileTypes
  <2>4. ~ Mentioned(w)
    BY <2>1, <2>3 DEF NamesInv
  <2>5. \A f \in Path : Used(f)' => f \in files \/ backup_file[f] # NoPos
    BY <1>1, <1>3, <1>4, <1>5 DEF Used, isTokenAvailable
  <2>6. \A f \in Path : Used(f)' => Mentioned(f)
    BY <2>5 DEF Mentioned
  <2>7. \A f \in Path : Mentioned(f)' => Mentioned(f) \/ f = w
    BY <1>1, <1>2, <2>6 DEF Mentioned
  <2>8. \A f \in Path : Mentioned(f)' => f[1] <= now'
    BY <2>1, <2>3, <2>7 DEF NamesInv
  <2>9. ~ Used(w)'
    BY <2>4, <2>6
  <2>10. \A f, g \in Path : Mentioned(f)' /\ Mentioned(g)' /\ f[1] = g[1] => f = g
    BY <2>1, <2>3, <2>7, LaterName
  <2>11. QED
    BY <1>2, <2>8, <2>9, <2>10 DEF NamesInv
<1>10. QED
  BY <1>7, <1>8, <1>9 DEF FilesInv

(* The entries a backup inserts lead to no file.                           *)
LEMMA ShutdownFiles ==
    ASSUME TInv, FilesInv, Shutdown
    PROVE  FilesInv'
<1>1. /\ mode = "up" /\ mode' = "stopping" /\ backup_file' = backup
      /\ UNCHANGED <<files, stored_files, active_read_file, active_write_file,
                     active_write_file_size, now, file_tokens, staged_tokens>>
  BY DEF Shutdown, storedVars, readVars, writeVars, backupInserts
<1>2. \A t \in Token : \/ token_store'[t] = token_store[t]
                       \/ token_store'[t] = Blank /\ token_store[t] = NoInfo
  BY DEF Shutdown, backupInserts, HeadLost, Known
<1>3. \A f \in Path : Blank.file # f /\ NoInfo.file # f
  BY TokenStoreAssumption DEF Blank, NoInfo
<1>4. \A t \in Token, f \in Path : token_store'[t].file = f => token_store'[t] = token_store[t]
  BY <1>2, <1>3
<1>5. \A t \in Token, f \in Path : token_store[t].file = f => token_store'[t] = token_store[t]
  BY <1>2, <1>3
<1>6. /\ \A t \in Token, f \in Path : EofOf(t, f)' <=> EofOf(t, f)
      /\ \A f \in Path : LastLineKnown(f)' <=> LastLineKnown(f)
  BY <1>4, <1>5 DEF EofOf, LastLineKnown
<1>7. Exclusive'
  BY <1>1, <1>6, FileTypes DEF FilesInv, Exclusive
<1>8. RecordsFit => OnDisk'
  BY <1>1, <1>6 DEF FilesInv, OnDisk
<1>9. \A f \in Path : Used(f)' => Used(f)
  BY <1>1, <1>4 DEF Used, isTokenAvailable, Tracked
<1>10. \A f \in Path : backup_file'[f] # NoPos => Used(f)
  BY <1>1 DEF backup, Used, isTokenAvailable
<1>11. \A f \in Path : Mentioned(f)' => Mentioned(f)
  BY <1>1, <1>9, <1>10 DEF Mentioned
<1>12. UniqueNames => NamesInv'
  BY <1>1, <1>9, <1>11, FileTypes DEF FilesInv, NamesInv
<1>13. QED
  BY <1>7, <1>8, <1>12 DEF FilesInv
-----------------------------------------------------------------------------
LEMMA FilesInvInit == Init => FilesInv
<1> SUFFICES ASSUME Init PROVE FilesInv
  OBVIOUS
<1>1. /\ token_store = [t \in Token |-> NoInfo]
      /\ file_tokens = [f \in Path |-> <<>>]
      /\ staged_tokens = [f \in Path |-> NoPos]
      /\ stored_files = [f \in Path |-> 0]
      /\ backup_file = [f \in Path |-> NoPos]
      /\ active_write_file = NoFile /\ active_read_file = NoFile
      /\ active_write_file_size = 0
      /\ files = {}
  BY DEF Init, EmptyTokenStore, None
<1>2. \A f \in Path : f # NoFile /\ NoInfo.file # f
  BY TokenStoreAssumption DEF NoInfo
<1>3. \A f \in Path : ~ Mentioned(f) /\ ~ Used(f) /\ ~ LastLineKnown(f)
                      /\ \A t \in Token : ~ EofOf(t, f)
  BY <1>1, <1>2 DEF Mentioned, Used, LastLineKnown, EofOf, isTokenAvailable, Tracked
<1>4. Exclusive
  BY <1>1, <1>3 DEF Exclusive
<1>5. OnDisk
  BY <1>1, <1>2, <1>3 DEF OnDisk
<1>6. NamesInv
  BY <1>1, <1>3 DEF NamesInv
<1>7. QED
  BY <1>4, <1>5, <1>6 DEF FilesInv

(* A write, whole, by one of the threads. *)
LEMMA WriteFiles ==
    ASSUME TInv, FilesInv, RecordsFit \/ UniqueNames, NEW w \in Writer, Write(w)
    PROVE  FilesInv'
<1>1. CASE checkIfStorageLimitHasBeenReached(w)
  <2>1. UNCHANGED <<tokenVars, backup_file, files, stored_files, active_read_file,
                    writeVars, now>> /\ mode' = mode
    BY <1>1 DEF checkIfStorageLimitHasBeenReached, diskVars, storedVars, readVars, processVars
  <2>2. QED
    BY <2>1, NothingMoves
<1>2. CASE deleteFromEmptyList(w)
  BY <1>2, MemoryLost DEF deleteFromEmptyList
<1>3. QED
  BY <1>1, <1>2, BeginWriteFiles, DeleteOldestFiles, AppendFiles DEF Write

LEMMA FilesInvNext ==
    ASSUME TInv, FilesInv, RecordsFit \/ UniqueNames, [Next]_vars
    PROVE  FilesInv'
<1>1. CASE Resolve
  <2>1. PICK i \in 1..BatchSize : resolveSent(i) \/ resolveFailed(i)
    BY <1>1 DEF Resolve
  <2>2. Settle(i)
    BY <2>1 DEF resolveSent, resolveFailed, ForgetLine, KeepLine
  <2>3. batch[i].token \in Token
    BY <2>2, SettleType DEF HeldToken
  <2>4. UNCHANGED <<active_read_file, writeVars, mode, now>>
    BY <2>1 DEF resolveSent, resolveFailed, ForgetLine, KeepLine, readVars, processVars
  <2>5. CASE resolveSent(i)
    <3>1. ForgetLine(batch[i].token) /\ stored_files' = stored_files
      BY <2>5 DEF resolveSent, ForgetLine
    <3>2. QED
      BY <2>3, <2>4, <3>1, ForgetLineFiles
  <2>6. CASE resolveFailed(i)
    <3>1. KeepLine(batch[i].token) /\ UNCHANGED <<files, backup_file>>
      BY <2>6 DEF resolveFailed, KeepLine, diskVars
    <3>2. QED
      BY <2>3, <2>4, <3>1, KeepLineFiles
  <2>7. QED
    BY <2>1, <2>5, <2>6
<1>2. CASE Complete \/ UNCHANGED vars
  <2>1. UNCHANGED <<tokenVars, backup_file, files, stored_files, active_read_file,
                    writeVars, now>> /\ mode' = mode
    BY <1>2 DEF Complete, vars, diskVars, storedVars, readVars, processVars
  <2>2. QED
    BY <2>1, NothingMoves
<1>3. CASE ProcessEnds
  BY <1>3, MemoryLost DEF ProcessEnds
<1>4. QED
  BY <1>1, <1>2, <1>3, WriteFiles, ReadFiles, StartFiles, ShutdownFiles DEF Next

(* What FilesInv says of the properties the runs check.                    *)
LEMMA StoredExist ==
    ASSUME TInv, FilesInv, RecordsFit
    PROVE  StoredFilesExist
<1>1. \A f \in Path : stored_files[f] \in Nat /\ stored_files[f] <= 1
  BY FileTypes DEF FilesInv, Exclusive
<1>2. \A f \in Path : stored_files[f] > 0 => f \in files
  BY DEF FilesInv, OnDisk
<1>3. \A f \in Path : stored_files[f] > 0 => stored_files[f] = 1
  BY <1>1
<1>4. QED
  BY <1>2, <1>3 DEF StoredFilesExist, Held

(* What the caller holds are tokens. *)
LEMMA HeldAreTokens ==
    ASSUME TInv
    PROVE  \A i \in DOMAIN batch : batch[i].token \in Token
<1>1. \A i \in DOMAIN batch : batch[i] \in HeldToken
  BY DEF TInv, TypeOK
<1>2. QED
  BY <1>1 DEF HeldToken

LEMMA NobodyHasWriteFile ==
    ASSUME TInv, FilesInv, UniqueNames
    PROVE  WriteFileProtected
<1> SUFFICES ASSUME active_write_file # NoFile
             PROVE  /\ stored_files[active_write_file] = 0
                    /\ active_read_file # active_write_file
                    /\ ~ LastLineOut(active_write_file)
                    /\ ~ isTokenAvailable(active_write_file)
  BY DEF WriteFileProtected
<1>1. ~ Used(active_write_file)
  BY DEF FilesInv, NamesInv
<1>2. ~ LastLineOut(active_write_file)
  BY <1>1, HeldAreTokens DEF Used, LastLineOut
<1>3. QED
  BY <1>1, <1>2 DEF Used, FilesInv, Exclusive

(* Every file of the list exists and is on it once: no deletion of the     *)
(* oldest file throws out of write(), and the sizes are counted once,      *)
(* although resolve() gives files back while others are read and deleted,  *)
(* and even where file names are used again.  The hypothesis: each record  *)
(* is smaller than a file may be.  A larger one makes write() rotate a     *)
(* write file that was never opened, and its name is put on the list       *)
(* (checkIfWriteFileShouldRotate, rotateWriteFile).                        *)
THEOREM ListedFilesExist == ASSUME RecordsFit PROVE Spec => []StoredFilesExist
<1>1. TInv /\ FilesInv => StoredFilesExist
  BY StoredExist
<1>2. TInv /\ FilesInv /\ [Next]_vars => FilesInv'
  BY FilesInvNext
<1>3. QED
  BY <1>1, <1>2, FilesInvInit, TInvHolds, PTL DEF Spec

(* Nothing but the writers has the write file, neither the list, nor the   *)
(* reader, nor a token, nor a staged position restored from a backup.  The *)
(* hypothesis: no second names two files.  Where it does, the name of a    *)
(* file that was uploaded and deleted can be that of the next write file,  *)
(* while a failed token still stages a position under it.                  *)
THEOREM WriteFileIsProtected == ASSUME UniqueNames PROVE Spec => []WriteFileProtected
<1>1. TInv /\ FilesInv => WriteFileProtected
  BY NobodyHasWriteFile
<1>2. TInv /\ FilesInv /\ [Next]_vars => FilesInv'
  BY FilesInvNext
<1>3. QED
  BY <1>1, <1>2, FilesInvInit, TInvHolds, PTL DEF Spec
-----------------------------------------------------------------------------
(* The strengthening of NoFileStranded: while it holds a token, failed     *)
(* batch or not, the caller can give it back; so the token of the last     *)
(* line of a file leads to that file until the file is deleted or stored   *)
(* again.                                                                  *)
KnownHeld == \A i \in DOMAIN batch : Known(batch[i].token)

LedTo(f) == \/ f = active_write_file
            \/ stored_files[f] > 0
            \/ f = active_read_file
            \/ LastLineOut(f)
ReachInv == /\ KnownHeld
            /\ Up => \A f \in files : LedTo(f)

(* Each token but the resolved one stays with the caller.                  *)
LEMMA SettleLeaves ==
    ASSUME TInv, TokenInv, NEW i, Settle(i)
    PROVE  /\ \A j \in DOMAIN batch' : \E k \in DOMAIN batch :
                  batch'[j] = batch[k] /\ batch[k].token # batch[i].token
           /\ \A k \in DOMAIN batch : batch[k].token # batch[i].token =>
                  \E j \in DOMAIN batch' : batch'[j] = batch[k]
<1>1. batch \in Seq(HeldToken) /\ i \in DOMAIN batch /\ batch' = RemoveAt(batch, i)
  BY DEF TInv, TypeOK, Settle
<1>2. /\ batch' \in Seq(HeldToken)
      /\ Len(batch') = Len(batch) - 1
      /\ \A j \in 1..(Len(batch) - 1) : batch'[j] = IF j < i THEN batch[j] ELSE batch[j + 1]
  BY <1>1, RemoveAtProperties
<1>3. /\ i \in 1..Len(batch) /\ Len(batch) \in Nat
      /\ DOMAIN batch = 1..Len(batch) /\ DOMAIN batch' = 1..(Len(batch) - 1)
  BY <1>1, <1>2
<1>4. ASSUME NEW j \in DOMAIN batch'
      PROVE  \E k \in DOMAIN batch : batch'[j] = batch[k] /\ batch[k].token # batch[i].token
  <2>1. PICK k \in DOMAIN batch \ {i} : batch'[j] = batch[k]
    BY SettleTokens
  <2>2. QED
    BY <1>1, <2>1 DEF TokenInv, HeldAreDistinct
<1>5. ASSUME NEW k \in DOMAIN batch, k # i
      PROVE  \E j \in DOMAIN batch' : batch'[j] = batch[k]
  <2>1. CASE k < i
    BY <1>2, <1>3, <2>1
  <2>2. CASE k > i
    <3>1. k - 1 \in DOMAIN batch' /\ ~ (k - 1 < i) /\ (k - 1) + 1 = k
      BY <1>3, <2>2
    <3>2. QED
      BY <1>2, <1>3, <3>1
  <2>3. QED
    BY <1>3, <1>5, <2>1, <2>2
<1>6. QED
  BY <1>4, <1>5

(* A step that leaves the tokens held as they were.                        *)
LEMMA SameTokens ==
    ASSUME UNCHANGED <<token_store, batch>>
    PROVE  /\ KnownHeld' <=> KnownHeld
           /\ \A f : LastLineOut(f)' <=> LastLineOut(f)
  BY DEF KnownHeld, Known, LastLineOut

LEMMA WriteReaches ==
    ASSUME TInv, ReachInv, NEW w \in Writer, Write(w)
    PROVE  ReachInv'
<1>1. CASE deleteFromEmptyList(w)
  BY <1>1 DEF deleteFromEmptyList, LoseMemory, ReachInv, KnownHeld, Up
<1>2. CASE UNCHANGED <<token_store, batch>> /\ mode' = mode
  <2>1. KnownHeld'
    BY <1>2, SameTokens DEF ReachInv
  <2>2. ASSUME Up, NEW f \in files', checkIfWriteFileShouldRotate(w)
        PROVE  LedTo(f)'
    <3>1. files' = files /\ active_read_file' = active_read_file /\ f \in Path
      BY <2>2, FileTypes DEF checkIfWriteFileShouldRotate, diskVars, readVars
    <3>2. \/ UNCHANGED <<stored_files, active_write_file>>
          \/ stored_files' = Push(stored_files, active_write_file)
      BY <2>2 DEF checkIfWriteFileShouldRotate, storedVars, writeVars
    <3>3. \A g \in Path : Push(stored_files, active_write_file)[g] =
                            IF g = active_write_file THEN stored_files[g] + 1 ELSE stored_files[g]
      <4>1. stored_files \in [Path -> Nat]
        BY FileTypes
      <4>2. QED
        BY <4>1, ListValues
    <3>4. \A g \in Path : stored_files[g] \in Nat
      BY FileTypes
    <3>5. LedTo(f) /\ (LastLineOut(f)' <=> LastLineOut(f))
      BY <1>2, <2>2, <3>1, SameTokens DEF ReachInv
    <3>6. QED
      BY <3>1, <3>2, <3>3, <3>4, <3>5 DEF LedTo
  <2>3. ASSUME Up, NEW f \in files', checkIfStorageLimitHasBeenReached(w)
        PROVE  LedTo(f)'
    <3>1. UNCHANGED <<files, stored_files, active_write_file, active_read_file>>
      BY <2>3 DEF checkIfStorageLimitHasBeenReached, diskVars, storedVars, writeVars, readVars
    <3>2. QED
      BY <1>2, <2>3, <3>1, SameTokens DEF ReachInv, LedTo
  <2>4. ASSUME Up, NEW f \in files', deleteOldestFile(w)
        PROVE  LedTo(f)'
    <3>1. PICK d \in Path : /\ stored_files' = Erase(stored_files, d)
                            /\ active_read_file' # active_read_file => d = active_read_file
                            /\ deleteFile(d)
      BY <2>4 DEF deleteOldestFile, readVars
    <3>2. files' = files \ {d} /\ active_write_file' = active_write_file
      BY <2>4, <3>1 DEF deleteOldestFile, deleteFile, diskVars, writeVars
    <3>3. f \in Path /\ f \in files /\ f # d
      BY <3>2, FileTypes
    <3>4. stored_files'[f] = stored_files[f]
      BY <3>1, <3>3, FileTypes, ListValues
    <3>5. LedTo(f) /\ (LastLineOut(f)' <=> LastLineOut(f))
      BY <1>2, <2>4, <3>3, SameTokens DEF ReachInv
    <3>6. QED
      BY <3>1, <3>2, <3>3, <3>4, <3>5 DEF LedTo
  <2>5. ASSUME Up, NEW f \in files', append(w)
        PROVE  LedTo(f)'
    <3>1. /\ files' = files \cup {active_write_file}
          /\ UNCHANGED <<stored_files, active_write_file, active_read_file>>
      BY <2>5 DEF append, storedVars, readVars
    <3>2. QED
      BY <1>2, <2>5, <3>1, SameTokens DEF ReachInv, LedTo
  <2>6. Up' => Up
    BY <1>2 DEF Up
  <2>7. QED
    BY <2>1, <2>2, <2>3, <2>4, <2>5, <2>6, <1>1 DEF Write, ReachInv
<1>3. QED
  BY <1>1, <1>2 DEF Write, checkIfWriteFileShouldRotate, checkIfStorageLimitHasBeenReached,
     deleteOldestFile, append, tokenVars, clientVars, processVars

(* A file wholly read is led to by the token of its last line.             *)
LEMMA ReadReaches ==
    ASSUME TInv, ReachInv, Read
    PROVE  ReachInv'
<1>1. Up /\ mode' = mode /\ UNCHANGED diskVars
  BY ReadCases
<1>2. PICK f \in Path, p \in Pos, stored \in [Path -> Nat] :
        /\ ReadLine(f, p, stored)
        /\ \/ /\ f = active_read_file
              /\ stored = stored_files
              /\ active_write_file' = active_write_file
           \/ /\ active_read_file = NoFile
              /\ stored = Erase(stored_files, f)
              /\ active_write_file' = active_write_file
           \/ /\ active_read_file = NoFile
              /\ f = active_write_file
              /\ stored = Push(stored_files, f)
  BY ReadCases
<1>3. PICK t \in FreshToken, pos \in Pos, next \in Pos, eof \in BOOLEAN,
           data \in Record \cup {NoRecord} :
        /\ createToken(t, f, pos, eof)
        /\ batch' = Append(batch, [token |-> t, record |-> data])
        /\ staged_tokens' = [staged_tokens EXCEPT ![f] = NoPos]
        /\ stored_files' = IF eof THEN Erase(stored, f) ELSE stored
        /\ active_read_file' = IF eof THEN NoFile ELSE f
        /\ read_pos' = IF eof THEN 0 ELSE next
  <2>1. TypeOK /\ ReadLine(f, p, stored)
    BY <1>2 DEF TInv
  <2>2. QED
    BY <2>1, ReadLineFacts
<1>4. t \in Token /\ \A i \in DOMAIN batch : batch[i].token # t
  BY DEF FreshToken, Unused
<1>5. /\ token_store'[t] = [file |-> f, pos |-> pos, eof |-> eof]
      /\ \A u \in Token : u # t => token_store'[u] = token_store[u]
  BY <1>3, <1>4, FileTypes DEF createToken
<1>6. /\ batch \in Seq(HeldToken) /\ Len(batch) \in Nat
      /\ DOMAIN batch = 1..Len(batch) /\ DOMAIN batch' = 1..(Len(batch) + 1)
      /\ \A i \in 1..Len(batch) : batch'[i] = batch[i]
      /\ batch'[Len(batch) + 1].token = t
  <2>1. batch \in Seq(HeldToken)
    BY DEF TInv, TypeOK
  <2>2. QED
    BY <1>3, <2>1
<1>7. /\ \A i \in DOMAIN batch : i \in DOMAIN batch' /\ batch'[i] = batch[i]
      /\ \A i \in DOMAIN batch' : i \in DOMAIN batch \/ batch'[i].token = t
      /\ \E i \in DOMAIN batch' : batch'[i].token = t
  BY <1>6
<1>8. \A i \in DOMAIN batch : token_store'[batch[i].token] = token_store[batch[i].token]
  BY <1>4, <1>5, HeldAreTokens
<1>9. KnownHeld'
  <2>1. token_store'[t] # NoInfo
    BY <1>5, TokenStoreAssumption DEF NoInfo
  <2>2. QED
    BY <1>7, <1>8, <2>1 DEF ReachInv, KnownHeld, Known
<1>10. /\ \A g : LastLineOut(g) => LastLineOut(g)'
       /\ eof => LastLineOut(f)'
  BY <1>5, <1>7, <1>8 DEF LastLineOut
<1>11. \A g \in Path : g # f => stored_files'[g] = stored_files[g]
  <2>1. stored_files \in [Path -> Nat]
    BY FileTypes
  <2>2. \A g \in Path : g # f => /\ Erase(stored_files, f)[g] = stored_files[g]
                                 /\ Push(stored_files, f)[g] = stored_files[g]
                                 /\ Erase(stored, f)[g] = stored[g]
    BY <2>1, ListValues
  <2>3. \A g \in Path : g # f => stored[g] = stored_files[g]
    BY <1>2, <2>2
  <2>4. QED
    BY <1>3, <2>2, <2>3
<1>12. LedTo(f)'
  BY <1>3, <1>10 DEF LedTo
<1>13. ASSUME NEW g \in files, g # f
       PROVE  LedTo(g)'
  <2>1. g \in Path /\ g # NoFile /\ LedTo(g)
    BY <1>1, FileTypes, TokenStoreAssumption DEF ReachInv
  <2>2. g = active_write_file => g = active_write_file'
    BY <1>2, <1>13
  <2>3. g # active_read_file
    BY <1>2, <1>13, <2>1
  <2>4. QED
    BY <1>10, <1>11, <1>13, <2>1, <2>2, <2>3 DEF LedTo
<1>14. files' = files
  BY <1>1 DEF diskVars
<1>15. QED
  BY <1>9, <1>12, <1>13, <1>14 DEF ReachInv

(* The token of a last line is resolved with its file deleted or stored.   *)
LEMMA ResolveReaches ==
    ASSUME TInv, TokenInv, ReachInv, NEW i, resolveSent(i) \/ resolveFailed(i)
    PROVE  ReachInv'
<1> DEFINE held(k) == batch[k].token
<1>1. Settle(i) /\ UNCHANGED <<active_write_file, active_read_file, mode>>
  BY DEF resolveSent, resolveFailed, ForgetLine, KeepLine, writeVars, readVars, processVars
<1>2. PICK t \in Token : t = batch[i].token
  BY <1>1, SettleType DEF HeldToken
<1>3. i \in DOMAIN batch /\ Known(t) /\ Up
  BY <1>1, <1>2, SettleType DEF Settle, ReachInv, KnownHeld, Up
<1>4. /\ \A j \in DOMAIN batch' : \E k \in DOMAIN batch : batch'[j] = batch[k] /\ held(k) # t
      /\ \A k \in DOMAIN batch : held(k) # t => \E j \in DOMAIN batch' : batch'[j] = batch[k]
  BY <1>1, <1>2, SettleLeaves
<1>5. token_store' = [token_store EXCEPT ![t] = NoInfo]
  <2>1. CASE resolveFailed(i)
    BY <1>2, <1>3, <2>1 DEF resolveFailed, KeepLine, fail
  <2>2. CASE resolveSent(i)
    <3>1. Resolvable(t)
      BY <1>2, <1>3, <2>2, LiveTokensResolve DEF resolveSent, ForgetLine, SentTokensResolve
    <3>2. QED
      BY <1>2, <2>2, <3>1 DEF resolveSent, ForgetLine, resolve
  <2>3. QED
    BY <2>1, <2>2
<1>6. \A u \in Token : token_store'[u] = IF u = t THEN NoInfo ELSE token_store[u]
  BY <1>5, FileTypes
<1>7. \A k \in DOMAIN batch : held(k) # t => token_store'[held(k)] = token_store[held(k)]
  BY <1>6, HeldAreTokens
<1>8. KnownHeld'
  BY <1>4, <1>7 DEF ReachInv, KnownHeld, Known
<1>9. \A g : LastLineOut(g) => LastLineOut(g)' \/ EofOf(t, g)
  BY <1>4, <1>7 DEF LastLineOut, EofOf
<1>10. CASE resolveFailed(i)
  <2>1. /\ files' = files
        /\ stored_files' = IF token_store[t].eof THEN Push(stored_files, token_store[t].file)
                           ELSE stored_files
    BY <1>2, <1>3, <1>10 DEF resolveFailed, KeepLine, diskVars
  <2>2. stored_files \in [Path -> Nat] /\ \A g \in Path : stored_files[g] \in Nat
    BY FileTypes
  <2>3. \A g \in Path : /\ stored_files[g] > 0 => stored_files'[g] > 0
                        /\ EofOf(t, g) => stored_files'[g] > 0
    <3>1. \A h : \A g \in Path : Push(stored_files, h)[g] = IF g = h THEN stored_files[g] + 1
                                                            ELSE stored_files[g]
      BY <2>2, ListValues
    <3>2. QED
      BY <2>1, <2>2, <3>1 DEF EofOf
  <2>4. QED
    BY <1>1, <1>3, <1>8, <1>9, <2>1, <2>3, FileTypes DEF ReachInv, LedTo
<1>11. CASE resolveSent(i)
  <2>1. stored_files' = stored_files /\ ForgetLine(t)
    BY <1>2, <1>11 DEF resolveSent, ForgetLine
  <2>2. files' \subseteq files /\ \A g : EofOf(t, g) => g \notin files'
    <3>1. Resolvable(t)
      BY <1>2, <1>3, <1>11, LiveTokensResolve DEF resolveSent, ForgetLine, SentTokensResolve
    <3>2. QED
      BY <2>1, <3>1 DEF ForgetLine, EofOf, deleteFile, diskVars
  <2>3. QED
    BY <1>1, <1>3, <1>8, <1>9, <2>1, <2>2 DEF ReachInv, LedTo
<1>12. QED
  BY <1>10, <1>11

LEMMA ReachInvNext ==
    ASSUME TInv, TokenInv, ReachInv, \A f \in Path : Discoverable(f), [Next]_vars
    PROVE  ReachInv'
<1>1. CASE Start
  <2>1. \A f \in files : stored_files'[f] > 0
    BY <1>1, FileTypes DEF Start
  <2>2. batch' = <<>> /\ files' = files
    BY <1>1 DEF Start, clientVars, TInv, ProcessInv
  <2>3. QED
    BY <2>1, <2>2 DEF ReachInv, KnownHeld, LedTo
<1>2. CASE Shutdown
  <2>1. \A i \in DOMAIN batch : token_store'[batch[i].token] = token_store[batch[i].token]
    BY <1>2, HeldAreTokens DEF Shutdown, backupInserts, HeadLost, ReachInv, KnownHeld
  <2>2. UNCHANGED <<batch, files, stored_files, active_write_file, active_read_file>>
        /\ Up
    BY <1>2 DEF Shutdown, clientVars, storedVars, writeVars, readVars, Up
  <2>3. KnownHeld' /\ \A f : LastLineOut(f) => LastLineOut(f)'
    BY <2>1, <2>2 DEF ReachInv, KnownHeld, Known, LastLineOut
  <2>4. QED
    BY <2>2, <2>3 DEF ReachInv, LedTo
<1>3. CASE LoseMemory
  BY <1>3 DEF LoseMemory, ReachInv, KnownHeld, Up
<1>4. CASE Complete \/ UNCHANGED vars
  BY <1>4, SameTokens DEF Complete, vars, tokenVars, diskVars, storedVars, writeVars, readVars,
     clientVars, processVars, ReachInv, LedTo, Up
<1>5. CASE Resolve
  BY <1>5, ResolveReaches DEF Resolve
<1>6. QED
  BY <1>1, <1>2, <1>3, <1>4, <1>5, WriteReaches, ReadReaches DEF Next, ProcessEnds

(* Every file on disk is led to: while the process runs, no file is        *)
(* forgotten, through reads, failed uploads, deletions and restarts, in    *)
(* whatever order the tokens of a batch are resolved and even where names  *)
(* are used again.  The hypothesis: the discovery pattern matches every    *)
(* name a file gets, which holds for fewer than ten names a second         *)
(* (discoverStoredFiles).                                                  *)
THEOREM NoFileIsStranded ==
    ASSUME \A f \in Path : Discoverable(f)
    PROVE  Spec => []NoFileStranded
<1>1. Init => TokenInv /\ ReachInv
  BY DEF Init, TokenInv, HeldAreLive, HeldAreDistinct, ReachInv, KnownHeld
<1>2. TInv /\ TokenInv /\ ReachInv /\ [Next]_vars => (TokenInv /\ ReachInv)'
  BY TokenInvNext, ReachInvNext
<1>3. TInv /\ ReachInv => NoFileStranded
  BY FileTypes DEF ReachInv, LedTo, NoFileStranded, Reachable, Held, Up
<1>4. QED
  BY <1>1, <1>2, <1>3, TInvHolds, PTL DEF Spec
-----------------------------------------------------------------------------
(* What the files hold is in the order of their names: a file gets records *)
(* only while no file is of a later second.                                *)
ContentInv ==
    /\ \A f \in Path : content[f] # <<>> => f \in files
    /\ \A f \in Path : \A k \in DOMAIN content[f] : content[f][k] <= written
    /\ \A f, g \in Path : f[1] < g[1] =>
         \A k \in DOMAIN content[f], l \in DOMAIN content[g] : content[f][k] < content[g][l]

(* The parts of the types of the contents. *)
LEMMA ContentTypes ==
    ASSUME TInv
    PROVE  /\ written \in Nat
           /\ content \in [Path -> Seq(Record)]
           /\ \A f \in Path : \A k \in DOMAIN content[f] : content[f][k] \in Nat
           /\ \A f \in Path : f[1] \in Nat
<1>1. written \in Nat /\ content \in [Path -> Seq(Record)]
  BY StrategyAssumption DEF TInv, TypeOK
<1>2. \A r \in Record : r \in Nat
  BY StrategyAssumption DEF Record
<1>3. \A f \in Path : content[f] \in Seq(Record)
  BY <1>1
<1>4. \A f \in Path : \A k \in DOMAIN content[f] : content[f][k] \in Record
  BY <1>3
<1>5. QED
  BY <1>1, <1>2, <1>4, FileTypes

LEMMA AppendContent ==
    ASSUME TInv, NamesInv, ContentInv, NEW w \in Writer, append(w)
    PROVE  ContentInv'
<1>1. active_write_file \in Path /\ active_write_file[1] = now
  <2>1. writer[w] # Idle
    BY DEF append, Idle
  <2>2. mode # "down"
    BY <2>1 DEF TInv, ProcessInv
  <2>3. QED
    BY <2>2, FileTypes, TokenStoreAssumption DEF Up, NamesInv
<1>2. PICK a \in Path : a = active_write_file
  BY <1>1
<1>3. /\ files' = files \cup {a}
      /\ content' = [content EXCEPT ![a] = Append(@, written + 1)]
      /\ written' = written + 1
  BY <1>2 DEF append
<1>4. /\ \A f \in Path : f # a => content'[f] = content[f]
      /\ content[a] \in Seq(Record)
      /\ content'[a] = Append(content[a], written + 1)
  BY <1>3, ContentTypes
<1>5. /\ DOMAIN content[a] \subseteq DOMAIN content'[a]
      /\ \A k \in DOMAIN content'[a] : \/ k \in DOMAIN content[a] /\ content'[a][k] = content[a][k]
                                       \/ content'[a][k] = written + 1
  BY <1>4
<1>6. \A f \in Path : a[1] < f[1] => content[f] = <<>>
  <2>1. \A f \in Path : content[f] # <<>> => f[1] <= now
    BY DEF ContentInv, NamesInv, Mentioned
  <2>2. QED
    BY <1>1, <1>2, <2>1, FileTypes
<1>7. \A f \in Path : content'[f] # <<>> => f \in files'
  BY <1>3, <1>4 DEF ContentInv
<1>8. \A f \in Path : \A k \in DOMAIN content'[f] : content'[f][k] <= written'
  <2>1. \A f \in Path : \A k \in DOMAIN content[f] : content[f][k] <= written + 1
    BY ContentTypes DEF ContentInv
  <2>2. written + 1 <= written + 1
    BY ContentTypes
  <2>3. QED
    BY <1>3, <1>4, <1>5, <2>1, <2>2
<1>9. ASSUME NEW f \in Path, NEW g \in Path, f[1] < g[1],
             NEW k \in DOMAIN content'[f], NEW l \in DOMAIN content'[g]
      PROVE  content'[f][k] < content'[g][l]
  <2>1. CASE f # a /\ g # a
    BY <1>4, <1>9, <2>1 DEF ContentInv
  <2>2. CASE f = a
    <3>1. content[g] = <<>> /\ g # a
      BY <1>6, <1>9, <2>2, FileTypes
    <3>2. QED
      BY <1>4, <1>9, <3>1
  <2>3. CASE f # a /\ g = a
    <3>1. content'[f][k] = content[f][k] /\ k \in DOMAIN content[f]
      BY <1>4, <2>3
    <3>2. content[f][k] < written + 1
      BY <3>1, ContentTypes DEF ContentInv
    <3>3. QED
      BY <1>5, <1>9, <2>3, <3>1, <3>2 DEF ContentInv
  <2>4. QED
    BY <2>1, <2>2, <2>3
<1>10. QED
  BY <1>7, <1>8, <1>9 DEF ContentInv

(* Without an append the contents of files that go are all that changes.   *)
LEMMA LessContent ==
    ASSUME TInv, ContentInv, written' = written,
           \A f \in Path : content'[f] = <<>> \/ content'[f] = content[f],
           \A f \in Path : content'[f] # <<>> => f \in files'
    PROVE  ContentInv'
  BY DEF ContentInv

LEMMA DeleteFileContent ==
    ASSUME TInv, ContentInv, NEW f, deleteFile(f)
    PROVE  /\ \A g \in Path : content'[g] = <<>> \/ content'[g] = content[g]
           /\ \A g \in Path : content'[g] # <<>> => g \in files'
  BY ContentTypes DEF deleteFile, diskVars, ContentInv

LEMMA ContentInvNext ==
    ASSUME TInv, NamesInv, ContentInv, [Next]_vars
    PROVE  ContentInv'
<1>1. CASE UNCHANGED <<files, content, written>>
  BY <1>1, LessContent DEF ContentInv
<1>2. ASSUME NEW w \in Writer, Write(w)
      PROVE  ContentInv'
  <2>1. CASE deleteOldestFile(w)
    <3>1. written' = written /\ \E f \in Path : deleteFile(f)
      BY <2>1 DEF deleteOldestFile
    <3>2. QED
      BY <3>1, DeleteFileContent, LessContent
  <2>2. QED
    BY <1>1, <1>2, <2>1, AppendContent
       DEF Write, checkIfWriteFileShouldRotate, checkIfStorageLimitHasBeenReached,
           deleteFromEmptyList, diskVars, history
<1>3. CASE Resolve
  <2>1. \/ UNCHANGED <<files, content, written>>
        \/ written' = written /\ \E f : deleteFile(f)
    BY <1>3 DEF Resolve, resolveSent, resolveFailed, ForgetLine, diskVars, history
  <2>2. QED
    BY <1>1, <2>1, DeleteFileContent, LessContent
<1>4. CASE Read
  BY <1>1, <1>4 DEF Read, readActiveFile, readStoredFile, readWriteFile, diskVars, history
<1>5. QED
  BY <1>1, <1>2, <1>3, <1>4
     DEF Next, Complete, Start, Shutdown, ProcessEnds, vars, diskVars, history

(* Of the files of the list the oldest is deleted, whose records are older *)
(* than all the others'.                                                   *)
LEMMA OldestGoes ==
    ASSUME TInv, FilesInv, NamesInv, ContentInv, [Next]_vars, dropped' # dropped,
           NEW r \in dropped' \ dropped, NEW f \in Held(stored_files'),
           NEW k \in DOMAIN content[f]
    PROVE  r < content[f][k]
<1>1. PICK w \in Writer : deleteOldestFile(w)
  BY DEF Next, Write, checkIfWriteFileShouldRotate, checkIfStorageLimitHasBeenReached,
     deleteFromEmptyList, append, Read, readActiveFile, readStoredFile, readWriteFile, Complete,
     Resolve, resolveSent, resolveFailed, Start, Shutdown, ProcessEnds, vars, history
<1>2. PICK d \in Path : /\ Oldest(d, stored_files)
                        /\ stored_files' = Erase(stored_files, d)
                        /\ dropped' = dropped \cup Range(content[d])
  BY <1>1 DEF deleteOldestFile
<1>3. /\ d \in Held(stored_files) /\ \A g \in Held(stored_files) : ~ Before(g, d)
      /\ stored_files[d] <= 1 /\ \A g \in Path : stored_files[g] \in Nat
  BY <1>2, FileTypes DEF Oldest, FilesInv, Exclusive
<1>4. f \in Path /\ f # d /\ f \in Held(stored_files)
  <2>1. \A g \in Path : stored_files'[g] = IF g = d /\ stored_files[g] > 0 THEN stored_files[g] - 1
                                           ELSE stored_files[g]
    BY <1>2, FileTypes, ListValues
  <2>2. f \in Path /\ stored_files'[f] > 0
    BY DEF Held
  <2>3. f # d
    BY <1>3, <2>1, <2>2
  <2>4. QED
    BY <2>1, <2>2, <2>3 DEF Held
<1>5. d[1] # f[1]
  BY <1>3, <1>4 DEF NamesInv, Mentioned, Used, Held
<1>6. d[1] < f[1]
  BY <1>3, <1>4, <1>5, FileTypes DEF Before
<1>7. PICK j \in DOMAIN content[d] : r = content[d][j]
  BY <1>2 DEF Range
<1>8. QED
  BY <1>4, <1>6, <1>7 DEF ContentInv

(* Deletion for the storage limit takes the records that were written      *)
(* first of those on the list, whichever files were read, failed and were  *)
(* put back between: the names of the files are in the order of what they  *)
(* hold.  The hypothesis: no second names two files.  Names of one second  *)
(* are used again when they are free (checkIfStorageLimitHasBeenReached,   *)
(* deleteOldestFile, rotateWriteFile).                                     *)
THEOREM OldestIsDeletedFirst == ASSUME UniqueNames PROVE Spec => DeletesOldestFirst
<1>1. Init => ContentInv
  BY DEF Init, ContentInv
<1>2. TInv /\ FilesInv /\ [Next]_vars => FilesInv'
  BY FilesInvNext
<1>3. FilesInv => NamesInv
  BY DEF FilesInv
<1>4. TInv /\ FilesInv /\ ContentInv /\ [Next]_vars => ContentInv'
  BY <1>3, ContentInvNext
<1>5. TInv /\ FilesInv /\ ContentInv /\ [Next]_vars =>
        [dropped' # dropped =>
           \A r \in dropped' \ dropped, f \in Held(stored_files') :
               \A k \in DOMAIN content[f] : r < content[f][k]]_vars
  BY <1>3, OldestGoes
<1>6. QED
  BY <1>1, <1>2, <1>4, <1>5, FilesInvInit, TInvHolds, PTL DEF Spec, DeletesOldestFirst
=============================================================================
