------------------------ MODULE FileManagerStrategy ------------------------
(***************************************************************************)
(* FileManagerStrategy of file_manager_strategy.cpp: the offline storage.  *)
(* Writer threads append records to the active write file; one reader      *)
(* hands lines out under tokens; whoever uploads them gives the tokens     *)
(* back with a verdict.  A write is three sections, each under its own     *)
(* lock or none: other threads run in between.  Processes stop, orderly    *)
(* or not, and start again on the files they find.                         *)
(*                                                                         *)
(* The caller is the one the interface describes: it collects a batch of   *)
(* tokens, waits for the verdict on it, and resolves every token of it     *)
(* before it reads again.  InOrder says whether it resolves them in the    *)
(* order it read them (MetricFileManager) or in any other (LogFileManager, *)
(* which orders a batch by time stamp).                                    *)
(***************************************************************************)
EXTENDS TokenStore, FiniteSets

CONSTANTS
    Writer,             \* threads that call write()
    RecordSizes,        \* sizes of a record in bytes
    MaxSize,            \* and the largest of them
    MaxRecord,          \* bound: records written
    MaxFileSize,        \* maximum_file_size_in_kb, in bytes
    StorageLimit,       \* storage_limit_in_kb, in bytes
    SizeMod,            \* 2^64: sizes are of type size_t
    CountDigits,        \* 10: values of a digit; the discovery pattern has one for the count
    BatchSize,          \* lines in an upload batch
    InOrder,            \* are the tokens of a batch resolved as they were read
    SameSecond,         \* can two rotations fall into the same second
    FastRestart,        \* can a process start in the second of the last rotation
    MaxRuns             \* bound: times the process starts

(* A path is the second it was named in and the count that was still free. *)
ASSUME StrategyAssumption ==
    /\ Path \subseteq Nat \X Nat
    /\ IsFiniteSet(Writer) /\ Writer # {}
    /\ RecordSizes \subseteq 1..MaxSize /\ MaxSize \in Nat
    /\ MaxRecord \in Nat
    /\ MaxFileSize \in Nat \ {0}
    /\ StorageLimit \in Nat
    /\ SizeMod \in Nat \ {0}
    /\ CountDigits \in Nat \ {0, 1} /\ BatchSize \in Nat /\ MaxRuns \in Nat
    /\ InOrder \in BOOLEAN /\ SameSecond \in BOOLEAN /\ FastRestart \in BOOLEAN

VARIABLES
    \* on disk
    files,                    \* the offline files that exist
    content,                  \* file -> the records in it
    bytes,                    \* file -> its size
    backup_file,              \* the token store's backup: file -> position
    \* in memory
    stored_files,             \* file -> how often the list holds it
    stored_files_size,
    active_write_file,
    active_write_file_size,
    active_read_file,
    read_pos,                 \* where active_read_file_stream_ stands
    writer,                   \* thread -> where it is in write(), its record's size
    \* the caller of read() and resolve()
    batch,                    \* tokens it holds, with the record each stands for
    verdict,
    \* the process and its clock
    mode,
    now,                      \* the second of the latest rotation
    runs,
    \* history
    written,                  \* number of records written
    acked,                    \* records resolved as sent
    dropped                   \* records deleted for the storage limit

diskVars    == <<files, content, bytes, backup_file>>
storedVars  == <<stored_files, stored_files_size>>
writeVars   == <<active_write_file, active_write_file_size>>
readVars    == <<active_read_file, read_pos>>
clientVars  == <<batch, verdict>>
processVars == <<mode, now, runs>>
history     == <<written, acked, dropped>>
vars == <<tokenVars, diskVars, storedVars, writeVars, readVars, writer,
          clientVars, processVars, history>>

Record   == 1..MaxRecord
SizeT    == 0..(SizeMod - 1)
NoRecord == 0                 \* what a line that is no record carries
Newline  == 1

Idle == [at |-> "idle", size |-> 0]
WriterState == [at : {"limit", "delete", "append"}, size : RecordSizes] \cup {Idle}
HeldToken   == [token : Token, record : Record \cup {NoRecord}]

TypeOK ==
    /\ TokenStoreTypeOK
    /\ files \subseteq Path
    /\ content \in [Path -> Seq(Record)]
    /\ bytes \in [Path -> Nat]
    /\ backup_file \in [Path -> Pos \cup {NoPos}]
    /\ stored_files \in [Path -> Nat]
    /\ stored_files_size \in SizeT
    /\ active_write_file \in Path \cup {NoFile}
    /\ active_write_file_size \in Nat
    /\ active_read_file \in Path \cup {NoFile}
    /\ read_pos \in Pos
    /\ writer \in [Writer -> WriterState]
    /\ batch \in Seq(HeldToken)
    /\ verdict \in {"open", "sent", "failed"}
    /\ mode \in {"down", "up", "stopping"}
    /\ now \in Nat
    /\ runs \in 0..MaxRuns
    /\ written \in 0..MaxRecord
    /\ acked \subseteq Record
    /\ dropped \subseteq Record

-----------------------------------------------------------------------------
(* Helpers *)

None == [f \in Path |-> 0]
Push(list, f)  == [list EXCEPT ![f] = @ + 1]
EraseNothing(list, f) == list                                     \* mutated form
Erase(list, f) == IF list[f] > 0 THEN [list EXCEPT ![f] = @ - 1] ELSE list
Held(list) == {f \in Path : list[f] > 0}

(* The list is sorted by name before its front or its back is used.  The   *)
(* seconds of two names are equally long, their counts are not: "10" comes *)
(* between "1" and "2".                                                    *)
Digits(n) == CHOOSE d \in 1..(n + 1) : /\ n < CountDigits^d
                                       /\ d = 1 \/ CountDigits^(d - 1) <= n
Prefix(n, len) == n \div CountDigits^(Digits(n) - len)
CountBefore(m, n) == IF Digits(m) <= Digits(n)
                       THEN m # n /\ m <= Prefix(n, Digits(m))
                       ELSE Prefix(m, Digits(n)) < n
Before(f, g) == f[1] < g[1] \/ (f[1] = g[1] /\ CountBefore(f[2], g[2]))
OldestIsBack(f, list) == f \in Held(list) /\ \A g \in Held(list) : ~ Before(f, g) \* mutated form
Oldest(f, list) == f \in Held(list) /\ \A g \in Held(list) : ~ Before(g, f)
Newest(f, list) == f \in Held(list) /\ \A g \in Held(list) : ~ Before(f, g)

WrapNever(n) == n                                                 \* mutated form
Wrap(n) == n % SizeMod

(* The names of one second are tried in order until one is not in use.     *)
(* Only the order of the seconds matters: the next one stands for any      *)
(* later one.                                                              *)
NextPath(f, sameSecond) ==
    /\ f \in Path \ files
    /\ \A g \in Path : g[1] = f[1] /\ g[2] < f[2] => g \in files
    /\ f[1] = now + 1 \/ (sameSecond /\ f[1] = now)

(* The list itself gets the file: see the callers.                         *)
rotateKeepsName(f) ==                                             \* mutated form
    /\ NextPath(f, SameSecond)
    /\ now' = f[1]
    /\ stored_files_size' = Wrap(stored_files_size + active_write_file_size)
    /\ active_write_file' = active_write_file
    /\ active_write_file_size' = 0
rotateKeepsSize(f) ==                                             \* mutated form
    /\ NextPath(f, SameSecond)
    /\ now' = f[1]
    /\ stored_files_size' = Wrap(stored_files_size + active_write_file_size)
    /\ active_write_file' = f
    /\ active_write_file_size' = active_write_file_size
rotateWriteFile(f) ==
    /\ NextPath(f, SameSecond)
    /\ now' = f[1]
    /\ stored_files_size' = Wrap(stored_files_size + active_write_file_size)
    /\ active_write_file' = f
    /\ active_write_file_size' = 0

(* file_size throws when there is no such file; the callers catch it or    *)
(* let it escape.                                                          *)
deleteFile(f) ==
    IF f \in files
      THEN /\ files' = files \ {f}
           /\ content' = [content EXCEPT ![f] = <<>>]
           /\ bytes' = [bytes EXCEPT ![f] = 0]
           /\ stored_files_size' = Wrap(stored_files_size - bytes[f])
           /\ UNCHANGED backup_file
      ELSE UNCHANGED <<diskVars, stored_files_size>>

Up == mode # "down"

(* What is lost with the process. *)
LoseMemory ==
    /\ mode' = "down"
    /\ ForgetTokens
    /\ stored_files' = None
    /\ stored_files_size' = 0
    /\ active_write_file' = NoFile
    /\ active_write_file_size' = 0
    /\ active_read_file' = NoFile
    /\ read_pos' = 0
    /\ writer' = [w \in Writer |-> Idle]
    /\ batch' = <<>>
    /\ verdict' = "open"
-----------------------------------------------------------------------------
(* write() *)

InFlight == Cardinality({w \in Writer : writer[w] # Idle})

Overfills(n) == active_write_file_size + n > MaxFileSize

(* write() is called and rotates the file the record would overfill, under *)
(* active_write_file_mutex_.                                               *)
checkIfWriteFileShouldRotate(w) ==
    /\ Up
    /\ writer[w] = Idle
    /\ written + InFlight < MaxRecord
    /\ \E n \in RecordSizes :
        /\ writer' = [writer EXCEPT ![w] = [at |-> "limit", size |-> n]]
        /\ IF Overfills(n)
             THEN /\ \E f \in Path : rotateWriteFile(f)
                  /\ stored_files' = Push(stored_files, active_write_file)
             ELSE UNCHANGED <<storedVars, writeVars, now>>
    /\ UNCHANGED <<tokenVars, diskVars, readVars, clientVars, mode, runs, history>>

(* Holds no lock.  deleteOldestFile looks whether there is a stored file   *)
(* before it takes active_read_file_mutex_.                                *)
checkIfStorageLimitHasBeenReached(w) ==
    /\ writer[w].at = "limit"
    /\ LET total == Wrap(stored_files_size + active_write_file_size + writer[w].size)
       IN writer' = [writer EXCEPT ![w].at =
                       IF total > StorageLimit /\ Held(stored_files) # {}
                         THEN "delete" ELSE "append"]
    /\ UNCHANGED <<tokenVars, diskVars, storedVars, writeVars, readVars, clientVars,
                   processVars, history>>

(* Under active_read_file_mutex_.  Where the file is missing, the          *)
(* exception of file_size escapes from write() and the record is not       *)
(* written.                                                                *)
deleteOldestFile(w) ==
    /\ writer[w].at = "delete"
    /\ \E f \in Path :
        /\ Oldest(f, stored_files)
        /\ stored_files' = Erase(stored_files, f)
        /\ IF f = active_read_file
             THEN active_read_file' = NoFile /\ read_pos' = 0
             ELSE UNCHANGED readVars
        /\ deleteFile(f)
        /\ writer' = [writer EXCEPT ![w] = IF f \in files THEN [@ EXCEPT !.at = "append"]
                                           ELSE Idle]
        /\ dropped' = dropped \cup Range(content[f])
    /\ UNCHANGED <<tokenVars, writeVars, clientVars, processVars, written, acked>>

(* The reader took the last stored file between the look and the lock:     *)
(* front() and pop_front() of an empty list are undefined, and free what   *)
(* was never allocated.                                                    *)
deleteFromEmptyList(w) ==
    /\ writer[w].at = "delete"
    /\ Held(stored_files) = {}
    /\ LoseMemory
    /\ UNCHANGED <<diskVars, now, runs, history>>

(* The line and its newline go to the file, the record's size to the       *)
(* counter; under active_write_file_mutex_.                                *)
append(w) ==
    /\ writer[w].at = "append"
    /\ written' = written + 1
    /\ files' = files \cup {active_write_file}
    /\ content' = [content EXCEPT ![active_write_file] = Append(@, written + 1)]
    /\ bytes' = [bytes EXCEPT ![active_write_file] = @ + writer[w].size + Newline]
    /\ active_write_file_size' = active_write_file_size + writer[w].size
    /\ writer' = [writer EXCEPT ![w] = Idle]
    /\ UNCHANGED <<tokenVars, backup_file, storedVars, active_write_file, readVars,
                   clientVars, processVars, acked, dropped>>
-----------------------------------------------------------------------------
(* read() and resolve() *)

isDataAvailable == \/ active_read_file # NoFile
                   \/ Held(stored_files) # {}
                   \/ active_write_file_size > 0

FreshToken == {t \in Token : Unused(t, {batch[i].token : i \in DOMAIN batch})}

AtEndOneEarly(next, size) == next + 1 >= size                     \* mutated form
AtEnd(next, size) == next >= size

(* One line of f, the stream standing at p and stored being the list of    *)
(* stored files by then.  At the end of the file, and on a stream that has *)
(* failed, getline returns nothing and tellg() -1.                         *)
ReadLine(f, p, stored) ==
    LET pos  == IF isTokenAvailable(f) /\ p # Bad THEN staged_tokens[f] ELSE p
        size == IF pos = Bad THEN Bad ELSE Len(content[f])
        next == IF pos # Bad /\ pos < size THEN pos + 1 ELSE Bad
        eof  == AtEnd(next, size)
        data == IF next = Bad THEN NoRecord ELSE content[f][next]
        t    == CHOOSE t \in FreshToken : TRUE
    IN /\ FreshToken # {}
       /\ IF isTokenAvailable(f) THEN popAvailableToken(f) ELSE UNCHANGED staged_tokens
       /\ createToken(t, f, pos, eof)
       /\ batch' = Append(batch, [token |-> t, record |-> data])
       /\ stored_files' = IF eof THEN Erase(stored, f) ELSE stored
       /\ active_read_file' = IF eof THEN NoFile ELSE f
       /\ read_pos' = IF eof THEN 0 ELSE next

StartOf(f) == IF f \in files THEN 0 ELSE Bad

(* read() finds no file to read (getFileToRead) when there is no data, be  *)
(* it that a caller looked and a deletion came first: it throws and leaves *)
(* everything as it was.  FileUpload has the look and the throw.           *)
MayRead == /\ Up
           /\ isDataAvailable
           /\ verdict = "open"
           /\ Len(batch) < BatchSize

readActiveFile ==
    /\ MayRead
    /\ active_read_file # NoFile
    /\ ReadLine(active_read_file, read_pos, stored_files)
    /\ UNCHANGED <<diskVars, stored_files_size, writeVars, writer, verdict, processVars, history>>

(* getFileToRead takes the newest stored file off the list ... *)
readStoredFile ==
    /\ MayRead
    /\ active_read_file = NoFile
    /\ \E f \in Path :
        /\ Newest(f, stored_files)
        /\ ReadLine(f, StartOf(f), Erase(stored_files, f))
    /\ UNCHANGED <<diskVars, stored_files_size, writeVars, writer, verdict, processVars, history>>

(* ... or else rotates the write file, which also puts it on the list.     *)
readWriteFile ==
    /\ MayRead
    /\ active_read_file = NoFile
    /\ Held(stored_files) = {}
    /\ active_write_file_size > 0
    /\ \E f \in Path : rotateWriteFile(f)
    /\ ReadLine(active_write_file, StartOf(active_write_file),
                Push(stored_files, active_write_file))
    /\ UNCHANGED <<diskVars, writer, verdict, mode, runs, history>>

(* The upload of the batch ends.  The tokens of a batch all get the same   *)
(* verdict (FileManager::fileUploadCompleteStatus).                        *)
Complete ==
    /\ verdict = "open"
    /\ batch # <<>>
    /\ verdict' \in {"sent", "failed"}
    /\ UNCHANGED <<tokenVars, diskVars, storedVars, writeVars, readVars, writer, batch,
                   processVars, history>>

(* The i-th token of the batch is the next to be resolved.                 *)
Settle(i) ==
    /\ i \in DOMAIN batch
    /\ InOrder => i = 1
    /\ batch' = RemoveAt(batch, i)
    /\ verdict' = IF Len(batch) = 1 THEN "open" ELSE verdict

(* resolve(token, true): the token store forgets the token, and with the   *)
(* last line of a file the file goes.  An exception is caught.             *)
ForgetLine(t) ==
    LET info == token_store[t] IN
    IF Resolvable(t)
      THEN /\ ~ ErasesEnd(t)
           /\ resolve(t)
           /\ IF info.eof THEN deleteFile(info.file)
              ELSE UNCHANGED <<diskVars, stored_files_size>>
      ELSE UNCHANGED <<tokenVars, diskVars, stored_files_size>>

resolveSent(i) ==
    /\ verdict = "sent"
    /\ Settle(i)
    /\ ForgetLine(batch[i].token)
    /\ acked' = acked \cup ({batch[i].record} \ {NoRecord})
    /\ UNCHANGED <<stored_files, writeVars, readVars, writer, processVars, written, dropped>>

resolveFailedForgets(i) ==                                        \* mutated form
    /\ verdict = "failed"
    /\ Settle(i)
    /\ IF Known(batch[i].token) THEN fail(batch[i].token) ELSE UNCHANGED tokenVars
    /\ UNCHANGED <<stored_files, diskVars, stored_files_size, writeVars, readVars, writer,
                   processVars, history>>

(* resolve(token, false): the position is staged to be read again, and the *)
(* file put back on the list if its last line was handed out.              *)
KeepLine(t) ==
    LET info == token_store[t] IN
    IF Known(t)
      THEN /\ fail(t)
           /\ stored_files' = IF info.eof THEN Push(stored_files, info.file)
                              ELSE stored_files
      ELSE UNCHANGED <<tokenVars, stored_files>>

resolveFailed(i) ==
    /\ verdict = "failed"
    /\ Settle(i)
    /\ KeepLine(batch[i].token)
    /\ UNCHANGED <<diskVars, stored_files_size, writeVars, readVars, writer, processVars, history>>
-----------------------------------------------------------------------------
(* start() and shutdown(), and a process that just ends *)

(* The discovery pattern has one digit for the count.                      *)
Discoverable(f) == f[2] < CountDigits

(* The files of a set, and the sum of their sizes: f is the sum so far.    *)
TotalBytes(S) == FoldFunctionOnSet(LAMBDA x, y : x + y, 0, bytes, S)

Start ==
    /\ mode = "down"
    /\ runs < MaxRuns
    /\ runs' = runs + 1
    /\ mode' = "up"
    /\ restore(backup_file)                         \* initializeTokenStore
    /\ backup_file' = [f \in Path |-> NoPos]
    /\ LET found == {f \in files : Discoverable(f)}  \* discoverStoredFiles
       IN /\ stored_files' = [f \in Path |-> IF f \in found THEN 1 ELSE 0]
          /\ stored_files_size' = Wrap(TotalBytes(found))
          /\ stored_files_size' \in SizeT
    /\ \E f \in Path : /\ NextPath(f, FastRestart)  \* rotateWriteFile
                       /\ now' = f[1]
                       /\ active_write_file' = f
                       /\ active_write_file_size' = 0
    /\ UNCHANGED <<files, content, bytes, readVars, writer, clientVars, history>>

(* backupToDisk.  FileUploadStreamer::shutdown() calls it before the       *)
(* threads that read and resolve are joined: they go on until the process  *)
(* ends.                                                                   *)
Shutdown ==
    /\ mode = "up"
    /\ mode' = "stopping"
    /\ backup_file' = backup
    /\ backupInserts
    /\ UNCHANGED <<files, content, bytes, storedVars, writeVars, readVars, writer, clientVars,
                   now, runs, history>>

(* The end of an orderly run when mode is "stopping", a crash when "up".    *)
(* The last of the runs is not ended: MaxRuns bounds the model, not the    *)
(* system.                                                                 *)
ProcessEnds ==
    /\ Up
    /\ runs < MaxRuns
    /\ LoseMemory
    /\ UNCHANGED <<diskVars, now, runs, history>>
-----------------------------------------------------------------------------
Init ==
    /\ EmptyTokenStore
    /\ files = {}
    /\ content = [f \in Path |-> <<>>]
    /\ bytes = [f \in Path |-> 0]
    /\ backup_file = [f \in Path |-> NoPos]
    /\ stored_files = None
    /\ stored_files_size = 0
    /\ active_write_file = NoFile
    /\ active_write_file_size = 0
    /\ active_read_file = NoFile
    /\ read_pos = 0
    /\ writer = [w \in Writer |-> Idle]
    /\ batch = <<>>
    /\ verdict = "open"
    /\ mode = "down"
    /\ now = 0
    /\ runs = 0
    /\ written = 0
    /\ acked = {}
    /\ dropped = {}

Write(w) == \/ checkIfWriteFileShouldRotate(w)
            \/ checkIfStorageLimitHasBeenReached(w)
            \/ deleteOldestFile(w)
            \/ deleteFromEmptyList(w)
            \/ append(w)

Read == readActiveFile \/ readStoredFile \/ readWriteFile

Resolve == \E i \in 1..BatchSize : resolveSent(i) \/ resolveFailed(i)

Next == \/ \E w \in Writer : Write(w)
        \/ Read
        \/ Complete
        \/ Resolve
        \/ Start
        \/ Shutdown
        \/ ProcessEnds

Spec == Init /\ [][Next]_vars
-----------------------------------------------------------------------------
(* Properties *)

(* The tokens the caller has not given back, and the position from which   *)
(* file f will be read on: nothing before it will be handed out again.     *)
OutstandingPos(f) ==
    {token_store[batch[i].token].pos : i \in {j \in DOMAIN batch :
        token_store[batch[j].token].file = f}}

ResumePositions(f) ==
    OutstandingPos(f)
      \cup ({staged_tokens[f]} \ {NoPos})
      \cup (IF active_read_file = f /\ ~ isTokenAvailable(f) THEN {read_pos} ELSE {})

Least(S) == CHOOSE p \in S : \A q \in S : p <= q

Resume(f) ==
    IF mode = "down" THEN IF backup_file[f] = NoPos THEN 0 ELSE backup_file[f]
    ELSE IF ResumePositions(f) = {} THEN 0 ELSE Least(ResumePositions(f))

(* Files from which a record can still get to the caller. *)
LastLineOut(f) == \E i \in DOMAIN batch : /\ token_store[batch[i].token].file = f
                                          /\ token_store[batch[i].token].eof
Reachable(f) ==
    /\ f \in files
    /\ IF mode = "down" THEN Discoverable(f)
       ELSE \/ f = active_write_file
            \/ f \in Held(stored_files)
            \/ f = active_read_file
            \/ LastLineOut(f)

Pending == UNION {{content[f][k] : k \in {j \in DOMAIN content[f] : j > Resume(f)}} :
                  f \in {g \in Path : Reachable(g)}}

(* The records the storage still has to upload are those its files, lists, *)
(* tokens and backup lead to: with every restart, failed upload and        *)
(* deletion, each accepted record is among them until it was uploaded or   *)
(* deleted to make room.                                                   *)
Store == INSTANCE AtLeastOnceStore
           WITH accepted <- 1..written, pending <- Pending, uploaded <- acked, lost <- dropped
ImplementsStore == Store!StoreSpec

(* Every token the caller gets back as sent is one the token store can     *)
(* resolve: no exception swallows it, and no list lacks it                 *)
(* (TokenStore::resolve).                                                  *)
SentTokensResolve ==
    verdict = "sent" => \A i \in DOMAIN batch : LET t == batch[i].token IN
                            Resolvable(t) /\ ~ ErasesEnd(t)

(* No file is both staged, to be resumed, and tracked by tokens: a backup  *)
(* has one position for it, and no read starts a second time what is being *)
(* uploaded (TokenStore::fail, popAvailableToken, backup).                 *)
StagedXorTracked == \A f \in Path : ~ (isTokenAvailable(f) /\ Tracked(f))

(* The write file is nobody else's: it is neither stored, where it could   *)
(* be deleted, nor being read, nor does a token lead to it                 *)
(* (active_write_file_, "cannot be read from or deleted").                 *)
WriteFileProtected ==
    active_write_file # NoFile =>
        /\ stored_files[active_write_file] = 0
        /\ active_read_file # active_write_file
        /\ ~ LastLineOut(active_write_file)
        /\ ~ isTokenAvailable(active_write_file)

(* Writers that have passed the size check can each still append: the      *)
(* write file outgrows its maximum by less than a record of each writer,   *)
(* whatever the sizes (checkIfWriteFileShouldRotate, write).               *)
WriteFileBounded ==
    active_write_file_size + InFlight * MaxSize
        < MaxFileSize + Cardinality(Writer) * MaxSize

(* A file is on the list of stored files at most once, and only if it      *)
(* exists: no deletion of the oldest file throws                           *)
(* (deleteOldestFile, resolve, rotateWriteFile).                           *)
StoredFilesExist == \A f \in Held(stored_files) : stored_files[f] = 1 /\ f \in files

(* While a process runs, it knows of every file on disk that holds records *)
(* (discoverStoredFiles, resolve).                                         *)
NoFileStranded == Up => \A f \in files : Reachable(f)

(* What the reader has left behind was uploaded: no failed line, and no    *)
(* line of a file that took over a used name, is passed over               *)
(* (TokenStore::fail, staged_tokens_).                                     *)
NothingSkipped ==
    \A f \in Path : Reachable(f) =>
        \A k \in DOMAIN content[f] : k <= Resume(f) => content[f][k] \in acked

(* Deletion for the storage limit: only when what is on disk and what is   *)
(* to be written exceed it, and then the records written first             *)
(* (checkIfStorageLimitHasBeenReached, deleteOldestFile).                  *)
DeletesOnlyWhenFull ==
    [][\A w \in Writer : writer[w].at = "limit" /\ writer'[w].at = "delete" =>
         TotalBytes(files) + writer[w].size > StorageLimit]_vars
DeletesOldestFirst ==
    [][dropped' # dropped =>
         \A r \in dropped' \ dropped, f \in Held(stored_files') :
             \A k \in DOMAIN content[f] : r < content[f][k]]_vars

(* The threads of the process take their steps, a stopped process is       *)
(* started again, and uploads do not fail forever.                         *)
Sent == Complete /\ verdict' = "sent"
Fairness ==
    /\ \A w \in Writer :
         WF_vars(/\ writer[w] # Idle
                 /\ Write(w))
    /\ WF_vars(Read) /\ WF_vars(Complete) /\ WF_vars(Resolve) /\ WF_vars(Start)
    /\ SF_vars(Sent)
FairSpec == Spec /\ Fairness

(* Every record written is uploaded in the end, unless its file was        *)
(* deleted for the storage limit: through failed uploads, shutdowns and    *)
(* crashes.                                                                *)
EventuallyUploaded == \A r \in Record : r <= written ~> r \in acked \cup dropped
=============================================================================
