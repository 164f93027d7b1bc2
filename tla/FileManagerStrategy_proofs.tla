--------------------- MODULE FileManagerStrategy_proofs ---------------------
(***************************************************************************)
(* Theorems about the offline storage, for every number of writers,        *)
(* records, files and restarts, every size limit and every order in which  *)
(* a caller resolves its tokens.                                           *)
(***************************************************************************)
EXTENDS FileManagerStrategy, FiniteSetTheorems, TLAPS

(* The order of sums, away from the operators that are summed. *)
LEMMA SumBound ==
    ASSUME NEW a \in Nat, NEW b \in Nat, NEW c \in Nat, NEW d \in Nat, d <= b, a + b <= c
    PROVE  a + d <= c
  OBVIOUS

(* What RemoveAt leaves of a sequence. *)
LEMMA RemoveAtProperties ==
    ASSUME NEW S, NEW s \in Seq(S), NEW i \in DOMAIN s
    PROVE  /\ RemoveAt(s, i) \in Seq(S)
           /\ Len(RemoveAt(s, i)) = Len(s) - 1
           /\ \A j \in 1..(Len(s) - 1) :
                RemoveAt(s, i)[j] = IF j < i THEN s[j] ELSE s[j + 1]
<1> DEFINE front == SubSeq(s, 1, i - 1)
           back  == SubSeq(s, i + 1, Len(s))
<1>1. /\ front \in Seq(S) /\ Len(front) = i - 1
      /\ \A j \in 1..(i - 1) : front[j] = s[j]
  OBVIOUS
<1>2. /\ back \in Seq(S) /\ Len(back) = Len(s) - i
      /\ \A j \in 1..(Len(s) - i) : back[j] = s[i + j]
  OBVIOUS
<1>3. RemoveAt(s, i) = front \o back
  BY DEF RemoveAt
<1> HIDE DEF front, back
<1>4. QED
  BY <1>1, <1>2, <1>3

(* A number of threads in write() is a natural number, of at most all.     *)
LEMMA InFlightType == InFlight \in Nat /\ InFlight <= Cardinality(Writer)
  BY StrategyAssumption, FS_Subset, FS_CardinalityType DEF InFlight

(* A thread that enters write() is one more, one that leaves it one less.  *)
LEMMA InFlightEnter ==
    ASSUME NEW w \in Writer, writer \in [Writer -> WriterState],
           NEW rec, rec # Idle, writer' = [writer EXCEPT ![w] = rec], writer[w] = Idle
    PROVE  InFlight' = InFlight + 1
<1> DEFINE B == {v \in Writer : writer[v] # Idle}
<1>1. IsFiniteSet(B) 
  BY StrategyAssumption, FS_Subset
<1>2. {v \in Writer : writer'[v] # Idle} = B \cup {w}
  OBVIOUS
<1>3. w \notin B
  OBVIOUS
<1> HIDE DEF B
<1>4. Cardinality(B \cup {w}) = Cardinality(B) + 1
  BY <1>1, <1>3, FS_AddElement
<1>5. QED
  BY <1>2, <1>4 DEF InFlight, B, Idle

LEMMA InFlightLeave ==
    ASSUME NEW w \in Writer, writer \in [Writer -> WriterState],
           writer' = [writer EXCEPT ![w] = Idle], writer[w] # Idle
    PROVE  InFlight' = InFlight - 1
<1> DEFINE B == {v \in Writer : writer[v] # Idle}
<1>1. IsFiniteSet(B) 
  BY StrategyAssumption, FS_Subset
<1>2. {v \in Writer : writer'[v] # Idle} = B \ {w}
  OBVIOUS
<1>3. w \in B
  OBVIOUS
<1> HIDE DEF B
<1>4. Cardinality(B \ {w}) = Cardinality(B) - 1
  BY <1>1, <1>3, FS_RemoveElement
<1>5. QED
  BY <1>2, <1>4 DEF InFlight, B, Idle

(* What the process holds when it is down, and that it has a write file    *)
(* when it is up; the bound on the records counts those being written.     *)
ProcessInv ==
    /\ mode = "down" => /\ \A w \in Writer : writer[w] = Idle
                        /\ batch = <<>> /\ verdict = "open"
                        /\ active_write_file = NoFile
                        /\ active_write_file_size = 0
    /\ Up => active_write_file \in Path
    /\ written + InFlight <= MaxRecord

TInv == TypeOK /\ ProcessInv

LEMMA InitTInv == Init => TInv
<1> SUFFICES ASSUME Init PROVE TInv
  OBVIOUS
<1>1. InFlight = 0
  BY FS_EmptySet DEF Init, InFlight
<1>2. TypeOK
  BY StrategyAssumption DEF Init, EmptyTokenStore, TypeOK, TokenStoreTypeOK, None, SizeT, WriterState,
     FileTokenInfo, NoInfo, Pos
<1>3. ProcessInv
  BY <1>1, StrategyAssumption DEF Init, ProcessInv, Up
<1>4. QED
  BY <1>2, <1>3 DEF TInv

LEMMA PushType ==
    ASSUME NEW list \in [Path -> Nat], NEW f
    PROVE  Push(list, f) \in [Path -> Nat] /\ Erase(list, f) \in [Path -> Nat]
<1>1. CASE f \in Path
  BY <1>1 DEF Push, Erase
<1>2. CASE f \notin Path
  BY <1>2 DEF Push, Erase
<1>3. QED
  BY <1>1, <1>2

LEMMA RecordSizesType == RecordSizes \subseteq Nat /\ \A n \in RecordSizes : n <= MaxSize
  BY StrategyAssumption

LEMMA WrapType == \A n \in Int : Wrap(n) \in SizeT
  BY StrategyAssumption DEF Wrap, SizeT

LEMMA LoseMemoryType ==
    ASSUME TInv, LoseMemory, UNCHANGED <<diskVars, now, runs, history>>
    PROVE  TInv'
<1>1. InFlight' = 0
  BY FS_EmptySet DEF InFlight, LoseMemory
<1>2. TypeOK'
  BY StrategyAssumption DEF TInv, LoseMemory, ForgetTokens, TypeOK, TokenStoreTypeOK, None, SizeT,
     WriterState, FileTokenInfo, NoInfo, Pos, diskVars, history
<1>3. ProcessInv'
  BY <1>1, StrategyAssumption DEF TInv, TypeOK, LoseMemory, ProcessInv, Up, history
<1>4. QED
  BY <1>2, <1>3 DEF TInv

(* The three sections of write().                                          *)
LEMMA BeginWriteStep ==
    ASSUME TInv, NEW w \in Writer, checkIfWriteFileShouldRotate(w)
    PROVE  TInv'
<1> USE StrategyAssumption, TokenStoreAssumption
<1>1. PICK n \in RecordSizes :
        /\ writer' = [writer EXCEPT ![w] = [at |-> "limit", size |-> n]]
        /\ IF Overfills(n)
             THEN /\ \E f \in Path : rotateWriteFile(f)
                  /\ stored_files' = Push(stored_files, active_write_file)
             ELSE UNCHANGED <<storedVars, writeVars, now>>
  BY DEF checkIfWriteFileShouldRotate
<1>2. /\ Up /\ writer[w] = Idle /\ written + InFlight < MaxRecord
      /\ UNCHANGED <<tokenVars, diskVars, readVars, clientVars, mode, runs, history>>
  BY DEF checkIfWriteFileShouldRotate
<1>3. InFlight' = InFlight + 1
  BY <1>1, <1>2, InFlightEnter DEF TInv, TypeOK, Idle
<1>4. /\ writer' \in [Writer -> WriterState]
      /\ stored_files' \in [Path -> Nat] /\ stored_files_size' \in SizeT
      /\ active_write_file' \in Path /\ active_write_file_size' \in Nat /\ now' \in Nat
  <2>1. CASE Overfills(n)
    <3>1. PICK f \in Path : rotateWriteFile(f)
      BY <1>1, <2>1
    <3>2. /\ stored_files' \in [Path -> Nat]
          /\ active_write_file' \in Path /\ active_write_file_size' \in Nat
      <4>1. stored_files \in [Path -> Nat]
        BY DEF TInv, TypeOK
      <4>2. active_write_file' = f /\ active_write_file_size' = 0
        BY <3>1 DEF rotateWriteFile
      <4>3. stored_files' = Push(stored_files, active_write_file)
        BY <1>1, <2>1
      <4>4. QED
        BY <4>1, <4>2, <4>3, PushType
    <3>3. f[1] \in Nat
      BY <3>1
    <3>4. stored_files_size' \in SizeT
      BY <3>1, WrapType DEF TInv, TypeOK, rotateWriteFile, SizeT
    <3>5. writer' \in [Writer -> WriterState]
      BY <1>1 DEF TInv, TypeOK, WriterState
    <3>6. QED
      BY <3>1, <3>2, <3>3, <3>4, <3>5 DEF rotateWriteFile
  <2>2. CASE ~ Overfills(n)
    BY <1>1, <1>2, <2>2 DEF TInv, TypeOK, ProcessInv, WriterState, storedVars, writeVars
  <2>3. QED
    BY <2>1, <2>2
<1>5. TypeOK'
  BY <1>2, <1>4 DEF TInv, TypeOK, TokenStoreTypeOK, tokenVars, diskVars, readVars, clientVars, history
<1>6. ProcessInv'
  BY <1>2, <1>3, <1>4, InFlightType DEF TInv, TypeOK, ProcessInv, Up, history
<1>7. QED
  BY <1>5, <1>6 DEF TInv

LEMMA LimitWriter ==
    ASSUME TInv, NEW w \in Writer, checkIfStorageLimitHasBeenReached(w)
    PROVE  /\ writer' \in [Writer -> WriterState] /\ InFlight' = InFlight
           /\ writer[w] # Idle
<1>1. writer[w].at = "limit"
  BY DEF checkIfStorageLimitHasBeenReached
<1>2. writer[w] \in [at : {"limit", "delete", "append"}, size : RecordSizes]
  BY <1>1 DEF TInv, TypeOK, WriterState, Idle
<1>3. PICK a \in {"delete", "append"} : writer' = [writer EXCEPT ![w].at = a]
  BY DEF checkIfStorageLimitHasBeenReached
<1>4. writer' \in [Writer -> WriterState] /\ writer'[w] # Idle
  BY <1>2, <1>3 DEF TInv, TypeOK, WriterState, Idle
<1>5. writer[w] # Idle
  BY <1>1 DEF Idle
<1>6. \A v \in Writer : writer'[v] # Idle <=> writer[v] # Idle
  BY <1>3, <1>4, <1>5 DEF TInv, TypeOK
<1>7. QED
  BY <1>4, <1>5, <1>6 DEF InFlight

LEMMA LimitStep ==
    ASSUME TInv, NEW w \in Writer, checkIfStorageLimitHasBeenReached(w)
    PROVE  TInv'
<1>1. UNCHANGED <<tokenVars, diskVars, storedVars, writeVars, readVars, clientVars,
                  processVars, history>>
  BY DEF checkIfStorageLimitHasBeenReached
<1>2. writer' \in [Writer -> WriterState] /\ InFlight' = InFlight /\ writer[w] # Idle
  BY LimitWriter
<1>3. TypeOK'
  BY <1>1, <1>2 DEF TInv, TypeOK, TokenStoreTypeOK, tokenVars, diskVars, storedVars, writeVars,
     readVars, clientVars, processVars, history
<1>4. mode # "down"
  BY <1>2 DEF TInv, ProcessInv
<1>5. ProcessInv'
  BY <1>1, <1>2, <1>4 DEF TInv, ProcessInv, Up, writeVars, processVars, history
<1>6. QED
  BY <1>3, <1>5 DEF TInv

(* deleteFile leaves the disk well typed. *)
LEMMA DeleteFileType ==
    ASSUME TypeOK, NEW f, deleteFile(f)
    PROVE  /\ files' \subseteq files
           /\ content' \in [Path -> Seq(Record)]
           /\ bytes' \in [Path -> Nat]
           /\ backup_file' = backup_file
           /\ stored_files_size' \in SizeT
<1>1. CASE f \in files
  <2>1. f \in Path /\ bytes[f] \in Nat /\ stored_files_size \in Int
    BY <1>1 DEF TypeOK, SizeT
  <2>2. stored_files_size' \in SizeT
    BY <1>1, <2>1, WrapType DEF deleteFile
  <2>3. content' \in [Path -> Seq(Record)]
    <3>1. <<>> \in Seq(Record)
      OBVIOUS
    <3>2. QED
      BY <1>1, <2>1, <3>1 DEF deleteFile, TypeOK
  <2>4. bytes' \in [Path -> Nat]
    <3>1. bytes \in [Path -> Nat] /\ bytes' = [bytes EXCEPT ![f] = 0]
      BY <1>1 DEF deleteFile, TypeOK
    <3>2. QED
      BY <2>1, <3>1
  <2>5. QED
    BY <1>1, <2>2, <2>3, <2>4 DEF deleteFile
<1>2. CASE f \notin files
  BY <1>2 DEF deleteFile, TypeOK, diskVars
<1>3. QED
  BY <1>1, <1>2

(* The thread that deletes goes on, or leaves write() with an exception. *)
LEMMA DeleteOldestWriter ==
    ASSUME TInv, NEW w \in Writer, deleteOldestFile(w)
    PROVE  writer' \in [Writer -> WriterState] /\ InFlight' \in Nat /\ InFlight' <= InFlight
<1>1. writer[w] \in [at : {"limit", "delete", "append"}, size : RecordSizes] /\ writer[w] # Idle
  BY DEF deleteOldestFile, TInv, TypeOK, WriterState, Idle
<1>2. \/ writer' = [writer EXCEPT ![w].at = "append"]
      \/ writer' = [writer EXCEPT ![w] = Idle]
  BY DEF deleteOldestFile, TInv, TypeOK
<1>3. CASE writer' = [writer EXCEPT ![w].at = "append"]
  <2>1. writer' \in [Writer -> WriterState] /\ writer'[w] # Idle
    BY <1>1, <1>3 DEF TInv, TypeOK, WriterState, Idle
  <2>2. InFlight' = InFlight
    BY <1>1, <1>3, <2>1 DEF InFlight, TInv, TypeOK
  <2>3. QED
    BY <2>1, <2>2, InFlightType
<1>4. CASE writer' = [writer EXCEPT ![w] = Idle]
  <2>1. writer' \in [Writer -> WriterState]
    BY <1>4 DEF TInv, TypeOK, WriterState
  <2>2. InFlight' = InFlight - 1
    BY <1>1, <1>4, InFlightLeave DEF TInv, TypeOK
  <2>3. w \in {v \in Writer : writer[v] # Idle}
    BY <1>1
  <2>4. InFlight # 0
    BY <2>3, FS_EmptySet, FS_Subset, StrategyAssumption DEF InFlight
  <2>5. QED
    BY <2>1, <2>2, <2>4, InFlightType
<1>5. QED
  BY <1>2, <1>3, <1>4

LEMMA DeleteOldestStep ==
    ASSUME TInv, NEW w \in Writer, deleteOldestFile(w)
    PROVE  TInv'
<1>1. /\ writer[w].at = "delete"
      /\ UNCHANGED <<tokenVars, writeVars, clientVars, processVars, written, acked>>
  BY DEF deleteOldestFile
<1>2. PICK f \in Path :
        /\ stored_files' = Erase(stored_files, f)
        /\ IF f = active_read_file
             THEN active_read_file' = NoFile /\ read_pos' = 0
             ELSE UNCHANGED readVars
        /\ deleteFile(f)
        /\ dropped' = dropped \cup Range(content[f])
  BY DEF deleteOldestFile
<1>3. writer' \in [Writer -> WriterState] /\ InFlight' <= InFlight /\ InFlight' \in Nat
  BY DeleteOldestWriter
<1>4. /\ stored_files' \in [Path -> Nat]
      /\ active_read_file' \in Path \cup {NoFile} /\ read_pos' \in Pos
      /\ dropped' \subseteq Record
  <2>1. Range(content[f]) \subseteq Record
    BY DEF Range, TInv, TypeOK
  <2>2. QED
    BY <1>2, <2>1 DEF TInv, TypeOK, Erase, readVars, Pos
<1>5. TypeOK'
  BY <1>1, <1>2, <1>3, <1>4, DeleteFileType
     DEF TInv, TypeOK, TokenStoreTypeOK, tokenVars, writeVars, clientVars, processVars
<1>6. mode # "down"
  BY <1>1 DEF TInv, ProcessInv, Idle
<1>7. ProcessInv'
  <2>1. written' + InFlight' <= MaxRecord
    <3>1. InFlight \in Nat /\ InFlight' \in Nat
      BY <1>3, InFlightType
    <3>2. written \in Nat /\ MaxRecord \in Nat
      BY StrategyAssumption DEF TInv, TypeOK
    <3>3. InFlight' <= InFlight /\ written' = written /\ written + InFlight <= MaxRecord
      BY <1>1, <1>3 DEF TInv, ProcessInv
    <3>4. written + InFlight' <= MaxRecord
      BY <3>1, <3>2, <3>3, SumBound
    <3>5. QED
      BY <3>3, <3>4
  <2>2. QED
    BY <1>1, <1>6, <2>1 DEF TInv, ProcessInv, Up, writeVars, processVars
<1>8. QED
  BY <1>5, <1>7 DEF TInv

LEMMA AppendStep ==
    ASSUME TInv, NEW w \in Writer, append(w)
    PROVE  TInv'
<1>1. /\ writer[w].at = "append"
      /\ written' = written + 1
      /\ files' = files \cup {active_write_file}
      /\ content' = [content EXCEPT ![active_write_file] = Append(@, written + 1)]
      /\ bytes' = [bytes EXCEPT ![active_write_file] = @ + writer[w].size + Newline]
      /\ active_write_file_size' = active_write_file_size + writer[w].size
      /\ writer' = [writer EXCEPT ![w] = Idle]
      /\ UNCHANGED <<tokenVars, backup_file, storedVars, active_write_file, readVars,
                     clientVars, processVars, acked, dropped>>
  BY DEF append
<1>2. writer[w] \in [at : {"limit", "delete", "append"}, size : RecordSizes] /\ writer[w] # Idle
  BY <1>1 DEF TInv, TypeOK, WriterState, Idle
<1>3. InFlight' = InFlight - 1
  BY <1>1, <1>2, InFlightLeave DEF TInv, TypeOK
<1>4. w \in {v \in Writer : writer[v] # Idle}
  BY <1>2
<1>5. InFlight # 0
  BY <1>4, FS_EmptySet, FS_Subset, StrategyAssumption DEF InFlight
<1>6. written + 1 \in Record /\ written' \in 0..MaxRecord
  BY <1>1, <1>5, InFlightType, StrategyAssumption DEF TInv, TypeOK, ProcessInv, Record
<1>7. mode # "down" /\ active_write_file \in Path
  BY <1>2 DEF TInv, ProcessInv, Up
<1>8. writer[w].size \in Nat
  BY <1>2, RecordSizesType
<1>9. /\ content' \in [Path -> Seq(Record)]
      /\ bytes' \in [Path -> Nat]
      /\ active_write_file_size' \in Nat
  <2>1. Append(content[active_write_file], written + 1) \in Seq(Record)
    BY <1>6, <1>7 DEF TInv, TypeOK
  <2>2. content' \in [Path -> Seq(Record)]
    BY <1>1, <2>1 DEF TInv, TypeOK
  <2>3. bytes' \in [Path -> Nat]
    <3>1. bytes \in [Path -> Nat] /\ bytes[active_write_file] + writer[w].size + 1 \in Nat
      BY <1>7, <1>8 DEF TInv, TypeOK
    <3>2. bytes' = [bytes EXCEPT ![active_write_file] = @ + writer[w].size + 1]
      BY <1>1 DEF Newline
    <3>3. QED
      BY <3>1, <3>2
  <2>4. active_write_file_size' \in Nat
    BY <1>1, <1>8 DEF TInv, TypeOK
  <2>5. QED
    BY <2>2, <2>3, <2>4
<1>10. TypeOK'
  BY <1>1, <1>6, <1>7, <1>9
     DEF TInv, TypeOK, TokenStoreTypeOK, tokenVars, storedVars, readVars, clientVars, processVars, WriterState
<1>11. ProcessInv'
  BY <1>1, <1>3, <1>5, <1>7, InFlightType, StrategyAssumption
     DEF TInv, TypeOK, ProcessInv, Up, processVars
<1>12. QED
  BY <1>10, <1>11 DEF TInv

(* What read() does once it has its file, spelled out.                     *)
LEMMA ReadLineFacts ==
    ASSUME TypeOK, NEW f \in Path, NEW p \in Pos, NEW stored \in [Path -> Nat],
           ReadLine(f, p, stored)
    PROVE  \E t \in FreshToken, pos \in Pos, next \in Pos, eof \in BOOLEAN,
              data \in Record \cup {NoRecord} :
             /\ createToken(t, f, pos, eof)
             /\ batch' = Append(batch, [token |-> t, record |-> data])
             /\ staged_tokens' = [staged_tokens EXCEPT ![f] = NoPos]
             /\ stored_files' = IF eof THEN Erase(stored, f) ELSE stored
             /\ active_read_file' = IF eof THEN NoFile ELSE f
             /\ read_pos' = IF eof THEN 0 ELSE next
<1> DEFINE pos  == IF isTokenAvailable(f) /\ p # Bad THEN staged_tokens[f] ELSE p
           size == IF pos = Bad THEN Bad ELSE Len(content[f])
           next == IF pos # Bad /\ pos < size THEN pos + 1 ELSE Bad
           eof  == AtEnd(next, size)
           data == IF next = Bad THEN NoRecord ELSE content[f][next]
           t    == CHOOSE t \in FreshToken : TRUE
<1>1. t \in FreshToken
  BY DEF ReadLine
<1>2. pos \in Pos
  <2>1. staged_tokens[f] \in Pos \cup {NoPos}
    BY DEF TypeOK, TokenStoreTypeOK
  <2>2. QED
    BY <2>1 DEF isTokenAvailable
<1>3. content[f] \in Seq(Record)
  BY DEF TypeOK
<1>4. next \in Pos /\ data \in Record \cup {NoRecord}
  <2>1. CASE pos # Bad /\ pos < size
    <3>1. pos \in Nat /\ size = Len(content[f])
      BY <1>2, <2>1 DEF Pos
    <3>2. next = pos + 1 /\ next \in 1..Len(content[f])
      BY <1>3, <2>1, <3>1
    <3>3. next # Bad
      BY <3>2, <1>3 DEF Bad
    <3>4. content[f][next] \in Record
      BY <1>3, <3>2
    <3>5. QED
      BY <3>1, <3>2, <3>3, <3>4 DEF Pos
  <2>2. CASE ~ (pos # Bad /\ pos < size)
    BY <2>2 DEF Pos
  <2>3. QED
    BY <2>1, <2>2
<1>5. eof \in BOOLEAN
  BY DEF AtEnd
<1>6. staged_tokens' = [staged_tokens EXCEPT ![f] = NoPos]
  <2>1. CASE isTokenAvailable(f)
    BY <2>1 DEF ReadLine, popAvailableToken
  <2>2. CASE ~ isTokenAvailable(f)
    BY <2>2 DEF ReadLine, isTokenAvailable, TypeOK, TokenStoreTypeOK
  <2>3. QED
    BY <2>1, <2>2
<1>7. /\ createToken(t, f, pos, eof)
      /\ batch' = Append(batch, [token |-> t, record |-> data])
      /\ stored_files' = IF eof THEN Erase(stored, f) ELSE stored
      /\ active_read_file' = IF eof THEN NoFile ELSE f
      /\ read_pos' = IF eof THEN 0 ELSE next
  BY DEF ReadLine
<1> HIDE DEF pos, size, next, eof, data, t
<1>8. QED
  BY <1>1, <1>2, <1>4, <1>5, <1>6, <1>7

LEMMA ReadLineType ==
    ASSUME TypeOK, NEW f \in Path, NEW p \in Pos, NEW stored \in [Path -> Nat],
           ReadLine(f, p, stored)
    PROVE  /\ TokenStoreTypeOK'
           /\ batch' \in Seq(HeldToken)
           /\ stored_files' \in [Path -> Nat]
           /\ active_read_file' \in Path \cup {NoFile}
           /\ read_pos' \in Pos
<1>1. PICK t \in FreshToken, pos \in Pos, next \in Pos, eof \in BOOLEAN,
           data \in Record \cup {NoRecord} :
        /\ createToken(t, f, pos, eof)
        /\ batch' = Append(batch, [token |-> t, record |-> data])
        /\ staged_tokens' = [staged_tokens EXCEPT ![f] = NoPos]
        /\ stored_files' = IF eof THEN Erase(stored, f) ELSE stored
        /\ active_read_file' = IF eof THEN NoFile ELSE f
        /\ read_pos' = IF eof THEN 0 ELSE next
  BY ReadLineFacts
<1>2. t \in Token
  BY DEF FreshToken
<1>3. token_store' \in [Token -> FileTokenInfo \cup {NoInfo}]
  BY <1>1, <1>2 DEF TypeOK, TokenStoreTypeOK, createToken, FileTokenInfo
<1>4. file_tokens' \in [Path -> Seq(Token)]
  <2>1. Append(file_tokens[f], t) \in Seq(Token)
    BY <1>2 DEF TypeOK, TokenStoreTypeOK
  <2>2. QED
    BY <1>1, <2>1 DEF TypeOK, TokenStoreTypeOK, createToken
<1>5. staged_tokens' \in [Path -> Pos \cup {NoPos}]
  BY <1>1 DEF TypeOK, TokenStoreTypeOK
<1>6. batch' \in Seq(HeldToken)
  <2>1. [token |-> t, record |-> data] \in HeldToken
    BY <1>2 DEF HeldToken
  <2>2. batch \in Seq(HeldToken)
    BY DEF TypeOK
  <2>3. QED
    BY <1>1, <2>1, <2>2
<1>7. stored_files' \in [Path -> Nat]
  BY <1>1, PushType
<1>8. read_pos' \in Pos /\ active_read_file' \in Path \cup {NoFile}
  BY <1>1 DEF Pos
<1>9. QED
  BY <1>3, <1>4, <1>5, <1>6, <1>7, <1>8 DEF TokenStoreTypeOK

LEMMA ReadStep ==
    ASSUME TInv, Read
    PROVE  TInv'
<1>1. TypeOK /\ Up /\ verdict' = verdict /\ verdict = "open"
  BY DEF TInv, Read, readActiveFile, readStoredFile, readWriteFile, MayRead
<1>2. \A f : StartOf(f) \in Pos
  BY DEF StartOf, Pos
<1>3. CASE readActiveFile
  <2>1. active_read_file \in Path /\ read_pos \in Pos /\ stored_files \in [Path -> Nat]
    BY <1>3 DEF TInv, TypeOK, readActiveFile
  <2>2. /\ ReadLine(active_read_file, read_pos, stored_files)
        /\ UNCHANGED <<diskVars, stored_files_size, writeVars, writer, verdict, processVars, history>>
    BY <1>3 DEF readActiveFile
  <2>3. TypeOK'
    BY <1>1, <2>1, <2>2, ReadLineType
       DEF TypeOK, diskVars, writeVars, processVars, history
  <2>4. InFlight' = InFlight
    BY <2>2 DEF InFlight
  <2>5. ProcessInv'
    BY <1>1, <2>2, <2>4 DEF TInv, ProcessInv, Up, writeVars, processVars, history
  <2>6. QED
    BY <2>3, <2>5 DEF TInv
<1>4. CASE readStoredFile
  <2>1. PICK f \in Path : ReadLine(f, StartOf(f), Erase(stored_files, f))
    BY <1>4 DEF readStoredFile
  <2>2. UNCHANGED <<diskVars, stored_files_size, writeVars, writer, verdict, processVars, history>>
    BY <1>4 DEF readStoredFile
  <2>3. Erase(stored_files, f) \in [Path -> Nat]
    BY <1>1, PushType DEF TypeOK
  <2>4. TypeOK'
    BY <1>1, <1>2, <2>1, <2>2, <2>3, ReadLineType
       DEF TypeOK, diskVars, writeVars, processVars, history
  <2>5. InFlight' = InFlight
    BY <2>2 DEF InFlight
  <2>6. ProcessInv'
    BY <1>1, <2>2, <2>5 DEF TInv, ProcessInv, Up, writeVars, processVars, history
  <2>7. QED
    BY <2>4, <2>6 DEF TInv
<1>5. CASE readWriteFile
  <2>1. /\ ReadLine(active_write_file, StartOf(active_write_file),
                    Push(stored_files, active_write_file))
        /\ UNCHANGED <<diskVars, writer, verdict, mode, runs, history>>
    BY <1>5 DEF readWriteFile
  <2>2. PICK f \in Path : rotateWriteFile(f)
    BY <1>5 DEF readWriteFile
  <2>3. active_write_file \in Path
    BY <1>1 DEF TInv, ProcessInv
  <2>4. Push(stored_files, active_write_file) \in [Path -> Nat]
    BY <1>1, PushType DEF TypeOK
  <2>5. /\ active_write_file' \in Path /\ active_write_file_size' \in Nat
        /\ stored_files_size' \in SizeT
    BY <2>2, <1>1, WrapType DEF rotateWriteFile, TypeOK, SizeT
  <2>6. now' \in Nat
    BY <2>2, StrategyAssumption DEF rotateWriteFile
  <2>7. TypeOK'
    BY <1>1, <1>2, <2>1, <2>3, <2>4, <2>5, <2>6, ReadLineType
       DEF TypeOK, diskVars, history
  <2>8. InFlight' = InFlight
    BY <2>1 DEF InFlight
  <2>9. ProcessInv'
    BY <1>1, <2>1, <2>5, <2>8 DEF TInv, ProcessInv, Up, history
  <2>10. QED
    BY <2>7, <2>9 DEF TInv
<1>6. QED
  BY <1>3, <1>4, <1>5 DEF Read

LEMMA CompleteStep ==
    ASSUME TInv, Complete
    PROVE  TInv'
<1>1. TypeOK'
  BY DEF TInv, TypeOK, TokenStoreTypeOK, Complete, tokenVars, diskVars, storedVars, writeVars,
     readVars, processVars, history
<1>2. InFlight' = InFlight
  BY DEF Complete, InFlight
<1>3. ProcessInv'
  BY <1>2 DEF TInv, ProcessInv, Complete, Up, writeVars, processVars, history
<1>4. QED
  BY <1>1, <1>3 DEF TInv

(* The batch without the token that is settled. *)
LEMMA SettleType ==
    ASSUME TInv, NEW i, Settle(i)
    PROVE  /\ i \in 1..Len(batch)
           /\ batch[i] \in HeldToken
           /\ batch' \in Seq(HeldToken)
           /\ verdict' \in {"open", verdict}
           /\ mode # "down"
<1>1. batch \in Seq(HeldToken) /\ i \in DOMAIN batch /\ batch' = RemoveAt(batch, i)
  BY DEF TInv, TypeOK, Settle
<1>2. mode # "down"
  BY <1>1 DEF TInv, ProcessInv
<1>3. QED
  BY <1>1, <1>2, RemoveAtProperties DEF Settle

(* Giving a token back, whoever does it: the types of what it changes.     *)
LEMMA ForgetLineType ==
    ASSUME TypeOK, NEW t \in Token, ForgetLine(t)
    PROVE  /\ TokenStoreTypeOK'
           /\ files' \subseteq files
           /\ content' \in [Path -> Seq(Record)]
           /\ bytes' \in [Path -> Nat]
           /\ backup_file' = backup_file
           /\ stored_files_size' \in SizeT
<1>1. TokenStoreTypeOK'
  <2>1. CASE Resolvable(t)
    BY <2>1 DEF ForgetLine, resolve, TypeOK, TokenStoreTypeOK
  <2>2. CASE ~ Resolvable(t)
    BY <2>2 DEF ForgetLine, tokenVars, TypeOK, TokenStoreTypeOK
  <2>3. QED
    BY <2>1, <2>2
<1>2. deleteFile(token_store[t].file) \/ UNCHANGED <<diskVars, stored_files_size>>
  BY DEF ForgetLine
<1>3. CASE deleteFile(token_store[t].file)
  BY <1>1, <1>3, DeleteFileType
<1>4. CASE UNCHANGED <<diskVars, stored_files_size>>
  BY <1>1, <1>4 DEF TypeOK, diskVars
<1>5. QED
  BY <1>2, <1>3, <1>4

LEMMA KeepLineType ==
    ASSUME TypeOK, NEW t \in Token, KeepLine(t)
    PROVE  TokenStoreTypeOK' /\ stored_files' \in [Path -> Nat]
<1> DEFINE info == token_store[t]
<1>1. info \in FileTokenInfo \cup {NoInfo}
  BY DEF TypeOK, TokenStoreTypeOK
<1>2. stored_files' \in [Path -> Nat]
  <2>1. stored_files' = Push(stored_files, info.file) \/ stored_files' = stored_files
    BY DEF KeepLine
  <2>2. stored_files \in [Path -> Nat]
    BY DEF TypeOK
  <2>3. QED
    BY <2>1, <2>2, PushType
<1>3. CASE Known(t)
  <2>1. fail(t)
    BY <1>3 DEF KeepLine
  <2>2. token_store' \in [Token -> FileTokenInfo \cup {NoInfo}]
    BY <2>1 DEF fail, TypeOK, TokenStoreTypeOK
  <2>3. info.pos \in Pos \cup {NoPos}
    BY <1>1 DEF FileTokenInfo, NoInfo
  <2>4. staged_tokens' \in [Path -> Pos \cup {NoPos}]
    BY <2>1, <2>3 DEF fail, TypeOK, TokenStoreTypeOK
  <2>5. file_tokens' \in [Path -> Seq(Token)]
    <3>1. <<>> \in Seq(Token)
      OBVIOUS
    <3>2. file_tokens \in [Path -> Seq(Token)]
      BY DEF TypeOK, TokenStoreTypeOK
    <3>3. \/ file_tokens' = [file_tokens EXCEPT ![info.file] = <<>>]
          \/ file_tokens' = file_tokens
      BY <2>1 DEF fail
    <3>4. QED
      BY <3>1, <3>2, <3>3
  <2>6. QED
    BY <1>2, <2>2, <2>4, <2>5 DEF TokenStoreTypeOK
<1>4. CASE ~ Known(t)
  BY <1>2, <1>4 DEF KeepLine, tokenVars, TypeOK, TokenStoreTypeOK
<1>5. QED
  BY <1>3, <1>4

LEMMA ResolveStep ==
    ASSUME TInv, NEW i, resolveSent(i) \/ resolveFailed(i)
    PROVE  TInv'
<1>1. /\ Settle(i)
      /\ UNCHANGED <<writeVars, readVars, writer, processVars, written, dropped>>
  BY DEF resolveSent, ForgetLine, resolveFailed, KeepLine, history
<1>2. /\ batch[i] \in HeldToken /\ batch' \in Seq(HeldToken)
      /\ verdict' \in {"open", verdict} /\ mode # "down"
  BY <1>1, SettleType
<1>3. batch[i].token \in Token /\ batch[i].record \in Record \cup {NoRecord} /\ TypeOK
  BY <1>2 DEF HeldToken, TInv
<1>4. ASSUME resolveSent(i) PROVE TypeOK'
  <2>1. /\ ForgetLine(batch[i].token) /\ stored_files' = stored_files
        /\ acked' = acked \cup ({batch[i].record} \ {NoRecord})
    BY <1>4 DEF resolveSent, ForgetLine
  <2>2. QED
    BY <1>1, <1>2, <1>3, <2>1, ForgetLineType DEF TypeOK, writeVars, readVars, processVars
<1>5. ASSUME resolveFailed(i) PROVE TypeOK'
  <2>1. KeepLine(batch[i].token) /\ UNCHANGED <<diskVars, stored_files_size, history>>
    BY <1>5 DEF resolveFailed, KeepLine
  <2>2. QED
    BY <1>1, <1>2, <1>3, <2>1, KeepLineType
       DEF TypeOK, diskVars, writeVars, readVars, processVars, history
<1>6. TypeOK'
  BY <1>4, <1>5
<1>7. InFlight' = InFlight
  BY <1>1 DEF InFlight
<1>8. ProcessInv'
  BY <1>1, <1>2, <1>7 DEF TInv, ProcessInv, Up, writeVars, processVars
<1>9. QED
  BY <1>6, <1>8 DEF TInv

LEMMA StartStep ==
    ASSUME TInv, Start
    PROVE  TInv'
<1>1. /\ mode = "down" /\ mode' = "up"
      /\ runs < MaxRuns /\ runs' = runs + 1
      /\ restore(backup_file)
      /\ backup_file' = [f \in Path |-> NoPos]
      /\ stored_files_size' \in SizeT
      /\ UNCHANGED <<files, content, bytes, readVars, writer, clientVars, history>>
  BY DEF Start
<1>2. stored_files' \in [Path -> Nat]
  BY DEF Start
<1>3. /\ now' \in Nat /\ active_write_file' \in Path /\ active_write_file_size' \in Nat
  BY StrategyAssumption DEF Start
<1>4. TokenStoreTypeOK'
  BY <1>1 DEF restore, TInv, TypeOK, TokenStoreTypeOK, FileTokenInfo
<1>5. runs' \in 0..MaxRuns
  BY <1>1, StrategyAssumption DEF TInv, TypeOK
<1>6. TypeOK'
  BY <1>1, <1>2, <1>3, <1>4, <1>5 DEF TInv, TypeOK, readVars, clientVars, history
<1>7. InFlight' = InFlight
  BY <1>1 DEF InFlight
<1>8. ProcessInv'
  BY <1>1, <1>3, <1>7 DEF TInv, ProcessInv, Up, history
<1>9. QED
  BY <1>6, <1>8 DEF TInv

LEMMA ShutdownStep ==
    ASSUME TInv, Shutdown
    PROVE  TInv'
<1>1. /\ mode = "up" /\ mode' = "stopping" /\ backup_file' = backup /\ backupInserts
      /\ UNCHANGED <<files, content, bytes, storedVars, writeVars, readVars, writer, clientVars,
                     now, runs, history>>
  BY DEF Shutdown
<1>2. backup \in [Path -> Pos \cup {NoPos}]
  <2>1. ASSUME NEW f \in Path, Tracked(f)
        PROVE  token_store[Head(file_tokens[f])].pos \in Pos \cup {NoPos}
    <3>1. Head(file_tokens[f]) \in Token
      BY <2>1 DEF Tracked, TInv, TypeOK, TokenStoreTypeOK
    <3>2. token_store[Head(file_tokens[f])] \in FileTokenInfo \cup {NoInfo}
      BY <3>1 DEF TInv, TypeOK, TokenStoreTypeOK
    <3>3. QED
      BY <3>2 DEF FileTokenInfo, NoInfo
  <2>2. QED
    BY <2>1 DEF backup, TInv, TypeOK, TokenStoreTypeOK
<1>3. Blank \in FileTokenInfo
  BY DEF Blank, FileTokenInfo, Pos
<1>4. TokenStoreTypeOK'
  BY <1>1, <1>3 DEF backupInserts, TInv, TypeOK, TokenStoreTypeOK
<1>5. TypeOK'
  BY <1>1, <1>2, <1>4 DEF TInv, TypeOK, storedVars, writeVars, readVars, clientVars, history
<1>6. InFlight' = InFlight
  BY <1>1 DEF InFlight
<1>7. ProcessInv'
  BY <1>1, <1>6 DEF TInv, ProcessInv, Up, writeVars, history
<1>8. QED
  BY <1>5, <1>7 DEF TInv

LEMMA NextTInv == TInv /\ [Next]_vars => TInv'
<1> SUFFICES ASSUME TInv, [Next]_vars PROVE TInv'
  OBVIOUS
<1>1. ASSUME NEW w \in Writer, Write(w) PROVE TInv'
  <2>1. CASE deleteFromEmptyList(w)
    BY <2>1, LoseMemoryType DEF deleteFromEmptyList
  <2>2. QED
    BY <1>1, <2>1, BeginWriteStep, LimitStep, DeleteOldestStep, AppendStep DEF Write
<1>2. CASE Resolve
  BY <1>2, ResolveStep DEF Resolve
<1>3. CASE ProcessEnds
  BY <1>3, LoseMemoryType DEF ProcessEnds
<1>4. CASE UNCHANGED vars
  <2>1. InFlight' = InFlight
    BY <1>4 DEF InFlight, vars
  <2>2. TypeOK'
    BY <1>4 DEF TInv, TypeOK, TokenStoreTypeOK, vars, tokenVars, diskVars, storedVars, writeVars,
       readVars, clientVars, processVars, history
  <2>3. ProcessInv'
    BY <1>4, <2>1 DEF TInv, ProcessInv, Up, vars, writeVars, clientVars, processVars, history
  <2>4. QED
    BY <2>2, <2>3 DEF TInv
<1>5. QED
  BY <1>1, <1>2, <1>3, <1>4, ReadStep, CompleteStep, StartStep, ShutdownStep DEF Next

LEMMA TInvHolds == Spec => []TInv
  BY InitTInv, NextTInv, PTL DEF Spec

(* The types, for every value of the constants: no handler leaves a        *)
(* variable outside what the program can hold, whatever the interleaving.  *)
THEOREM TypeCorrect == Spec => []TypeOK
<1>1. TInv => TypeOK
  BY DEF TInv
<1>2. QED
  BY <1>1, TInvHolds, PTL
-----------------------------------------------------------------------------
(* The size of the write file.                                             *)

LEMMA ProductBound ==
    ASSUME NEW k \in Nat, NEW n \in Nat, NEW m \in Nat, k <= n
    PROVE  k * m \in Nat /\ n * m \in Nat /\ k * m <= n * m
<1>1. PICK d \in Nat : n = k + d
  BY n - k \in Nat
<1>2. n * m = k * m + d * m /\ k * m \in Nat /\ d * m \in Nat
  BY <1>1
<1>3. QED
  BY <1>2

(* A file with room for one more record has room for those of all writers. *)
LEMMA BoundFromRoom ==
    ASSUME NEW a \in Nat, NEW k \in Nat, k <= Cardinality(Writer), a < MaxFileSize
    PROVE  a + k * MaxSize < MaxFileSize + Cardinality(Writer) * MaxSize
<1>1. Cardinality(Writer) \in Nat /\ MaxSize \in Nat /\ MaxFileSize \in Nat
  BY StrategyAssumption, FS_CardinalityType
<1>2. PICK x \in Nat, y \in Nat : x = k * MaxSize /\ y = Cardinality(Writer) * MaxSize /\ x <= y
  BY <1>1, ProductBound
<1>3. a + x < MaxFileSize + y
  BY <1>1, <1>2
<1>4. QED
  BY <1>2, <1>3

(* The bound holds on with fewer records under way; the file gets at most  *)
(* the size of one that is no longer.                                      *)
LEMMA BoundPreserved ==
    ASSUME NEW a \in Nat, NEW b \in Nat, NEW k \in Nat, NEW j \in Nat, NEW size \in Nat,
           NEW bound \in Nat, size <= MaxSize,
           \/ b = a /\ j <= k
           \/ b = a + size /\ j = k - 1,
           a + k * MaxSize < bound
    PROVE  b + j * MaxSize < bound
<1>1. MaxSize \in Nat
  BY StrategyAssumption
<1>2. PICK x \in Nat, y \in Nat : x = j * MaxSize /\ y = k * MaxSize /\ x <= y
  <2>1. j <= k
    OBVIOUS
  <2>2. QED
    BY <1>1, <2>1, ProductBound
<1>3. CASE b = a /\ j <= k
  BY <1>2, <1>3
<1>4. CASE b = a + size /\ j = k - 1
  <2>1. k = j + 1
    BY <1>4
  <2>2. k * MaxSize = j * MaxSize + MaxSize
    BY <1>1, <2>1
  <2>3. y = x + MaxSize
    BY <1>2, <2>2
  <2>4. a + y < bound
    BY <1>2
  <2>5. b + x < bound
    BY <1>1, <1>4, <2>3, <2>4
  <2>6. QED
    BY <1>2, <2>5
<1>5. QED
  BY <1>3, <1>4

LEMMA InFlightTypeNext == InFlight' \in Nat /\ InFlight' <= Cardinality(Writer)
  BY StrategyAssumption, FS_Subset, FS_CardinalityType DEF InFlight

LEMMA WriteFileBoundedNext ==
    ASSUME TInv, TInv', WriteFileBounded, [Next]_vars
    PROVE  WriteFileBounded'
<1> DEFINE bound == MaxFileSize + Cardinality(Writer) * MaxSize
<1>1. /\ active_write_file_size \in Nat /\ active_write_file_size' \in Nat
      /\ MaxFileSize \in Nat \ {0}
  BY StrategyAssumption DEF TInv, TypeOK
<1>2. bound \in Nat
  <2>1. Cardinality(Writer) \in Nat /\ MaxSize \in Nat
    BY StrategyAssumption, FS_CardinalityType
  <2>2. Cardinality(Writer) * MaxSize \in Nat
    BY <2>1, ProductBound
  <2>3. QED
    BY <1>1, <2>2
<1>3. ASSUME active_write_file_size' < MaxFileSize
      PROVE  WriteFileBounded'
  BY <1>1, <1>3, InFlightTypeNext, BoundFromRoom DEF WriteFileBounded
<1>4. ASSUME NEW size \in Nat, size <= MaxSize,
             \/ active_write_file_size' = active_write_file_size /\ InFlight' <= InFlight
             \/ /\ active_write_file_size' = active_write_file_size + size
                /\ InFlight' = InFlight - 1
      PROVE  WriteFileBounded'
  <2>1. active_write_file_size + InFlight * MaxSize < bound
    BY DEF WriteFileBounded
  <2> HIDE DEF bound
  <2>2. active_write_file_size' + InFlight' * MaxSize < bound
    BY <1>1, <1>2, <1>4, <2>1, InFlightType, InFlightTypeNext, BoundPreserved
  <2>3. QED
    BY <2>2 DEF bound, WriteFileBounded
<1>5. ASSUME UNCHANGED <<active_write_file_size, writer>>
      PROVE  WriteFileBounded'
  BY <1>5 DEF WriteFileBounded, InFlight
<1>6. ASSUME \E f \in Path : rotateWriteFile(f)
      PROVE  WriteFileBounded'
  BY <1>1, <1>3, <1>6 DEF rotateWriteFile
<1>7. ASSUME NEW w \in Writer, checkIfWriteFileShouldRotate(w)
      PROVE  WriteFileBounded'
  <2>1. CASE \E f \in Path : rotateWriteFile(f)
    BY <1>6, <2>1
  <2>2. CASE ~ \E f \in Path : rotateWriteFile(f)
    <3>1. PICK n \in RecordSizes : ~ Overfills(n) /\ active_write_file_size' = active_write_file_size
      BY <1>7, <2>2 DEF checkIfWriteFileShouldRotate, writeVars
    <3>2. n \in Nat \ {0}
      BY StrategyAssumption
    <3>3. active_write_file_size + n <= MaxFileSize
      BY <1>1, <3>1, <3>2 DEF Overfills
    <3>4. active_write_file_size' < MaxFileSize
      BY <1>1, <3>1, <3>2, <3>3
    <3>5. QED
      BY <1>3, <3>4
  <2>3. QED
    BY <2>1, <2>2
<1>8. ASSUME NEW w \in Writer, deleteOldestFile(w)
      PROVE  WriteFileBounded'
  <2>1. active_write_file_size' = active_write_file_size
    BY <1>8 DEF deleteOldestFile, writeVars
  <2>2. InFlight' <= InFlight
    BY <1>8, DeleteOldestWriter
  <2>3. 0 \in Nat /\ 0 <= MaxSize
    BY StrategyAssumption
  <2>4. QED
    BY <1>4, <2>1, <2>2, <2>3
<1>9. ASSUME NEW w \in Writer, append(w)
      PROVE  WriteFileBounded'
  <2>1. /\ active_write_file_size' = active_write_file_size + writer[w].size
        /\ writer' = [writer EXCEPT ![w] = Idle]
        /\ writer[w] # Idle
    BY <1>9 DEF append, Idle
  <2>2. writer[w].size \in RecordSizes
    BY <1>9 DEF append, TInv, TypeOK, WriterState, Idle
  <2>3. InFlight' = InFlight - 1
    BY <2>1, InFlightLeave DEF TInv, TypeOK
  <2>4. QED
    BY <1>4, <2>1, <2>2, <2>3, RecordSizesType
<1>10. ASSUME NEW w \in Writer, checkIfStorageLimitHasBeenReached(w)
       PROVE  WriteFileBounded'
  <2>1. active_write_file_size' = active_write_file_size
    BY <1>10 DEF checkIfStorageLimitHasBeenReached, writeVars
  <2>2. InFlight' <= InFlight
    BY <1>10, LimitWriter, InFlightType
  <2>3. 0 \in Nat /\ 0 <= MaxSize
    BY StrategyAssumption
  <2>4. QED
    BY <1>4, <2>1, <2>2, <2>3
<1>11. ASSUME LoseMemory
       PROVE  WriteFileBounded'
  BY <1>1, <1>3, <1>11 DEF LoseMemory
<1>12. CASE Start
  BY <1>1, <1>3, <1>12 DEF Start
<1>13. CASE readWriteFile
  BY <1>6, <1>13 DEF readWriteFile
<1>14. CASE readActiveFile \/ readStoredFile \/ Complete \/ Resolve \/ Shutdown \/ UNCHANGED vars
  BY <1>5, <1>14 DEF readActiveFile, readStoredFile, Complete, Resolve, resolveSent, ForgetLine,
     resolveFailed, KeepLine, Shutdown, vars, writeVars
<1>15. QED
  BY <1>7, <1>8, <1>9, <1>10, <1>11, <1>12, <1>13, <1>14
     DEF Next, Write, Read, deleteFromEmptyList, ProcessEnds

(* However the sections of write() of any number of threads interleave     *)
(* with each other and with the reader, the write file outgrows its        *)
(* maximum by less than one record of each thread.                         *)
THEOREM WriteFileStaysBounded == Spec => []WriteFileBounded
<1>1. Init => WriteFileBounded
  <2> SUFFICES ASSUME Init PROVE WriteFileBounded
    OBVIOUS
  <2>1. active_write_file_size = 0 /\ 0 \in Nat /\ 0 < MaxFileSize
    BY StrategyAssumption DEF Init
  <2>2. 0 + InFlight * MaxSize < MaxFileSize + Cardinality(Writer) * MaxSize
    BY <2>1, InFlightType, BoundFromRoom
  <2>3. QED
    BY <2>1, <2>2 DEF WriteFileBounded
<1>2. TInv /\ TInv' /\ WriteFileBounded /\ [Next]_vars => WriteFileBounded'
  BY WriteFileBoundedNext
<1>3. QED
  BY <1>1, <1>2, TInvHolds, PTL DEF Spec
=============================================================================
