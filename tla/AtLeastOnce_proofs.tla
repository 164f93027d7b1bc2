------------------------- MODULE AtLeastOnce_proofs -------------------------
(***************************************************************************)
(* Theorems about the lines of the offline storage: from where a file is   *)
(* read on, that what lies before was uploaded, and that the storage       *)
(* implements AtLeastOnceStore.  They are about a caller that resolves the *)
(* tokens of a batch in the order it read them (InOrder), and about file   *)
(* names that are not used twice (UniqueNames).                            *)
(***************************************************************************)
EXTENDS StoredFiles_proofs, WellFoundedInduction

(* What the i-th token of the batch stands for.                            *)
HeldFile(i) == token_store[batch[i].token].file
HeldPos(i)  == token_store[batch[i].token].pos
HeldEof(i)  == token_store[batch[i].token].eof

(* The tokens held and the lists of the token store: a file with a token   *)
(* held has its list, or a failed token has taken the list away and staged *)
(* the file; and the head of a list, from which a backup or a failed token *)
(* takes the position to resume from, stands for the first line held of    *)
(* its file.                                                               *)
HeldInFiles     == \A i \in DOMAIN batch : HeldFile(i) \in Path
TrackedOrStaged == \A i \in DOMAIN batch : Tracked(HeldFile(i)) \/ isTokenAvailable(HeldFile(i))
IsHead(t, f)    == Tracked(f) /\ Head(file_tokens[f]) = t
HeadIsFirst     == \A i, j \in DOMAIN batch :
                     IsHead(batch[i].token, HeldFile(i)) /\ j < i => HeldFile(j) # HeldFile(i)
HeadsAreHeld    == mode = "up" => \A f \in Path, t \in Token : IsHead(t, f) /\ Known(t) =>
                     \E i \in DOMAIN batch : batch[i].token = t /\ HeldFile(i) = f

OrderInv == KnownHeld /\ HeldInFiles /\ TrackedOrStaged /\ HeadIsFirst /\ HeadsAreHeld
-----------------------------------------------------------------------------
(* What a read does to tokens and batch, value by value.                   *)
TokenRead(f, t, pos, eof, data) ==
    /\ t \in Token /\ ~ Known(t)
    /\ \A i \in DOMAIN batch : batch[i].token # t
    /\ \A g \in Path : ~ Contains(file_tokens[g], t)
    /\ token_store'[t] = [file |-> f, pos |-> pos, eof |-> eof]
    /\ \A u \in Token : u # t => token_store'[u] = token_store[u]
    /\ file_tokens[f] \in Seq(Token) /\ file_tokens'[f] = Append(file_tokens[f], t)
    /\ staged_tokens'[f] = NoPos
    /\ \A g \in Path : g # f => /\ file_tokens'[g] = file_tokens[g]
                                /\ staged_tokens'[g] = staged_tokens[g]

BatchGrown(n, t, data) ==
    /\ n \in Nat /\ DOMAIN batch = 1..n /\ DOMAIN batch' = 1..(n + 1)
    /\ \A i \in 1..n : batch'[i] = batch[i]
    /\ batch'[n + 1].token = t /\ batch'[n + 1].record = data

(* Where the line is, and where the stream stands after it.                *)
StreamAt(f, p) == \/ f = active_read_file /\ p = read_pos
                  \/ active_read_file = NoFile /\ p = StartOf(f)

LineRead(f, pos, next, eof, data) ==
    /\ \/ f = active_read_file
       \/ active_read_file = NoFile /\ (stored_files[f] > 0 \/ f = active_write_file)
    /\ isTokenAvailable(f) => pos = staged_tokens[f] \/ (pos = Bad /\ StreamAt(f, Bad))
    /\ ~ isTokenAvailable(f) => StreamAt(f, pos)
    /\ \/ /\ next = pos + 1 /\ pos \in Nat /\ next \in DOMAIN content[f]
          /\ data = content[f][next]
          /\ eof <=> next + 1 \notin DOMAIN content[f]
       \/ /\ next = Bad /\ pos + 1 \notin DOMAIN content[f] /\ data = NoRecord
    /\ active_read_file' = IF eof THEN NoFile ELSE f
    /\ read_pos' = IF eof THEN 0 ELSE next

LEMMA ReadTokenLine ==
    ASSUME TInv, Read
    PROVE  /\ Up /\ mode' = mode /\ verdict = "open" /\ UNCHANGED <<diskVars, history>>
           /\ \/ active_write_file' = active_write_file
              \/ \E g \in Path : rotateWriteFile(g)
           /\ \E f \in Path, t \in Token, pos \in Pos, next \in Pos, eof \in BOOLEAN,
                 data \in Record \cup {NoRecord}, n \in Nat :
                /\ TokenRead(f, t, pos, eof, data)
                /\ BatchGrown(n, t, data)
                /\ LineRead(f, pos, next, eof, data)
<1>1. /\ Up /\ mode' = mode /\ verdict = "open" /\ UNCHANGED <<diskVars, history>>
      /\ \/ active_write_file' = active_write_file
         \/ \E g \in Path : rotateWriteFile(g)
  BY ReadCases, ReadReads DEF Read, readActiveFile, readStoredFile, readWriteFile
<1>2. PICK f \in Path, p \in Pos, stored \in [Path -> Nat] :
        /\ ReadLine(f, p, stored) /\ StreamAt(f, p)
        /\ \/ f = active_read_file
           \/ active_read_file = NoFile /\ (stored_files[f] > 0 \/ f = active_write_file)
  BY ReadCases DEF StreamAt, Newest, Held
<1> DEFINE pos  == IF isTokenAvailable(f) /\ p # Bad THEN staged_tokens[f] ELSE p
           size == IF pos = Bad THEN Bad ELSE Len(content[f])
           next == IF pos # Bad /\ pos < size THEN pos + 1 ELSE Bad
           eof  == AtEnd(next, size)
           data == IF next = Bad THEN NoRecord ELSE content[f][next]
           t    == CHOOSE t \in FreshToken : TRUE
<1>3. /\ t \in FreshToken
      /\ createToken(t, f, pos, eof)
      /\ batch' = Append(batch, [token |-> t, record |-> data])
      /\ active_read_file' = IF eof THEN NoFile ELSE f
      /\ read_pos' = IF eof THEN 0 ELSE next
  BY <1>2 DEF ReadLine
<1>4. staged_tokens' = [staged_tokens EXCEPT ![f] = NoPos]
  <2>1. TypeOK
    BY DEF TInv
  <2>2. QED
    BY <1>2, <2>1, ReadLineFacts
<1>5. pos \in Pos /\ eof \in BOOLEAN
  <2>1. staged_tokens[f] \in Pos \cup {NoPos}
    BY FileTypes
  <2>2. QED
    BY <2>1 DEF isTokenAvailable, AtEnd
<1>6. content[f] \in Seq(Record)
  BY ContentTypes
<1>7. /\ next \in Pos /\ data \in Record \cup {NoRecord}
      /\ \/ /\ next = pos + 1 /\ pos \in Nat /\ next \in DOMAIN content[f]
            /\ data = content[f][next]
            /\ eof <=> next + 1 \notin DOMAIN content[f]
         \/ next = Bad /\ pos + 1 \notin DOMAIN content[f] /\ data = NoRecord
  <2>1. PICK len \in Nat : len = Len(content[f]) /\ DOMAIN content[f] = 1..len
    BY <1>6
  <2>2. \A k \in 1..len : content[f][k] \in Record
    BY <1>6, <2>1
  <2>3. CASE pos # Bad /\ pos < len
    <3>1. pos \in Nat /\ next = pos + 1 /\ next # Bad
      BY <1>5, <2>1, <2>3 DEF Pos, Bad
    <3>2. next \in 1..len
      BY <2>1, <2>3, <3>1
    <3>3. eof <=> next + 1 \notin 1..len
      <4>1. eof <=> next >= len
        BY <2>1, <2>3 DEF AtEnd
      <4>2. QED
        BY <2>1, <3>2, <4>1
    <3>4. QED
      BY <2>1, <2>2, <3>1, <3>2, <3>3 DEF Pos
  <2>4. CASE ~ (pos # Bad /\ pos < len)
    <3>1. next = Bad /\ data = NoRecord
      BY <2>1, <2>4
    <3>2. pos + 1 \notin 1..len
      BY <1>5, <2>1, <2>4 DEF Pos, Bad
    <3>3. QED
      BY <2>1, <3>1, <3>2 DEF Pos
  <2>5. QED
    BY <2>3, <2>4
<1>8. LineRead(f, pos, next, eof, data)
  <2>1. isTokenAvailable(f) => pos = staged_tokens[f] \/ (pos = Bad /\ p = Bad)
    OBVIOUS
  <2>2. ~ isTokenAvailable(f) => pos = p
    OBVIOUS
  <2> HIDE DEF pos, size, next, eof, data, t
  <2>3. QED
    BY <1>2, <1>3, <1>7, <2>1, <2>2 DEF LineRead
<1> HIDE DEF pos, size, next, eof, data, t
<1>9. /\ t \in Token /\ ~ Known(t)
      /\ \A i \in DOMAIN batch : batch[i].token # t
      /\ \A g \in Path : ~ Contains(file_tokens[g], t)
  BY <1>3 DEF FreshToken, Unused
<1>10. TokenRead(f, t, pos, eof, data)
  <2>1. /\ token_store'[t] = [file |-> f, pos |-> pos, eof |-> eof]
        /\ \A u \in Token : u # t => token_store'[u] = token_store[u]
        /\ file_tokens[f] \in Seq(Token) /\ file_tokens'[f] = Append(file_tokens[f], t)
        /\ \A g \in Path : g # f => file_tokens'[g] = file_tokens[g]
    BY <1>3, <1>9, FileTypes DEF createToken
  <2>2. /\ staged_tokens'[f] = NoPos
        /\ \A g \in Path : g # f => staged_tokens'[g] = staged_tokens[g]
    BY <1>4, FileTypes
  <2>3. QED
    BY <1>9, <2>1, <2>2 DEF TokenRead
<1>11. BatchGrown(Len(batch), t, data) /\ Len(batch) \in Nat
  <2>1. batch \in Seq(HeldToken)
    BY DEF TInv, TypeOK
  <2>2. QED
    BY <1>3, <2>1 DEF BatchGrown
<1>12. QED
  BY <1>1, <1>5, <1>7, <1>8, <1>9, <1>10, <1>11

(* Lists after a read: only the file's list can get a new head, the token. *)
LEMMA ReadHeads ==
    ASSUME NEW f \in Path, NEW t, NEW pos, NEW eof, NEW data, TokenRead(f, t, pos, eof, data)
    PROVE  /\ Tracked(f)' /\ ~ isTokenAvailable(f)'
           /\ \A g \in Path : Tracked(g) => Tracked(g)'
           /\ \A g \in Path : \A u : IsHead(u, g)' => IsHead(u, g) \/ (g = f /\ u = t /\ ~ Tracked(f))
           /\ \A g \in Path : g # f => /\ isTokenAvailable(g)' <=> isTokenAvailable(g)
                                       /\ Tracked(g)' <=> Tracked(g)
<1>1. file_tokens[f] \in Seq(Token) /\ t \in Token
  BY DEF TokenRead
<1>2. PICK s \in Seq(Token) : s = file_tokens[f]
  BY <1>1
<1>3. PICK r : r = Append(s, t)
  OBVIOUS
<1>4. r # <<>> /\ (s # <<>> => Head(r) = Head(s)) /\ (s = <<>> => Head(r) = t)
  BY <1>1, <1>2, <1>3
<1>5. file_tokens'[f] = r
  BY <1>2, <1>3 DEF TokenRead
<1>6. staged_tokens'[f] = NoPos
  BY DEF TokenRead
<1>7. \A g \in Path : g # f => /\ file_tokens'[g] = file_tokens[g]
                               /\ staged_tokens'[g] = staged_tokens[g]
  BY DEF TokenRead
<1>8. QED
  BY <1>2, <1>4, <1>5, <1>6, <1>7 DEF Tracked, IsHead, isTokenAvailable

(* The tokens held before a read are what they were, and one is new. *)
LEMMA ReadHeld ==
    ASSUME TInv, NEW f \in Path, NEW t, NEW pos, NEW eof, NEW data, NEW n,
           TokenRead(f, t, pos, eof, data), BatchGrown(n, t, data)
    PROVE  /\ n \in Nat /\ n + 1 \in DOMAIN batch'
           /\ \A i \in DOMAIN batch : i \in DOMAIN batch' /\ i \in 1..n /\ batch'[i] = batch[i]
           /\ \A i \in DOMAIN batch : /\ HeldFile(i)' = HeldFile(i) /\ HeldPos(i)' = HeldPos(i)
                                      /\ HeldEof(i)' = HeldEof(i)
                                      /\ Known(batch[i].token)' <=> Known(batch[i].token)
           /\ \A i \in DOMAIN batch' : i \in DOMAIN batch \/ i = n + 1
           /\ HeldFile(n + 1)' = f /\ HeldPos(n + 1)' = pos /\ HeldEof(n + 1)' = eof
           /\ batch'[n + 1].token = t /\ batch'[n + 1].record = data /\ Known(t)'
<1>1. /\ n \in Nat /\ n + 1 \in DOMAIN batch'
      /\ \A i \in DOMAIN batch : i \in DOMAIN batch' /\ i \in 1..n /\ batch'[i] = batch[i]
      /\ \A i \in DOMAIN batch' : i \in DOMAIN batch \/ i = n + 1
      /\ batch'[n + 1].token = t /\ batch'[n + 1].record = data
  BY DEF BatchGrown
<1>2. \A i \in DOMAIN batch : token_store'[batch[i].token] = token_store[batch[i].token]
  BY HeldAreTokens DEF TokenRead
<1>3. token_store'[t] = [file |-> f, pos |-> pos, eof |-> eof]
  BY DEF TokenRead
<1>4. Known(t)'
  BY <1>3, TokenStoreAssumption DEF Known, NoInfo
<1>5. HeldFile(n + 1)' = f /\ HeldPos(n + 1)' = pos /\ HeldEof(n + 1)' = eof
  BY <1>1, <1>3 DEF HeldFile, HeldPos, HeldEof
<1>6. \A i \in DOMAIN batch : /\ HeldFile(i)' = HeldFile(i) /\ HeldPos(i)' = HeldPos(i)
                              /\ HeldEof(i)' = HeldEof(i)
                              /\ Known(batch[i].token)' <=> Known(batch[i].token)
  BY <1>1, <1>2 DEF HeldFile, HeldPos, HeldEof, Known
<1>7. QED
  BY <1>1, <1>4, <1>5, <1>6

(* Before a batch has failed, each file with a token held has its list.    *)
LEMMA HeldAreTracked ==
    ASSUME TokenInv, StagedXorTracked, verdict # "failed"
    PROVE  \A i \in DOMAIN batch : Tracked(HeldFile(i)) /\ ~ isTokenAvailable(HeldFile(i))
<1>1. \A i \in DOMAIN batch : HeldFile(i) \in Path /\ Tracked(HeldFile(i))
  BY DEF TokenInv, HeldAreLive, Live, HeldFile, Tracked, Contains
<1>2. QED
  BY <1>1 DEF StagedXorTracked

LEMMA ReadOrder ==
    ASSUME TInv, TokenInv, StagedXorTracked, OrderInv, Read
    PROVE  OrderInv'
<1>1. PICK f \in Path, t \in Token, pos \in Pos, next \in Pos, eof \in BOOLEAN,
           data \in Record \cup {NoRecord}, n \in Nat :
        /\ TokenRead(f, t, pos, eof, data)
        /\ BatchGrown(n, t, data)
  BY ReadTokenLine
<1>2. /\ n \in Nat /\ n + 1 \in DOMAIN batch'
      /\ \A i \in DOMAIN batch : i \in DOMAIN batch' /\ i \in 1..n /\ batch'[i] = batch[i]
      /\ \A i \in DOMAIN batch : /\ HeldFile(i)' = HeldFile(i)
                                 /\ Known(batch[i].token)' <=> Known(batch[i].token)
      /\ \A i \in DOMAIN batch' : i \in DOMAIN batch \/ i = n + 1
      /\ HeldFile(n + 1)' = f
      /\ batch'[n + 1].token = t /\ Known(t)'
  BY <1>1, ReadHeld
<1>3. /\ Tracked(f)'
      /\ \A g \in Path : Tracked(g) => Tracked(g)'
      /\ \A g \in Path : \A u : IsHead(u, g)' => IsHead(u, g) \/ (g = f /\ u = t /\ ~ Tracked(f))
  BY <1>1, ReadHeads
<1>4. verdict = "open" /\ mode' = mode
  BY ReadTokenLine
<1>5. \A i \in DOMAIN batch : Tracked(HeldFile(i)) /\ HeldFile(i) \in Path
  BY <1>4, HeldAreTracked DEF OrderInv, HeldInFiles
<1>6. \A i \in DOMAIN batch : batch[i].token # t
  BY <1>1 DEF TokenRead
<1>7. KnownHeld'
  BY <1>2 DEF OrderInv, KnownHeld
<1>8. HeldInFiles' /\ TrackedOrStaged'
  BY <1>2, <1>3, <1>5 DEF HeldInFiles, TrackedOrStaged
<1>9. HeadIsFirst'
  <2> SUFFICES ASSUME NEW i \in DOMAIN batch', NEW j \in DOMAIN batch', j < i,
                      NEW u, u = batch'[i].token, NEW g, g = HeldFile(i)',
                      file_tokens'[g] # <<>>, Head(file_tokens'[g]) = u
               PROVE  HeldFile(j)' # g
    BY DEF HeadIsFirst, IsHead, Tracked
  <2>1. j \in DOMAIN batch /\ j \in 1..n /\ IsHead(u, g)'
    BY <1>2 DEF IsHead, Tracked
  <2>2. CASE i \in DOMAIN batch
    <3>1. u = batch[i].token /\ g = HeldFile(i) /\ g \in Path /\ u # t
      BY <1>2, <1>5, <1>6, <2>2
    <3>2. IsHead(batch[i].token, HeldFile(i))
      BY <1>3, <2>1, <3>1
    <3>3. QED
      BY <1>2, <2>1, <2>2, <3>1, <3>2 DEF OrderInv, HeadIsFirst
  <2>3. CASE i = n + 1
    <3>1. IsHead(t, f)' /\ g = f
      BY <1>2, <2>1, <2>3
    <3>2. ~ IsHead(t, f)
      <4>1. f \in Path /\ ~ Contains(file_tokens[f], t) /\ file_tokens[f] \in Seq(Token)
        BY <1>1 DEF TokenRead
      <4>2. file_tokens[f] # <<>> => Head(file_tokens[f]) = file_tokens[f][1]
                                     /\ 1 \in 1..Len(file_tokens[f])
        BY <4>1
      <4>3. QED
        BY <4>1, <4>2 DEF IsHead, Tracked, Contains
    <3>3. ~ Tracked(f)
      BY <1>3, <3>1, <3>2
    <3>4. QED
      BY <1>2, <1>5, <2>1, <2>3, <3>3
  <2>4. QED
    BY <1>2, <2>2, <2>3
<1>10. HeadsAreHeld'
  <2> SUFFICES ASSUME mode' = "up", NEW g \in Path, NEW u \in Token, IsHead(u, g)', Known(u)'
               PROVE  \E i \in DOMAIN batch' : batch'[i].token = u /\ HeldFile(i)' = g
    BY DEF HeadsAreHeld
  <2>1. CASE g = f /\ u = t
    BY <1>2, <2>1
  <2>2. CASE u = t /\ g # f
    <3>1. IsHead(t, g)
      BY <1>3, <2>2
    <3>2. g \in Path /\ ~ Contains(file_tokens[g], t) /\ file_tokens[g] \in Seq(Token)
      BY <1>1, FileTypes DEF TokenRead
    <3>3. file_tokens[g] # <<>> => Head(file_tokens[g]) = file_tokens[g][1]
                                   /\ 1 \in 1..Len(file_tokens[g])
      BY <3>2
    <3>4. QED
      BY <3>1, <3>2, <3>3 DEF IsHead, Tracked, Contains
  <2>3. CASE u # t
    <3>1. IsHead(u, g) /\ Known(u)
      BY <1>1, <1>3, <2>3 DEF TokenRead, Known
    <3>2. PICK i \in DOMAIN batch : batch[i].token = u /\ HeldFile(i) = g
      BY <1>4, <3>1 DEF OrderInv, HeadsAreHeld
    <3>3. QED
      BY <1>2, <3>2
  <2>4. QED
    BY <2>1, <2>2, <2>3
<1>11. QED
  BY <1>7, <1>8, <1>9, <1>10 DEF OrderInv

(* Resolving in order: the first token goes, the others move up by one.    *)
FirstSettled(t) ==
    /\ t \in Token /\ 1 \in DOMAIN batch /\ t = batch[1].token
    /\ \A i \in DOMAIN batch' : /\ i \in Nat \ {0} /\ i + 1 \in DOMAIN batch
                                /\ batch'[i] = batch[i + 1] /\ batch[i + 1].token # t
    /\ \A i \in DOMAIN batch : i # 1 => i \in Nat /\ i - 1 \in DOMAIN batch'
    /\ token_store'[t] = NoInfo
    /\ \A u \in Token : u # t => token_store'[u] = token_store[u]

LEMMA ResolveFirst ==
    ASSUME TInv, TokenInv, OrderInv, InOrder, NEW i, resolveSent(i) \/ resolveFailed(i)
    PROVE  /\ i = 1 /\ Up /\ mode' = mode
           /\ UNCHANGED <<active_write_file, readVars, backup_file, written>>
           /\ FirstSettled(batch[1].token)
<1>1. /\ Settle(i) /\ mode' = mode
      /\ UNCHANGED <<active_write_file, readVars, written>>
  BY DEF resolveSent, resolveFailed, ForgetLine, KeepLine, writeVars, processVars, history
<1>2. i = 1 /\ batch' = RemoveAt(batch, 1) /\ 1 \in DOMAIN batch
  BY <1>1 DEF Settle
<1>3. PICK t \in Token : t = batch[1].token
  BY <1>2, HeldAreTokens
<1>4. Known(t) /\ Up
  BY <1>1, <1>2, <1>3, SettleType DEF OrderInv, KnownHeld, Up
<1>5. token_store' = [token_store EXCEPT ![t] = NoInfo] /\ backup_file' = backup_file
  <2>1. CASE resolveFailed(i)
    BY <1>2, <1>3, <1>4, <2>1 DEF resolveFailed, KeepLine, fail, diskVars
  <2>2. CASE resolveSent(i)
    <3>1. Resolvable(t)
      BY <1>2, <1>3, <2>2, LiveTokensResolve DEF resolveSent, ForgetLine, SentTokensResolve
    <3>2. QED
      BY <1>2, <1>3, <2>2, <3>1 DEF resolveSent, ForgetLine, resolve, deleteFile, diskVars
  <2>3. QED
    BY <2>1, <2>2
<1>6. /\ token_store'[t] = NoInfo
      /\ \A u \in Token : u # t => token_store'[u] = token_store[u]
  BY <1>5, FileTypes
<1>7. PICK n \in Nat : n = Len(batch)
  BY DEF TInv, TypeOK
<1>8. /\ DOMAIN batch = 1..n /\ DOMAIN batch' = 1..(n - 1)
      /\ \A j \in 1..(n - 1) : batch'[j] = batch[j + 1]
  <2>1. batch \in Seq(HeldToken)
    BY DEF TInv, TypeOK
  <2>2. /\ batch' \in Seq(HeldToken) /\ Len(batch') = n - 1
        /\ \A j \in 1..(n - 1) : batch'[j] = IF j < 1 THEN batch[j] ELSE batch[j + 1]
    BY <1>2, <1>7, <2>1, RemoveAtProperties
  <2>3. QED
    BY <1>7, <2>1, <2>2
<1>9. \A j \in DOMAIN batch : j # 1 => batch[j].token # t
  BY <1>2, <1>3 DEF TokenInv, HeldAreDistinct
<1>10. \A j \in DOMAIN batch' : /\ j \in Nat \ {0} /\ j + 1 \in DOMAIN batch
                                /\ batch'[j] = batch[j + 1] /\ batch[j + 1].token # t
  BY <1>7, <1>8, <1>9
<1>11. \A j \in DOMAIN batch : j # 1 => j \in Nat /\ j - 1 \in DOMAIN batch'
  BY <1>7, <1>8
<1>12. FirstSettled(t)
  BY <1>2, <1>3, <1>6, <1>10, <1>11 DEF FirstSettled
<1>13. QED
  BY <1>1, <1>2, <1>3, <1>4, <1>5, <1>12

LEMMA SettledHeld ==
    ASSUME TInv, NEW t, FirstSettled(t)
    PROVE  \A i \in DOMAIN batch' :
             /\ HeldFile(i)' = HeldFile(i + 1) /\ HeldPos(i)' = HeldPos(i + 1)
             /\ HeldEof(i)' = HeldEof(i + 1)
             /\ Known(batch[i].token)' <=> Known(batch[i + 1].token)
<1>1. \A i \in DOMAIN batch' : i + 1 \in DOMAIN batch /\ batch'[i] = batch[i + 1]
                               /\ batch[i + 1].token # t /\ batch[i + 1].token \in Token
  BY HeldAreTokens DEF FirstSettled
<1>2. \A i \in DOMAIN batch' : token_store'[batch'[i].token] = token_store[batch[i + 1].token]
  BY <1>1 DEF FirstSettled
<1>3. QED
  BY <1>1, <1>2 DEF HeldFile, HeldPos, HeldEof, Known

(* What resolve() does to the lists: a failed token takes the list of its  *)
(* file away and stages its position, unless one before it has.            *)
TokenKept(f, pos) ==
    IF Tracked(f)
      THEN /\ staged_tokens' = [staged_tokens EXCEPT ![f] = pos]
           /\ file_tokens' = [file_tokens EXCEPT ![f] = <<>>]
      ELSE UNCHANGED <<staged_tokens, file_tokens>>

LEMMA ResolveLists ==
    ASSUME TInv, TokenInv, OrderInv, NEW i, i = 1, 1 \in DOMAIN batch
    PROVE  /\ resolveSent(i) => UNCHANGED <<staged_tokens, file_tokens>>
           /\ resolveFailed(i) => TokenKept(HeldFile(1), HeldPos(1))
<1>1. Known(batch[1].token) /\ HeldFile(1) \in Path
  BY DEF OrderInv, KnownHeld, HeldInFiles
<1>2. QED
  BY <1>1 DEF resolveSent, resolveFailed, ForgetLine, KeepLine, resolve, fail, tokenVars,
     TokenKept, HeldFile, HeldPos

LEMMA KeptLists ==
    ASSUME TInv, NEW f \in Path, NEW pos, pos # NoPos, TokenKept(f, pos)
    PROVE  /\ ~ Tracked(f)'
           /\ Tracked(f) => isTokenAvailable(f)'
           /\ \A g \in Path : isTokenAvailable(g) => isTokenAvailable(g)'
           /\ \A g \in Path : g # f => /\ staged_tokens'[g] = staged_tokens[g]
                                       /\ file_tokens'[g] = file_tokens[g]
  BY FileTypes DEF TokenKept, Tracked, isTokenAvailable

LEMMA ResolveOrder ==
    ASSUME TInv, TokenInv, OrderInv, InOrder, NEW i, resolveSent(i) \/ resolveFailed(i)
    PROVE  OrderInv'
<1>1. /\ i = 1 /\ mode' = mode
      /\ FirstSettled(batch[1].token)
  BY ResolveFirst
<1>2. PICK t : t = batch[1].token /\ FirstSettled(t)
  BY <1>1
<1>3. \A j \in DOMAIN batch' :
        /\ j \in Nat /\ j + 1 \in DOMAIN batch /\ batch'[j] = batch[j + 1]
        /\ HeldFile(j)' = HeldFile(j + 1)
        /\ Known(batch[j].token)' <=> Known(batch[j + 1].token)
  BY <1>2, SettledHeld DEF FirstSettled
<1>4. /\ \A g \in Path : \A u : IsHead(u, g)' => IsHead(u, g)
      /\ \A g \in Path : Tracked(g) \/ isTokenAvailable(g) => Tracked(g)' \/ isTokenAvailable(g)'
  <2>1. CASE UNCHANGED <<staged_tokens, file_tokens>>
    BY <2>1 DEF IsHead, Tracked, isTokenAvailable
  <2>2. CASE TokenKept(HeldFile(1), HeldPos(1))
    <3>1. PICK f, pos : f \in Path /\ f = HeldFile(1) /\ pos = HeldPos(1)
      BY <1>2 DEF OrderInv, HeldInFiles, FirstSettled
    <3>2. pos # NoPos
      <4>1. token_store[batch[1].token] \in FileTokenInfo \cup {NoInfo}
            /\ token_store[batch[1].token] # NoInfo
        BY <1>2, FileTypes DEF OrderInv, KnownHeld, Known, FirstSettled
      <4>2. HeldPos(1) \in Pos
        BY <4>1 DEF FileTokenInfo, HeldPos
      <4>3. QED
        BY <3>1, <4>2 DEF Pos, Bad, NoPos
    <3>3. TokenKept(f, pos)
      BY <2>2, <3>1
    <3>4. /\ ~ Tracked(f)'
          /\ Tracked(f) => isTokenAvailable(f)'
          /\ \A g \in Path : isTokenAvailable(g) => isTokenAvailable(g)'
          /\ \A g \in Path : g # f => file_tokens'[g] = file_tokens[g]
      BY <3>1, <3>2, <3>3, KeptLists
    <3>5. QED
      BY <3>4 DEF IsHead, Tracked
  <2>3. QED
    BY <1>1, <1>2, <2>1, <2>2, ResolveLists DEF FirstSettled
<1>5. KnownHeld'
  BY <1>3 DEF OrderInv, KnownHeld
<1>6. HeldInFiles' /\ TrackedOrStaged'
  BY <1>3, <1>4 DEF OrderInv, HeldInFiles, TrackedOrStaged
<1>7. HeadIsFirst'
  <2> SUFFICES ASSUME NEW j \in DOMAIN batch', NEW k \in DOMAIN batch', k < j,
                      NEW u, u = batch'[j].token, NEW g, g = HeldFile(j)',
                      file_tokens'[g] # <<>>, Head(file_tokens'[g]) = u
               PROVE  HeldFile(k)' # g
    BY DEF HeadIsFirst, IsHead, Tracked
  <2>1. IsHead(u, g)'
    BY DEF IsHead, Tracked
  <2>2. g \in Path
    BY <1>6 DEF HeldInFiles
  <2>3. u = batch[j + 1].token /\ g = HeldFile(j + 1) /\ IsHead(u, g)
    BY <1>3, <1>4, <2>1, <2>2
  <2>4. k + 1 < j + 1 /\ k + 1 \in DOMAIN batch /\ j + 1 \in DOMAIN batch
    BY <1>3
  <2>5. HeldFile(k + 1) # g
    BY <2>3, <2>4 DEF OrderInv, HeadIsFirst
  <2>6. QED
    BY <1>3, <2>5
<1>8. HeadsAreHeld'
  <2> SUFFICES ASSUME mode' = "up", NEW g \in Path, NEW u \in Token, IsHead(u, g)', Known(u)'
               PROVE  \E j \in DOMAIN batch' : batch'[j].token = u /\ HeldFile(j)' = g
    BY DEF HeadsAreHeld
  <2>1. IsHead(u, g) /\ u # t /\ Known(u)
    BY <1>2, <1>4 DEF FirstSettled, Known
  <2>2. PICK j \in DOMAIN batch : batch[j].token = u /\ HeldFile(j) = g
    BY <1>1, <2>1 DEF OrderInv, HeadsAreHeld
  <2>3. j # 1 /\ j \in Nat /\ j - 1 \in DOMAIN batch'
    BY <1>2, <2>1, <2>2 DEF FirstSettled
  <2>4. (j - 1) + 1 = j
    BY <2>3
  <2>5. QED
    BY <1>3, <2>2, <2>3, <2>4
<1>9. QED
  BY <1>5, <1>6, <1>7, <1>8 DEF OrderInv

(* The backup leaves the tokens held alone. *)
LEMMA ShutdownHeld ==
    ASSUME TInv, KnownHeld, Shutdown
    PROVE  /\ UNCHANGED <<batch, file_tokens, staged_tokens>>
           /\ \A i \in DOMAIN batch : /\ token_store'[batch[i].token] = token_store[batch[i].token]
                                      /\ HeldFile(i)' = HeldFile(i) /\ HeldPos(i)' = HeldPos(i)
                                      /\ HeldEof(i)' = HeldEof(i)
<1>1. \A i \in DOMAIN batch : token_store'[batch[i].token] = token_store[batch[i].token]
  BY HeldAreTokens DEF Shutdown, backupInserts, HeadLost, KnownHeld
<1>2. UNCHANGED <<batch, file_tokens, staged_tokens>>
  BY DEF Shutdown, clientVars, backupInserts
<1>3. QED
  BY <1>1, <1>2 DEF HeldFile, HeldPos, HeldEof

LEMMA OrderInvNext ==
    ASSUME TInv, TokenInv, StagedXorTracked, OrderInv, InOrder, [Next]_vars
    PROVE  OrderInv'
<1>1. CASE UNCHANGED <<tokenVars, batch>> /\ mode' = mode
  BY <1>1 DEF OrderInv, KnownHeld, HeldInFiles, TrackedOrStaged, HeadIsFirst, HeadsAreHeld,
     IsHead, Tracked, isTokenAvailable, Known, HeldFile, tokenVars
<1>2. CASE Shutdown
  <2>1. /\ UNCHANGED <<batch, file_tokens, staged_tokens>> /\ mode' # "up"
        /\ \A i \in DOMAIN batch : /\ HeldFile(i)' = HeldFile(i)
                                   /\ token_store'[batch[i].token] = token_store[batch[i].token]
    BY <1>2, ShutdownHeld DEF Shutdown, OrderInv
  <2>2. QED
    BY <2>1 DEF OrderInv, KnownHeld, HeldInFiles, TrackedOrStaged, HeadIsFirst, HeadsAreHeld,
       IsHead, Tracked, isTokenAvailable, Known
<1>3. CASE Start \/ LoseMemory
  <2>1. batch' = <<>> /\ \A f \in Path : file_tokens'[f] = <<>>
    BY <1>3 DEF Start, restore, LoseMemory, ForgetTokens, clientVars, TInv, ProcessInv
  <2>2. QED
    BY <2>1 DEF OrderInv, KnownHeld, HeldInFiles, TrackedOrStaged, HeadIsFirst, HeadsAreHeld,
       IsHead, Tracked
<1>4. CASE Resolve
  BY <1>4, ResolveOrder DEF Resolve
<1>5. QED
  BY <1>1, <1>2, <1>3, <1>4, ReadOrder
     DEF Next, Write, checkIfWriteFileShouldRotate, checkIfStorageLimitHasBeenReached,
         deleteOldestFile, deleteFromEmptyList, append, Complete, ProcessEnds, vars,
         clientVars, processVars
-----------------------------------------------------------------------------
(* Each record is in one place; and a token held stands for the record     *)
(* that lies behind its position, or for none.                             *)
InOnePlace ==
    \A f, g \in Path : \A k \in DOMAIN content[f], l \in DOMAIN content[g] :
        content[f][k] = content[g][l] => f = g /\ k = l
HeldRecords ==
    \A i \in DOMAIN batch :
        /\ batch[i].record <= written
        /\ \A g \in Path : \A l \in DOMAIN content[g] :
             content[g][l] = batch[i].record <=> g = HeldFile(i) /\ l = HeldPos(i) + 1

(* What lies before a position that is staged or backed up was uploaded;   *)
(* and no backup is of the write file.                                     *)
UploadedTo(f, p)  == \A k \in DOMAIN content[f] : k <= p => content[f][k] \in acked
SavedUploaded     == \A f \in Path : UploadedTo(f, staged_tokens[f]) /\ UploadedTo(f, backup_file[f])
WriteFileNotSaved == active_write_file # NoFile => backup_file[active_write_file] = NoPos

(* What lies before the line of a token held was uploaded or is held       *)
(* before it, and what lies before the stream was uploaded or is held:     *)
(* unless the file is staged, to be read again from there.                 *)
BeforeHeld ==
    \A i \in DOMAIN batch : ~ isTokenAvailable(HeldFile(i)) =>
        \A k \in DOMAIN content[HeldFile(i)] : k <= HeldPos(i) =>
            \/ content[HeldFile(i)][k] \in acked
            \/ \E j \in DOMAIN batch : j < i /\ batch[j].record = content[HeldFile(i)][k]
BeforeRead ==
    \A f \in Path : f = active_read_file /\ ~ isTokenAvailable(f) =>
        \A k \in DOMAIN content[f] : k <= read_pos =>
            \/ content[f][k] \in acked
            \/ \E j \in DOMAIN batch : batch[j].record = content[f][k]

LinesInv == /\ InOnePlace /\ HeldRecords /\ SavedUploaded /\ WriteFileNotSaved
            /\ BeforeHeld /\ BeforeRead
-----------------------------------------------------------------------------
(* A name that a rotation takes is one that nothing in memory, on disk or  *)
(* in the backup mentions.                                                 *)
LEMMA NewNameUnknown ==
    ASSUME TInv, NamesInv, UniqueNames, NEW f,
           NextPath(f, SameSecond) \/ NextPath(f, FastRestart)
    PROVE  f \in Path /\ ~ Mentioned(f)
<1>1. f \in Path /\ f[1] = now + 1
  BY DEF NextPath, UniqueNames
<1>2. ~ (f[1] <= now)
  BY <1>1, FileTypes
<1>3. QED
  BY <1>1, <1>2 DEF NamesInv

LEMMA NewNameNotSaved ==
    ASSUME TInv, NamesInv, UniqueNames, WriteFileNotSaved, UNCHANGED backup_file,
           \/ active_write_file' = active_write_file
           \/ active_write_file' = NoFile
           \/ \E f \in Path : rotateWriteFile(f)
    PROVE  WriteFileNotSaved'
<1>1. CASE \E f \in Path : rotateWriteFile(f)
  <2>1. PICK f \in Path : rotateWriteFile(f)
    BY <1>1
  <2>2. ~ Mentioned(f) /\ active_write_file' = f
    BY <2>1, NewNameUnknown DEF rotateWriteFile
  <2>3. QED
    BY <2>2 DEF Mentioned, WriteFileNotSaved
<1>2. QED
  BY <1>1 DEF WriteFileNotSaved

(* Steps that leave the tokens as they are, and of the contents, too, what *)
(* does not go with its file.                                              *)
LEMMA LinesKept ==
    ASSUME TInv, HeldInFiles, LinesInv,
           UNCHANGED <<tokenVars, batch, backup_file, written, acked>>,
           WriteFileNotSaved',
           \A f \in Path : content'[f] = <<>> \/ content'[f] = content[f],
           UNCHANGED readVars \/ active_read_file' = NoFile
    PROVE  LinesInv'
<1>1. \A f \in Path : \A k \in DOMAIN content'[f] : k \in DOMAIN content[f]
                                                    /\ content'[f] = content[f]
  OBVIOUS
<1>2. /\ \A i \in DOMAIN batch : HeldFile(i)' = HeldFile(i) /\ HeldPos(i)' = HeldPos(i)
      /\ \A f : isTokenAvailable(f)' <=> isTokenAvailable(f)
      /\ staged_tokens' = staged_tokens
  BY DEF HeldFile, HeldPos, isTokenAvailable, tokenVars
<1>3. InOnePlace'
  BY <1>1 DEF LinesInv, InOnePlace
<1>4. HeldRecords'
  BY <1>1, <1>2 DEF LinesInv, HeldRecords
<1>5. SavedUploaded'
  BY <1>1, <1>2 DEF LinesInv, SavedUploaded, UploadedTo
<1>6. BeforeHeld'
  <2> SUFFICES ASSUME NEW i \in DOMAIN batch, NEW f \in Path, f = HeldFile(i),
                      ~ isTokenAvailable(f), NEW k \in DOMAIN content'[f], k <= HeldPos(i)
               PROVE  \/ content'[f][k] \in acked
                      \/ \E j \in DOMAIN batch : j < i /\ batch[j].record = content'[f][k]
    BY <1>2 DEF BeforeHeld, HeldInFiles
  <2>1. k \in DOMAIN content[f] /\ content'[f][k] = content[f][k]
    BY <1>1
  <2>2. QED
    BY <2>1 DEF LinesInv, BeforeHeld
<1>7. BeforeRead'
  <2>1. \A f \in Path : f = active_read_file' => active_read_file' = active_read_file
                                                 /\ read_pos' = read_pos
    BY TokenStoreAssumption DEF readVars
  <2>2. QED
    BY <1>1, <1>2, <2>1 DEF LinesInv, BeforeRead
<1>8. QED
  BY <1>3, <1>4, <1>5, <1>6, <1>7 DEF LinesInv

(* A record is appended to a file to which no token, stream or backup      *)
(* leads.                                                                  *)
LEMMA AppendedRecord ==
    ASSUME TInv, NEW w \in Writer, append(w)
    PROVE  \E a \in Path :
             /\ a = active_write_file /\ Up
             /\ \A f \in Path : f # a => content'[f] = content[f]
             /\ DOMAIN content[a] \subseteq DOMAIN content'[a]
             /\ \A k \in DOMAIN content[a] : content'[a][k] = content[a][k]
             /\ \E l \in DOMAIN content'[a] :
                  /\ content'[a][l] = written + 1 /\ l = Len(content[a]) + 1
                  /\ \A k \in DOMAIN content'[a] : k \in DOMAIN content[a] \/ k = l
<1>1. Up
  BY DEF append, Idle, TInv, ProcessInv, Up
<1>2. PICK a \in Path : a = active_write_file
  BY <1>1, FileTypes
<1>3. content' = [content EXCEPT ![a] = Append(content[a], written + 1)]
  BY <1>2 DEF append
<1>4. /\ \A f \in Path : f # a => content'[f] = content[f]
      /\ content[a] \in Seq(Record)
      /\ content'[a] = Append(content[a], written + 1)
  BY <1>3, ContentTypes
<1>5. PICK n \in Nat : n = Len(content[a]) /\ DOMAIN content[a] = 1..n
  BY <1>4
<1>6. /\ DOMAIN content'[a] = 1..(n + 1) /\ content'[a][n + 1] = written + 1
      /\ \A k \in 1..n : content'[a][k] = content[a][k]
  BY <1>4, <1>5
<1>7. /\ n + 1 \in DOMAIN content'[a] /\ DOMAIN content[a] \subseteq DOMAIN content'[a]
      /\ \A k \in DOMAIN content'[a] : k \in DOMAIN content[a] \/ k = n + 1
  BY <1>5, <1>6
<1>8. QED
  BY <1>1, <1>2, <1>4, <1>5, <1>6, <1>7

LEMMA WriteFileUnused ==
    ASSUME TInv, NamesInv, WriteFileNotSaved, NEW a \in Path, a = active_write_file
    PROVE  /\ \A i \in DOMAIN batch : HeldFile(i) # a
           /\ active_read_file # a /\ staged_tokens[a] = NoPos /\ backup_file[a] = NoPos
           /\ stored_files[a] = 0
<1>1. a # NoFile /\ ~ Used(a)
  BY TokenStoreAssumption DEF NamesInv
<1>2. QED
  BY <1>1, HeldAreTokens, FileTypes DEF Used, HeldFile, isTokenAvailable, WriteFileNotSaved

LEMMA AppendLines ==
    ASSUME TInv, NamesInv, ContentInv, LinesInv, NEW w \in Writer, append(w)
    PROVE  LinesInv'
<1>1. PICK a \in Path :
        /\ a = active_write_file /\ Up
        /\ \A f \in Path : f # a => content'[f] = content[f]
        /\ DOMAIN content[a] \subseteq DOMAIN content'[a]
        /\ \A k \in DOMAIN content[a] : content'[a][k] = content[a][k]
        /\ \E l \in DOMAIN content'[a] :
             /\ content'[a][l] = written + 1
             /\ \A k \in DOMAIN content'[a] : k \in DOMAIN content[a] \/ k = l
  BY AppendedRecord
<1>2. PICK l \in DOMAIN content'[a] :
        /\ content'[a][l] = written + 1
        /\ \A k \in DOMAIN content'[a] : k \in DOMAIN content[a] \/ k = l
  BY <1>1
<1>3. /\ UNCHANGED <<token_store, staged_tokens, batch, backup_file, acked, readVars,
                     active_write_file>>
      /\ written' = written + 1
  BY DEF append, tokenVars, clientVars
<1>4. /\ \A i \in DOMAIN batch : HeldFile(i) # a
      /\ active_read_file # a /\ staged_tokens[a] = NoPos /\ backup_file[a] = NoPos
  BY <1>1, WriteFileUnused DEF LinesInv
<1>5. /\ \A i \in DOMAIN batch : HeldFile(i)' = HeldFile(i) /\ HeldPos(i)' = HeldPos(i)
      /\ \A f : isTokenAvailable(f)' <=> isTokenAvailable(f)
  BY <1>3 DEF HeldFile, HeldPos, isTokenAvailable
<1>6. \A f \in Path : \A k \in DOMAIN content[f] : content[f][k] # written + 1
  BY ContentTypes DEF ContentInv
<1>7. \A f \in Path : \A k \in DOMAIN content'[f] :
        \/ k \in DOMAIN content[f] /\ content'[f][k] = content[f][k]
        \/ f = a /\ k = l /\ content'[f][k] = written + 1
  BY <1>1, <1>2
<1>8. InOnePlace'
  BY <1>6, <1>7 DEF LinesInv, InOnePlace
<1>9. HeldRecords'
  <2>1. \A i \in DOMAIN batch : batch[i].record <= written + 1 /\ batch[i].record # written + 1
    <3>1. \A i \in DOMAIN batch : batch[i].record \in Nat
      <4>1. \A i \in DOMAIN batch : batch[i] \in HeldToken
        BY DEF TInv, TypeOK
      <4>2. Record \cup {NoRecord} \subseteq Nat
        BY StrategyAssumption DEF Record, NoRecord
      <4>3. QED
        BY <4>1, <4>2 DEF HeldToken
    <3>2. QED
      BY <3>1, ContentTypes DEF LinesInv, HeldRecords
  <2>2. QED
    BY <1>3, <1>4, <1>5, <1>7, <2>1 DEF LinesInv, HeldRecords
<1>10. SavedUploaded'
  <2>1. \A k \in DOMAIN content'[a] : ~ (k <= NoPos)
    <3>1. content'[a] = Append(content[a], written + 1) /\ content[a] \in Seq(Record)
      BY <1>1, ContentTypes DEF append
    <3>2. QED
      BY <3>1 DEF NoPos
  <2>2. QED
    BY <1>1, <1>3, <1>4, <2>1 DEF LinesInv, SavedUploaded, UploadedTo
<1>11. WriteFileNotSaved'
  BY <1>3 DEF LinesInv, WriteFileNotSaved
<1>12. BeforeHeld'
  <2>1. \A f : f # a => content'[f] = content[f]
    <3>1. content' = [content EXCEPT ![a] = Append(content[a], written + 1)]
      BY <1>1 DEF append
    <3>2. QED
      BY <3>1, ContentTypes
  <2>2. QED
    BY <1>3, <1>4, <1>5, <2>1 DEF LinesInv, BeforeHeld
<1>13. BeforeRead'
  BY <1>1, <1>3, <1>4, <1>5 DEF LinesInv, BeforeRead, readVars
<1>14. QED
  BY <1>8, <1>9, <1>10, <1>11, <1>12, <1>13 DEF LinesInv

(* Records and lines are counted from one. *)
LEMMA Indices ==
    ASSUME TInv
    PROVE  \A f \in Path : \A k \in DOMAIN content[f] :
             k \in Nat \ {0} /\ content[f][k] \in Record /\ content[f][k] # NoRecord
<1>1. \A f \in Path : content[f] \in Seq(Record)
  BY ContentTypes
<1>2. \A r \in Record : r # NoRecord
  BY StrategyAssumption DEF Record, NoRecord
<1>3. QED
  BY <1>1, <1>2

LEMMA ReadLines ==
    ASSUME TInv, TokenInv, StagedXorTracked, NamesInv, UniqueNames, ContentInv, LinesInv, Read
    PROVE  LinesInv'
<1>1. /\ verdict = "open"
      /\ UNCHANGED <<content, backup_file, acked, written>>
      /\ \/ active_write_file' = active_write_file
         \/ \E g \in Path : rotateWriteFile(g)
  BY ReadTokenLine DEF diskVars, history
<1>2. PICK f \in Path, t \in Token, pos \in Pos, next \in Pos, eof \in BOOLEAN,
           data \in Record \cup {NoRecord}, n \in Nat :
        /\ TokenRead(f, t, pos, eof, data)
        /\ BatchGrown(n, t, data)
        /\ LineRead(f, pos, next, eof, data)
  BY ReadTokenLine
<1>3. /\ \A i \in DOMAIN batch : /\ i \in DOMAIN batch' /\ i \in 1..n /\ batch'[i] = batch[i]
                                 /\ HeldFile(i)' = HeldFile(i) /\ HeldPos(i)' = HeldPos(i)
      /\ \A i \in DOMAIN batch' : i \in DOMAIN batch \/ i = n + 1
      /\ n + 1 \in DOMAIN batch' /\ batch'[n + 1].record = data
      /\ HeldFile(n + 1)' = f /\ HeldPos(n + 1)' = pos
  BY <1>2, ReadHeld
<1>4. \A i \in DOMAIN batch : ~ isTokenAvailable(HeldFile(i))
  BY <1>1, HeldAreTracked
<1>5. /\ staged_tokens'[f] = NoPos
      /\ \A g \in Path : g # f => staged_tokens'[g] = staged_tokens[g]
  BY <1>2 DEF TokenRead
<1>6. /\ \/ /\ next = pos + 1 /\ pos \in Nat /\ next \in DOMAIN content[f]
            /\ data = content[f][next]
         \/ /\ next = Bad /\ pos + 1 \notin DOMAIN content[f] /\ data = NoRecord
      /\ active_read_file' = IF eof THEN NoFile ELSE f
      /\ read_pos' = IF eof THEN 0 ELSE next
  BY <1>2 DEF LineRead
<1>7. \A k \in DOMAIN content[f] : k <= pos =>
        content[f][k] \in acked \/ \E j \in DOMAIN batch : batch[j].record = content[f][k]
  <2> SUFFICES ASSUME NEW k \in DOMAIN content[f], k <= pos
               PROVE  content[f][k] \in acked
                      \/ \E j \in DOMAIN batch : batch[j].record = content[f][k]
    OBVIOUS
  <2>1. pos # Bad /\ pos # StartOf(f) /\ pos \in Nat
    BY Indices DEF Bad, StartOf, Pos
  <2>2. CASE isTokenAvailable(f)
    <3>1. pos = staged_tokens[f]
      BY <1>2, <2>1, <2>2 DEF LineRead
    <3>2. QED
      BY <3>1 DEF LinesInv, SavedUploaded, UploadedTo
  <2>3. CASE ~ isTokenAvailable(f)
    <3>1. f = active_read_file /\ pos = read_pos
      BY <1>2, <2>1, <2>3 DEF LineRead, StreamAt
    <3>2. QED
      BY <2>3, <3>1 DEF LinesInv, BeforeRead
  <2>4. QED
    BY <2>2, <2>3
<1>8. InOnePlace'
  BY <1>1 DEF LinesInv, InOnePlace
<1>9. HeldRecords'
  <2>1. data <= written
    BY <1>6, ContentTypes DEF ContentInv, NoRecord
  <2>2. \A g \in Path : \A l \in DOMAIN content[g] :
          content[g][l] = data <=> g = f /\ l = pos + 1
    <3>1. CASE next = pos + 1 /\ next \in DOMAIN content[f] /\ data = content[f][next]
      BY <3>1 DEF LinesInv, InOnePlace
    <3>2. CASE pos + 1 \notin DOMAIN content[f] /\ data = NoRecord
      BY <3>2, Indices
    <3>3. QED
      BY <1>6, <3>1, <3>2
  <2>3. QED
    BY <1>1, <1>3, <2>1, <2>2 DEF LinesInv, HeldRecords
<1>10. SavedUploaded'
  <2>1. UploadedTo(f, NoPos)
    BY Indices DEF UploadedTo, NoPos
  <2>2. \A g \in Path : UploadedTo(g, staged_tokens'[g]) /\ UploadedTo(g, backup_file'[g])
    BY <1>1, <1>5, <2>1 DEF LinesInv, SavedUploaded
  <2>3. QED
    BY <1>1, <2>2 DEF SavedUploaded, UploadedTo
<1>11. WriteFileNotSaved'
  BY <1>1, NewNameNotSaved DEF LinesInv
<1>12. BeforeHeld'
  <2> SUFFICES ASSUME NEW i \in DOMAIN batch', NEW g, g = HeldFile(i)',
                      NEW k \in DOMAIN content[g], k <= HeldPos(i)'
               PROVE  \/ content[g][k] \in acked
                      \/ \E j \in DOMAIN batch' : j < i /\ batch'[j].record = content[g][k]
    BY <1>1 DEF BeforeHeld
  <2>1. CASE i \in DOMAIN batch
    <3>1. g = HeldFile(i) /\ k <= HeldPos(i)
      BY <1>3, <2>1
    <3>2. \/ content[g][k] \in acked
          \/ \E j \in DOMAIN batch : j < i /\ batch[j].record = content[g][k]
      BY <1>4, <2>1, <3>1 DEF LinesInv, BeforeHeld
    <3>3. QED
      BY <1>3, <3>2
  <2>2. CASE i = n + 1
    <3>1. g = f /\ k <= pos
      BY <1>3, <2>2
    <3>2. \A j \in DOMAIN batch : j < i /\ j \in DOMAIN batch' /\ batch'[j] = batch[j]
      BY <1>3, <2>2
    <3>3. QED
      BY <1>7, <3>1, <3>2
  <2>3. QED
    BY <1>3, <2>1, <2>2
<1>13. BeforeRead'
  <2> SUFFICES ASSUME NEW g \in Path, g = active_read_file',
                      NEW k \in DOMAIN content[g], k <= read_pos'
               PROVE  \/ content[g][k] \in acked
                      \/ \E j \in DOMAIN batch' : batch'[j].record = content[g][k]
    BY <1>1 DEF BeforeRead
  <2>1. g = f /\ k <= next
    BY <1>6, TokenStoreAssumption
  <2>2. next = pos + 1 /\ pos \in Nat /\ data = content[f][next] /\ k \in Nat
    BY <1>6, <2>1, Indices DEF Bad
  <2>3. CASE k = next
    BY <1>3, <2>1, <2>2, <2>3
  <2>4. CASE k <= pos
    BY <1>3, <1>7, <2>1, <2>4
  <2>5. QED
    BY <2>1, <2>2, <2>3, <2>4
<1>14. QED
  BY <1>8, <1>9, <1>10, <1>11, <1>12, <1>13 DEF LinesInv

(* A token resolved as sent: its record was uploaded now. *)
LEMMA SentLines ==
    ASSUME TInv, TokenInv, ContentInv, OrderInv, LinesInv, InOrder, NEW i, resolveSent(i)
    PROVE  LinesInv'
<1>1. /\ i = 1 /\ UNCHANGED <<active_write_file, readVars, backup_file, written>>
      /\ FirstSettled(batch[1].token)
  BY ResolveFirst
<1>2. PICK t : t = batch[1].token /\ FirstSettled(t)
  BY <1>1
<1>3. /\ \A j \in DOMAIN batch' :
           /\ j \in Nat /\ j + 1 \in DOMAIN batch /\ batch'[j] = batch[j + 1]
           /\ HeldFile(j)' = HeldFile(j + 1) /\ HeldPos(j)' = HeldPos(j + 1)
      /\ \A j \in DOMAIN batch : j # 1 => j \in Nat /\ j - 1 \in DOMAIN batch'
                                          /\ batch'[j - 1] = batch[j]
  <2>1. \A j \in DOMAIN batch : j # 1 => j \in Nat /\ j - 1 \in DOMAIN batch' /\ (j - 1) + 1 = j
    BY <1>2 DEF FirstSettled
  <2>2. QED
    BY <1>2, <2>1, SettledHeld DEF FirstSettled
<1>4. UNCHANGED <<staged_tokens, file_tokens>>
  BY <1>1, <1>2, ResolveLists DEF FirstSettled
<1>5. \A f \in Path : content'[f] = <<>> \/ content'[f] = content[f]
  <2>1. content' = content \/ \E f : deleteFile(f)
    BY DEF resolveSent, ForgetLine, diskVars
  <2>2. QED
    BY <2>1, DeleteFileContent
<1>6. \A f \in Path : \A k \in DOMAIN content'[f] : k \in DOMAIN content[f]
                                                    /\ content'[f] = content[f]
  BY <1>5
<1>7. acked \subseteq acked' /\ (batch[1].record # NoRecord => batch[1].record \in acked')
  BY <1>1 DEF resolveSent
<1>8. InOnePlace'
  BY <1>6 DEF LinesInv, InOnePlace
<1>9. HeldRecords'
  BY <1>1, <1>3, <1>6 DEF LinesInv, HeldRecords
<1>10. SavedUploaded'
  BY <1>1, <1>4, <1>6, <1>7 DEF LinesInv, SavedUploaded, UploadedTo
<1>11. WriteFileNotSaved'
  BY <1>1 DEF LinesInv, WriteFileNotSaved
<1>12. BeforeHeld'
  <2> SUFFICES ASSUME NEW j \in DOMAIN batch', NEW f, f = HeldFile(j)',
                      ~ isTokenAvailable(f)', NEW k \in DOMAIN content'[f], k <= HeldPos(j)'
               PROVE  \/ content'[f][k] \in acked'
                      \/ \E l \in DOMAIN batch' : l < j /\ batch'[l].record = content'[f][k]
    BY DEF BeforeHeld, isTokenAvailable
  <2>1. f = HeldFile(j + 1) /\ f \in Path /\ k <= HeldPos(j + 1) /\ ~ isTokenAvailable(f)
    BY <1>3, <1>4 DEF OrderInv, HeldInFiles, isTokenAvailable
  <2>2. k \in DOMAIN content[f] /\ content'[f][k] = content[f][k] /\ content[f][k] # NoRecord
    BY <1>6, <2>1, Indices
  <2>3. \/ content[f][k] \in acked
        \/ \E l \in DOMAIN batch : l < j + 1 /\ batch[l].record = content[f][k]
    BY <1>3, <2>1, <2>2 DEF LinesInv, BeforeHeld
  <2>4. ASSUME NEW l \in DOMAIN batch, l < j + 1, batch[l].record = content[f][k]
        PROVE  \/ content'[f][k] \in acked'
               \/ \E m \in DOMAIN batch' : m < j /\ batch'[m].record = content'[f][k]
    <3>1. CASE l = 1
      BY <1>7, <2>2, <2>4, <3>1
    <3>2. CASE l # 1
      <4>1. l - 1 \in DOMAIN batch' /\ batch'[l - 1] = batch[l] /\ l - 1 < j
        BY <1>3, <2>4, <3>2
      <4>2. QED
        BY <2>2, <2>4, <4>1
    <3>3. QED
      BY <3>1, <3>2
  <2>5. QED
    BY <1>7, <2>2, <2>3, <2>4
<1>13. BeforeRead'
  <2> SUFFICES ASSUME NEW f \in Path, f = active_read_file', ~ isTokenAvailable(f)',
                      NEW k \in DOMAIN content'[f], k <= read_pos'
               PROVE  \/ content'[f][k] \in acked'
                      \/ \E l \in DOMAIN batch' : batch'[l].record = content'[f][k]
    BY DEF BeforeRead, isTokenAvailable
  <2>1. f = active_read_file /\ k <= read_pos /\ ~ isTokenAvailable(f)
    BY <1>1, <1>4 DEF isTokenAvailable, readVars
  <2>2. k \in DOMAIN content[f] /\ content'[f][k] = content[f][k] /\ content[f][k] # NoRecord
    BY <1>6, Indices
  <2>3. \/ content[f][k] \in acked
        \/ \E l \in DOMAIN batch : batch[l].record = content[f][k]
    BY <2>1, <2>2 DEF LinesInv, BeforeRead
  <2>4. QED
    BY <1>3, <1>7, <2>2, <2>3
<1>14. QED
  BY <1>8, <1>9, <1>10, <1>11, <1>12, <1>13 DEF LinesInv

(* A token resolved as failed: its file is read again from its line on.    *)
LEMMA FailedLines ==
    ASSUME TInv, TokenInv, StagedXorTracked, OrderInv, LinesInv, InOrder,
           NEW i, resolveFailed(i)
    PROVE  LinesInv'
<1>1. /\ i = 1 /\ UNCHANGED <<active_write_file, readVars, backup_file, written>>
      /\ UNCHANGED <<content, acked>>
      /\ FirstSettled(batch[1].token)
  BY ResolveFirst DEF resolveFailed, diskVars, history
<1>2. PICK t : t = batch[1].token /\ FirstSettled(t)
  BY <1>1
<1>3. /\ 1 \in DOMAIN batch
      /\ \A j \in DOMAIN batch' :
           /\ j \in Nat /\ j + 1 \in DOMAIN batch /\ batch'[j] = batch[j + 1]
           /\ HeldFile(j)' = HeldFile(j + 1) /\ HeldPos(j)' = HeldPos(j + 1)
      /\ \A j \in DOMAIN batch : j # 1 => j \in Nat /\ j - 1 \in DOMAIN batch'
                                          /\ batch'[j - 1] = batch[j]
  <2>1. \A j \in DOMAIN batch : j # 1 => j \in Nat /\ j - 1 \in DOMAIN batch' /\ (j - 1) + 1 = j
    BY <1>2 DEF FirstSettled
  <2>2. QED
    BY <1>2, <2>1, SettledHeld DEF FirstSettled
<1>4. PICK f \in Path, pos \in Pos : f = HeldFile(1) /\ pos = HeldPos(1)
  <2>1. HeldFile(1) \in Path
    BY <1>3 DEF OrderInv, HeldInFiles
  <2>2. token_store[batch[1].token] \in FileTokenInfo \cup {NoInfo}
        /\ token_store[batch[1].token] # NoInfo
    BY <1>3, FileTypes, HeldAreTokens DEF OrderInv, KnownHeld, Known
  <2>3. HeldPos(1) \in Pos
    BY <2>2 DEF FileTokenInfo, HeldPos
  <2>4. QED
    BY <2>1, <2>3
<1>5. TokenKept(f, pos)
  BY <1>1, <1>3, <1>4, ResolveLists
<1>6. /\ isTokenAvailable(f)'
      /\ \A g \in Path : isTokenAvailable(g) => isTokenAvailable(g)'
      /\ \A g \in Path : g # f => staged_tokens'[g] = staged_tokens[g]
  <2>1. Tracked(f) \/ isTokenAvailable(f)
    BY <1>3, <1>4 DEF OrderInv, TrackedOrStaged
  <2>2. pos # NoPos
    BY DEF Pos, Bad, NoPos
  <2>3. QED
    BY <1>5, <2>1, <2>2, KeptLists
<1>7. (staged_tokens'[f] = pos /\ Tracked(f)) \/ staged_tokens'[f] = staged_tokens[f]
  BY <1>5, FileTypes DEF TokenKept
<1>8. \A g \in Path : \A k \in DOMAIN content[g] : batch[1].record = content[g][k] => g = f
  BY <1>3, <1>4 DEF LinesInv, HeldRecords
<1>9. InOnePlace'
  BY <1>1 DEF LinesInv, InOnePlace
<1>10. HeldRecords'
  BY <1>1, <1>3 DEF LinesInv, HeldRecords
<1>11. SavedUploaded'
  <2>1. Tracked(f) => UploadedTo(f, pos)
    <3> SUFFICES ASSUME Tracked(f), NEW k \in DOMAIN content[f], k <= pos
                 PROVE  content[f][k] \in acked
      BY DEF UploadedTo
    <3>1. ~ isTokenAvailable(f)
      BY DEF StagedXorTracked
    <3>2. \/ content[f][k] \in acked
          \/ \E j \in DOMAIN batch : j < 1 /\ batch[j].record = content[f][k]
      BY <1>3, <1>4, <3>1 DEF LinesInv, BeforeHeld
    <3>3. \A j \in DOMAIN batch : ~ (j < 1)
      <4>1. batch \in Seq(HeldToken)
        BY DEF TInv, TypeOK
      <4>2. QED
        BY <4>1
    <3>4. QED
      BY <3>2, <3>3
  <2>2. \A g \in Path : UploadedTo(g, staged_tokens'[g]) /\ UploadedTo(g, backup_file'[g])
    BY <1>1, <1>6, <1>7, <2>1 DEF LinesInv, SavedUploaded
  <2>3. QED
    BY <1>1, <2>2 DEF SavedUploaded, UploadedTo
<1>12. WriteFileNotSaved'
  BY <1>1 DEF LinesInv, WriteFileNotSaved
<1>13. BeforeHeld'
  <2> SUFFICES ASSUME NEW j \in DOMAIN batch', NEW g, g = HeldFile(j)',
                      ~ isTokenAvailable(g)', NEW k \in DOMAIN content[g], k <= HeldPos(j)'
               PROVE  \/ content[g][k] \in acked
                      \/ \E l \in DOMAIN batch' : l < j /\ batch'[l].record = content[g][k]
    BY <1>1 DEF BeforeHeld, isTokenAvailable
  <2>1. g = HeldFile(j + 1) /\ g \in Path /\ k <= HeldPos(j + 1)
    BY <1>3 DEF OrderInv, HeldInFiles
  <2>2. g # f /\ ~ isTokenAvailable(g)
    BY <1>6, <2>1
  <2>3. \/ content[g][k] \in acked
        \/ \E l \in DOMAIN batch : l < j + 1 /\ batch[l].record = content[g][k]
    BY <1>3, <2>1, <2>2 DEF LinesInv, BeforeHeld
  <2>4. ASSUME NEW l \in DOMAIN batch, l < j + 1, batch[l].record = content[g][k]
        PROVE  \E m \in DOMAIN batch' : m < j /\ batch'[m].record = content[g][k]
    <3>1. l # 1
      BY <1>8, <2>1, <2>2, <2>4
    <3>2. l - 1 \in DOMAIN batch' /\ batch'[l - 1] = batch[l] /\ l - 1 < j
      BY <1>3, <2>4, <3>1
    <3>3. QED
      BY <2>4, <3>2
  <2>5. QED
    BY <2>3, <2>4
<1>14. BeforeRead'
  <2> SUFFICES ASSUME NEW g \in Path, g = active_read_file', ~ isTokenAvailable(g)',
                      NEW k \in DOMAIN content[g], k <= read_pos'
               PROVE  \/ content[g][k] \in acked
                      \/ \E l \in DOMAIN batch' : batch'[l].record = content[g][k]
    BY <1>1 DEF BeforeRead, isTokenAvailable
  <2>1. g # f /\ ~ isTokenAvailable(g) /\ g = active_read_file /\ k <= read_pos
    BY <1>1, <1>6 DEF readVars
  <2>2. \/ content[g][k] \in acked
        \/ \E l \in DOMAIN batch : batch[l].record = content[g][k]
    BY <2>1 DEF LinesInv, BeforeRead
  <2>3. QED
    BY <1>3, <1>8, <2>1, <2>2
<1>15. QED
  BY <1>9, <1>10, <1>11, <1>12, <1>13, <1>14 DEF LinesInv

(* The position that a backup has for a file is staged, or it is that of   *)
(* the head of its list, which stands for the first line held of it.       *)
LEMMA BackupPosition ==
    ASSUME TInv, OrderInv, mode = "up", NEW f \in Path
    PROVE  \/ backup[f] = staged_tokens[f] /\ (~ Tracked(f) \/ HeadLost(f))
           \/ \E i \in DOMAIN batch :
                /\ backup[f] = HeldPos(i) /\ HeldFile(i) = f /\ Tracked(f)
                /\ \A j \in DOMAIN batch : j < i => HeldFile(j) # f
<1>1. CASE ~ Tracked(f) \/ HeadLost(f)
  BY <1>1 DEF backup
<1>2. CASE Tracked(f) /\ ~ HeadLost(f)
  <2>1. PICK t : t = Head(file_tokens[f])
    OBVIOUS
  <2>2. t \in Token
    BY <1>2, <2>1, FileTypes DEF Tracked
  <2>3. IsHead(t, f) /\ Known(t) /\ backup[f] = token_store[t].pos
    BY <1>2, <2>1 DEF IsHead, HeadLost, backup
  <2>4. PICK i \in DOMAIN batch : batch[i].token = t /\ HeldFile(i) = f
    BY <2>2, <2>3 DEF OrderInv, HeadsAreHeld
  <2>5. \A j \in DOMAIN batch : j < i => HeldFile(j) # f
    BY <2>3, <2>4 DEF OrderInv, HeadIsFirst
  <2>6. QED
    BY <1>2, <2>3, <2>4, <2>5 DEF HeldPos
<1>3. QED
  BY <1>1, <1>2

LEMMA ShutdownLines ==
    ASSUME TInv, StagedXorTracked, NamesInv, OrderInv, LinesInv, Shutdown
    PROVE  LinesInv'
<1>1. /\ mode = "up" /\ backup_file' = backup
      /\ UNCHANGED <<content, acked, written, active_write_file, readVars, batch, staged_tokens>>
      /\ \A i \in DOMAIN batch : HeldFile(i)' = HeldFile(i) /\ HeldPos(i)' = HeldPos(i)
  BY ShutdownHeld DEF Shutdown, OrderInv, writeVars, history
<1>2. \A f : isTokenAvailable(f)' <=> isTokenAvailable(f)
  BY <1>1 DEF isTokenAvailable
<1>3. InOnePlace'
  BY <1>1 DEF LinesInv, InOnePlace
<1>4. HeldRecords'
  BY <1>1 DEF LinesInv, HeldRecords
<1>5. SavedUploaded'
  <2>1. ASSUME NEW f \in Path, NEW i \in DOMAIN batch, HeldFile(i) = f, Tracked(f),
               \A j \in DOMAIN batch : j < i => HeldFile(j) # f
        PROVE  UploadedTo(f, HeldPos(i))
    <3> SUFFICES ASSUME NEW k \in DOMAIN content[f], k <= HeldPos(i)
                 PROVE  content[f][k] \in acked
      BY DEF UploadedTo
    <3>1. ~ isTokenAvailable(f)
      BY <2>1 DEF StagedXorTracked
    <3>2. \/ content[f][k] \in acked
          \/ \E j \in DOMAIN batch : j < i /\ batch[j].record = content[f][k]
      BY <2>1, <3>1 DEF LinesInv, BeforeHeld
    <3>3. \A j \in DOMAIN batch : batch[j].record = content[f][k] => HeldFile(j) = f
      BY DEF LinesInv, HeldRecords
    <3>4. QED
      BY <2>1, <3>2, <3>3
  <2>2. \A f \in Path : UploadedTo(f, backup[f])
    BY <1>1, <2>1, BackupPosition DEF LinesInv, SavedUploaded
  <2>3. QED
    BY <1>1, <2>2 DEF LinesInv, SavedUploaded, UploadedTo
<1>6. WriteFileNotSaved'
  <2>1. PICK a \in Path : a = active_write_file
    BY <1>1, FileTypes DEF Up
  <2>2. staged_tokens[a] = NoPos /\ ~ Tracked(a)
    BY <2>1, TokenStoreAssumption DEF NamesInv, Used, isTokenAvailable
  <2>3. backup[a] = NoPos
    BY <2>2 DEF backup
  <2>4. QED
    BY <1>1, <2>1, <2>3 DEF WriteFileNotSaved
<1>7. BeforeHeld'
  BY <1>1, <1>2 DEF LinesInv, BeforeHeld
<1>8. BeforeRead'
  BY <1>1, <1>2 DEF LinesInv, BeforeRead, readVars
<1>9. QED
  BY <1>3, <1>4, <1>5, <1>6, <1>7, <1>8 DEF LinesInv

(* A process starts on what is saved, and leaves nothing but that.         *)
LEMMA BoundaryLines ==
    ASSUME TInv, NamesInv, FilesInv, LinesInv,
           Start \/ (LoseMemory /\ UNCHANGED <<diskVars, history>>)
    PROVE  LinesInv'
<1>1. UNCHANGED <<content, acked, written>> /\ batch' = <<>> /\ active_read_file' = NoFile
  BY DEF Start, LoseMemory, diskVars, history, readVars, clientVars, TInv, ProcessInv,
     FilesInv, Exclusive
<1>2. \A f \in Path : /\ staged_tokens'[f] \in {backup_file[f], NoPos}
                      /\ backup_file'[f] \in {backup_file[f], NoPos}
  BY DEF Start, restore, LoseMemory, ForgetTokens, diskVars
<1>3. \A f \in Path : UploadedTo(f, NoPos)
  BY Indices DEF UploadedTo, NoPos
<1>4. SavedUploaded'
  <2>1. \A f \in Path : UploadedTo(f, staged_tokens'[f]) /\ UploadedTo(f, backup_file'[f])
    BY <1>2, <1>3 DEF LinesInv, SavedUploaded
  <2>2. QED
    BY <1>1, <2>1 DEF SavedUploaded, UploadedTo
<1>5. WriteFileNotSaved'
  <2>1. CASE LoseMemory
    BY <2>1 DEF LoseMemory, WriteFileNotSaved
  <2>2. CASE Start
    BY <2>2 DEF Start, WriteFileNotSaved
  <2>3. QED
    BY <2>1, <2>2
<1>6. InOnePlace'
  BY <1>1 DEF LinesInv, InOnePlace
<1>7. HeldRecords' /\ BeforeHeld'
  BY <1>1 DEF HeldRecords, BeforeHeld
<1>8. BeforeRead'
  BY <1>1, TokenStoreAssumption DEF BeforeRead
<1>9. QED
  BY <1>4, <1>5, <1>6, <1>7, <1>8 DEF LinesInv

LEMMA LinesInvNext ==
    ASSUME TInv, TokenInv, StagedXorTracked, FilesInv, UniqueNames, ContentInv, OrderInv,
           LinesInv, InOrder, [Next]_vars
    PROVE  LinesInv'
<1>1. NamesInv /\ HeldInFiles
  BY DEF FilesInv, OrderInv
<1>2. CASE UNCHANGED <<tokenVars, batch, backup_file, written, acked, content>>
           /\ UNCHANGED readVars
           /\ \/ active_write_file' = active_write_file
              \/ \E f \in Path : rotateWriteFile(f)
  <2>1. WriteFileNotSaved'
    BY <1>1, <1>2, NewNameNotSaved DEF LinesInv
  <2>2. QED
    BY <1>1, <1>2, <2>1, LinesKept
<1>3. ASSUME NEW w \in Writer, deleteOldestFile(w)
      PROVE  LinesInv'
  <2>1. PICK d : deleteFile(d)
    BY <1>3 DEF deleteOldestFile
  <2>2. \A f \in Path : content'[f] = <<>> \/ content'[f] = content[f]
    BY <2>1, DeleteFileContent
  <2>3. /\ UNCHANGED <<tokenVars, batch, backup_file, written, acked>>
        /\ active_write_file' = active_write_file
        /\ UNCHANGED readVars \/ active_read_file' = NoFile
    BY <1>3, <2>1 DEF deleteOldestFile, deleteFile, clientVars, writeVars, diskVars
  <2>4. WriteFileNotSaved'
    BY <1>1, <2>3, NewNameNotSaved DEF LinesInv
  <2>5. QED
    BY <1>1, <2>2, <2>3, <2>4, LinesKept
<1>4. CASE Complete \/ UNCHANGED vars
  BY <1>2, <1>4 DEF Complete, vars, diskVars, writeVars, clientVars, history
<1>5. ASSUME NEW w \in Writer, Write(w)
      PROVE  LinesInv'
  <2>1. CASE checkIfWriteFileShouldRotate(w)
    BY <1>2, <2>1 DEF checkIfWriteFileShouldRotate, diskVars, writeVars, clientVars, history
  <2>2. CASE checkIfStorageLimitHasBeenReached(w)
    BY <1>2, <2>2 DEF checkIfStorageLimitHasBeenReached, diskVars, writeVars, clientVars, history
  <2>3. CASE deleteFromEmptyList(w)
    BY <1>1, <2>3, BoundaryLines DEF deleteFromEmptyList
  <2>4. QED
    BY <1>1, <1>3, <1>5, <2>1, <2>2, <2>3, AppendLines DEF Write
<1>6. CASE Resolve
  BY <1>6, SentLines, FailedLines DEF Resolve
<1>7. CASE Start \/ ProcessEnds
  BY <1>1, <1>7, BoundaryLines DEF ProcessEnds
<1>8. QED
  BY <1>1, <1>4, <1>5, <1>6, <1>7, ReadLines, ShutdownLines DEF Next
-----------------------------------------------------------------------------
(* A set of positions has a least one, and a set of indices a first.       *)
LEMMA FirstOf ==
    ASSUME NEW S \in SUBSET Nat, S # {}
    PROVE  \E i \in S : \A j \in S : ~ (j < i)
<1>1. IsWellFoundedOn(OpToRel(<, Nat), Nat)
  BY NatLessThanWellFounded, Zenon
<1>2. \E i \in S : \A j \in S : ~ (<<j, i>> \in OpToRel(<, Nat))
  BY <1>1, WFMin, Zenon
<1>3. \A j, i \in S : j < i => <<j, i>> \in OpToRel(<, Nat)
  BY DEF OpToRel
<1>4. QED
  BY <1>2, <1>3

LEMMA LeastPosition ==
    ASSUME NEW S \in SUBSET Pos, S # {}
    PROVE  Least(S) \in S /\ \A q \in S : Least(S) <= q
<1>1. PICK T : T = {p + 1 : p \in S}
  OBVIOUS
<1>2. T \in SUBSET Nat /\ T # {}
  <2>1. \A p \in S : p + 1 \in Nat
    BY DEF Pos, Bad
  <2>2. QED
    BY <1>1, <2>1
<1>3. PICK i \in T : \A j \in T : ~ (j < i)
  BY <1>2, FirstOf
<1>4. PICK p \in S : i = p + 1
  BY <1>1, <1>3
<1>5. \A q \in S : p <= q
  <2>1. \A q \in S : q + 1 \in T /\ q \in Int
    BY <1>1 DEF Pos, Bad
  <2>2. QED
    BY <1>3, <1>4, <2>1
<1>6. QED
  BY <1>5 DEF Least

(* The positions that Resume chooses from, spelled out.                    *)
LEMMA ResumePositionsAre ==
    ASSUME TInv, KnownHeld, NEW f \in Path
    PROVE  /\ ResumePositions(f) \subseteq Pos
           /\ \A p : p \in ResumePositions(f) <=>
                \/ \E i \in DOMAIN batch : HeldFile(i) = f /\ HeldPos(i) = p
                \/ isTokenAvailable(f) /\ p = staged_tokens[f]
                \/ f = active_read_file /\ ~ isTokenAvailable(f) /\ p = read_pos
<1>1. \A p : p \in ResumePositions(f) <=>
                \/ \E i \in DOMAIN batch : HeldFile(i) = f /\ HeldPos(i) = p
                \/ isTokenAvailable(f) /\ p = staged_tokens[f]
                \/ f = active_read_file /\ ~ isTokenAvailable(f) /\ p = read_pos
  BY DEF ResumePositions, OutstandingPos, HeldFile, HeldPos, isTokenAvailable
<1>2. \A i \in DOMAIN batch : HeldPos(i) \in Pos
  <2>1. \A i \in DOMAIN batch : token_store[batch[i].token] \in FileTokenInfo
    BY FileTypes, HeldAreTokens DEF KnownHeld, Known
  <2>2. QED
    BY <2>1 DEF FileTokenInfo, HeldPos
<1>3. staged_tokens[f] \in Pos \cup {NoPos} /\ read_pos \in Pos
  BY FileTypes DEF TInv, TypeOK
<1>4. QED
  BY <1>1, <1>2, <1>3 DEF isTokenAvailable

LEMMA ResumeIsLeast ==
    ASSUME TInv, KnownHeld, Up, NEW f \in Path
    PROVE  /\ Resume(f) \in Int
           /\ ResumePositions(f) = {} => Resume(f) = 0
           /\ ResumePositions(f) # {} => Resume(f) \in ResumePositions(f)
           /\ \A p \in ResumePositions(f) : Resume(f) <= p
<1>1. ResumePositions(f) \in SUBSET Pos
  BY ResumePositionsAre
<1>2. CASE ResumePositions(f) = {}
  BY <1>2 DEF Resume, Up
<1>3. CASE ResumePositions(f) # {}
  <2>1. Resume(f) = Least(ResumePositions(f))
    BY <1>3 DEF Resume, Up
  <2>2. QED
    BY <1>1, <1>3, <2>1, LeastPosition DEF Pos, Bad
<1>4. QED
  BY <1>2, <1>3

LEMMA NothingBeforeResume ==
    ASSUME TInv, OrderInv, LinesInv
    PROVE  \A f \in Path : \A k \in DOMAIN content[f] : k <= Resume(f) => content[f][k] \in acked
<1> SUFFICES ASSUME NEW f \in Path, NEW k \in DOMAIN content[f], k <= Resume(f)
             PROVE  content[f][k] \in acked
  OBVIOUS
<1>1. k \in Nat \ {0} /\ \A j \in DOMAIN batch : batch[j].record = content[f][k] => HeldFile(j) = f
  BY Indices DEF LinesInv, HeldRecords
<1>2. CASE mode = "down"
  <2>1. k <= backup_file[f]
    BY <1>1, <1>2 DEF Resume
  <2>2. QED
    BY <2>1 DEF LinesInv, SavedUploaded, UploadedTo
<1>3. CASE Up
  <2>1. /\ KnownHeld /\ Resume(f) \in Int
        /\ ResumePositions(f) \subseteq Pos
        /\ \A p \in ResumePositions(f) : Resume(f) <= p
    BY <1>3, ResumeIsLeast, ResumePositionsAre DEF OrderInv
  <2>2. \A p \in ResumePositions(f) : k <= p
    <3>1. \A p \in Pos : p \in Int
      BY DEF Pos, Bad
    <3>2. QED
      BY <1>1, <2>1, <3>1
  <2>3. CASE isTokenAvailable(f)
    <3>1. staged_tokens[f] \in ResumePositions(f)
      BY <2>1, <2>3, ResumePositionsAre
    <3>2. QED
      BY <2>2, <3>1 DEF LinesInv, SavedUploaded, UploadedTo
  <2>4. CASE ~ isTokenAvailable(f) /\ \E i \in DOMAIN batch : HeldFile(i) = f
    <3>1. PICK S : S = {i \in DOMAIN batch : HeldFile(i) = f}
      OBVIOUS
    <3>2. S \in SUBSET Nat /\ S # {}
      <4>1. DOMAIN batch \subseteq Nat
        <5>1. batch \in Seq(HeldToken)
          BY DEF TInv, TypeOK
        <5>2. QED
          BY <5>1
      <4>2. QED
        BY <2>4, <3>1, <4>1
    <3>3. PICK i \in S : \A j \in S : ~ (j < i)
      BY <3>2, FirstOf
    <3>4. k <= HeldPos(i)
      BY <2>1, <2>2, <3>1, <3>3, ResumePositionsAre
    <3>5. \/ content[f][k] \in acked
          \/ \E j \in DOMAIN batch : j < i /\ batch[j].record = content[f][k]
      BY <2>4, <3>1, <3>3, <3>4 DEF LinesInv, BeforeHeld
    <3>6. QED
      BY <1>1, <3>1, <3>3, <3>5
  <2>5. CASE ~ isTokenAvailable(f) /\ ~ \E i \in DOMAIN batch : HeldFile(i) = f
    <3>1. ResumePositions(f) # {}
      BY <1>1, <1>3, <2>1, ResumeIsLeast
    <3>2. f = active_read_file /\ read_pos \in ResumePositions(f)
      BY <2>1, <2>5, <3>1, ResumePositionsAre
    <3>3. \/ content[f][k] \in acked
          \/ \E j \in DOMAIN batch : batch[j].record = content[f][k]
      BY <2>2, <2>5, <3>2 DEF LinesInv, BeforeRead
    <3>4. QED
      BY <1>1, <2>5, <3>3
  <2>6. QED
    BY <2>3, <2>4, <2>5
<1>4. QED
  BY <1>2, <1>3 DEF Up

(* All that the storage needs to know of itself. *)
StorageInv == TokenInv /\ StagedXorTracked /\ FilesInv /\ ContentInv /\ OrderInv /\ LinesInv

LEMMA StorageInvInit == Init => StorageInv
<1>1. Init => TokenInv /\ StagedXorTracked /\ ContentInv
  BY DEF Init, TokenInv, HeldAreLive, HeldAreDistinct, ContentInv, EmptyTokenStore,
     StagedXorTracked, isTokenAvailable, Tracked
<1>2. Init => OrderInv
  BY DEF Init, OrderInv, KnownHeld, HeldInFiles, TrackedOrStaged, HeadIsFirst, HeadsAreHeld
<1>3. Init => LinesInv
  BY TokenStoreAssumption DEF Init, LinesInv, InOnePlace, HeldRecords, SavedUploaded, UploadedTo,
     WriteFileNotSaved, BeforeHeld, BeforeRead
<1>4. QED
  BY <1>1, <1>2, <1>3, FilesInvInit DEF StorageInv

LEMMA StorageInvNext ==
    ASSUME TInv, StorageInv, InOrder, UniqueNames, [Next]_vars
    PROVE  StorageInv'
<1>1. TokenInv' /\ StagedXorTracked' /\ OrderInv'
  BY TokenInvNext, StagedXorTrackedNext, OrderInvNext DEF StorageInv
<1>2. FilesInv'
  BY FilesInvNext DEF StorageInv
<1>3. ContentInv'
  BY ContentInvNext DEF StorageInv, FilesInv
<1>4. LinesInv'
  BY LinesInvNext DEF StorageInv
<1>5. QED
  BY <1>1, <1>2, <1>3, <1>4 DEF StorageInv

(* What the reader has left behind was uploaded: whatever was staged,      *)
(* backed up, lost in a crash, deleted or read again in between, no line   *)
(* is passed over.  The hypotheses: a batch is resolved in the order it    *)
(* was read, as MetricFileManager does, and no two files are named in one  *)
(* second (TokenStore::fail, backup, restore, read, resolve).              *)
THEOREM NoLineIsSkipped ==
    ASSUME InOrder, UniqueNames
    PROVE  Spec => []NothingSkipped
<1>1. TInv /\ StorageInv /\ [Next]_vars => StorageInv'
  BY StorageInvNext
<1>2. TInv /\ StorageInv => NothingSkipped
  BY NothingBeforeResume DEF StorageInv, NothingSkipped
<1>3. QED
  BY <1>1, <1>2, StorageInvInit, TInvHolds, PTL DEF Spec
-----------------------------------------------------------------------------
(* Where reading of a file with lines goes on: each position is that of a  *)
(* line; the lines held ascend and lack none up to the stream or the last  *)
(* line; what is staged comes before them, the stream behind; and while a  *)
(* process runs, what the backup has is not behind any of them.            *)
AtPos(f, p) ==
    \/ \E i \in DOMAIN batch : HeldFile(i) = f /\ HeldPos(i) = p
    \/ isTokenAvailable(f) /\ p = staged_tokens[f]
    \/ f = active_read_file /\ ~ isTokenAvailable(f) /\ p = read_pos
LineAt(f, p) == p + 1 \in DOMAIN content[f]

AtLines(f) ==
    /\ \A i \in DOMAIN batch : HeldFile(i) = f => LineAt(f, HeldPos(i))
    /\ isTokenAvailable(f) => LineAt(f, staged_tokens[f])
    /\ f = active_read_file => LineAt(f, read_pos)
    /\ backup_file[f] # NoPos => LineAt(f, backup_file[f])
HeldAscend(f) ==
    \A i, j \in DOMAIN batch : HeldFile(i) = f /\ HeldFile(j) = f /\ i < j =>
        HeldPos(i) < HeldPos(j) /\ ~ HeldEof(i)
StagedIsFirst(f) ==
    \A i \in DOMAIN batch : HeldFile(i) = f /\ isTokenAvailable(f) => staged_tokens[f] <= HeldPos(i)
StreamIsLast(f) ==
    \A i \in DOMAIN batch : HeldFile(i) = f /\ f = active_read_file /\ ~ isTokenAvailable(f) =>
        HeldPos(i) < read_pos
NextFollows(f) ==
    \A i \in DOMAIN batch : HeldFile(i) = f /\ ~ isTokenAvailable(f) /\ ~ HeldEof(i) =>
        AtPos(f, HeldPos(i) + 1)
LastIsLast(f) ==
    \A i \in DOMAIN batch : HeldFile(i) = f /\ HeldEof(i) => ~ LineAt(f, HeldPos(i) + 1)
SavedIsFirst(f) ==
    Up /\ backup_file[f] # NoPos =>
        (\E p : AtPos(f, p)) /\ \A p : AtPos(f, p) => backup_file[f] <= p

Placed(f) == /\ AtLines(f) /\ HeldAscend(f) /\ StagedIsFirst(f) /\ StreamIsLast(f)
             /\ NextFollows(f) /\ LastIsLast(f) /\ SavedIsFirst(f)
PlacesInv == \A f \in Path : content[f] # <<>> => Placed(f)
-----------------------------------------------------------------------------
(* A step that leaves f alone: the lines held of it are some that were     *)
(* held of it, in their order, the i-th then being the m[i]-th before; or  *)
(* they are all of these.                                                  *)
LessAt(f, m) ==
    /\ content'[f] = content[f] /\ staged_tokens'[f] = staged_tokens[f]
    /\ backup_file'[f] = backup_file[f]
    /\ f = active_read_file' <=> f = active_read_file
    /\ f = active_read_file => read_pos' = read_pos
    /\ \A i \in DOMAIN batch' : HeldFile(i)' = f =>
         /\ m[i] \in DOMAIN batch /\ HeldFile(m[i]) = f
         /\ HeldPos(m[i]) = HeldPos(i)' /\ HeldEof(m[i]) = HeldEof(i)'
    /\ \A i, j \in DOMAIN batch' : HeldFile(i)' = f /\ HeldFile(j)' = f /\ i < j => m[i] < m[j]
AllAt(f) ==
    \A i \in DOMAIN batch : HeldFile(i) = f =>
        \E j \in DOMAIN batch' : HeldFile(j)' = f /\ HeldPos(j)' = HeldPos(i)

LEMMA LessPlaces ==
    ASSUME NEW f, NEW m, LessAt(f, m), Placed(f)
    PROVE  /\ isTokenAvailable(f)' <=> isTokenAvailable(f)
           /\ \A p : AtPos(f, p)' => AtPos(f, p)
           /\ AtLines(f)' /\ HeldAscend(f)' /\ StagedIsFirst(f)' /\ StreamIsLast(f)'
           /\ LastIsLast(f)'
<1>1. isTokenAvailable(f)' <=> isTokenAvailable(f)
  BY DEF LessAt, isTokenAvailable
<1>2. \A i \in DOMAIN batch' : HeldFile(i)' = f =>
         /\ m[i] \in DOMAIN batch /\ HeldFile(m[i]) = f
         /\ HeldPos(m[i]) = HeldPos(i)' /\ HeldEof(m[i]) = HeldEof(i)'
  BY DEF LessAt
<1>3. \A p : AtPos(f, p)' => AtPos(f, p)
  BY <1>1, <1>2 DEF LessAt, AtPos
<1>4. AtLines(f)'
  <2>1. /\ \A i \in DOMAIN batch' : HeldFile(i)' = f => LineAt(f, HeldPos(i)')
        /\ isTokenAvailable(f) => LineAt(f, staged_tokens[f])
        /\ f = active_read_file => LineAt(f, read_pos)
        /\ backup_file[f] # NoPos => LineAt(f, backup_file[f])
    BY <1>2 DEF Placed, AtLines
  <2>2. content'[f] = content[f]
    BY DEF LessAt
  <2>3. QED
    BY <1>1, <2>1, <2>2 DEF LessAt, AtLines, LineAt
<1>5. HeldAscend(f)'
  <2>1. \A i, j \in DOMAIN batch' : HeldFile(i)' = f /\ HeldFile(j)' = f /\ i < j => m[i] < m[j]
    BY DEF LessAt
  <2>2. QED
    BY <1>2, <2>1 DEF Placed, HeldAscend
<1>6. StagedIsFirst(f)' /\ StreamIsLast(f)'
  BY <1>1, <1>2 DEF LessAt, Placed, StagedIsFirst, StreamIsLast
<1>7. LastIsLast(f)'
  <2>1. \A i \in DOMAIN batch' : HeldFile(i)' = f /\ HeldEof(i)' => ~ LineAt(f, HeldPos(i)' + 1)
    BY <1>2 DEF Placed, LastIsLast
  <2>2. content'[f] = content[f]
    BY DEF LessAt
  <2>3. QED
    BY <2>1, <2>2 DEF LastIsLast, LineAt
<1>8. QED
  BY <1>1, <1>3, <1>4, <1>5, <1>6, <1>7

LEMMA SamePositions ==
    ASSUME NEW f, NEW m, LessAt(f, m), AllAt(f)
    PROVE  \A p : AtPos(f, p)' <=> AtPos(f, p)
<1>1. isTokenAvailable(f)' <=> isTokenAvailable(f)
  BY DEF LessAt, isTokenAvailable
<1>2. \A p : (\E i \in DOMAIN batch' : HeldFile(i)' = f /\ HeldPos(i)' = p)
               <=> \E i \in DOMAIN batch : HeldFile(i) = f /\ HeldPos(i) = p
  BY DEF LessAt, AllAt
<1>3. QED
  BY <1>1, <1>2 DEF LessAt, AtPos

LEMMA SamePlaces ==
    ASSUME NEW f, NEW m, LessAt(f, m), AllAt(f), Placed(f), Up' => Up
    PROVE  Placed(f)'
<1>1. /\ isTokenAvailable(f)' <=> isTokenAvailable(f)
      /\ AtLines(f)' /\ HeldAscend(f)' /\ StagedIsFirst(f)' /\ StreamIsLast(f)' /\ LastIsLast(f)'
  BY LessPlaces
<1>2. \A p : AtPos(f, p)' <=> AtPos(f, p)
  BY SamePositions
<1>3. NextFollows(f)'
  <2> SUFFICES ASSUME NEW i \in DOMAIN batch', HeldFile(i)' = f, ~ isTokenAvailable(f)',
                      ~ HeldEof(i)', NEW p, p = HeldPos(i)' + 1
               PROVE  AtPos(f, p)'
    BY DEF NextFollows, AtPos
  <2>1. AtPos(f, p)
    BY <1>1 DEF LessAt, Placed, NextFollows
  <2>2. QED
    BY <1>2, <2>1
<1>4. SavedIsFirst(f)'
  BY <1>2 DEF LessAt, Placed, SavedIsFirst
<1>5. QED
  BY <1>1, <1>3, <1>4 DEF Placed

(* Three ways to leave f alone: the tokens are as they were; one of        *)
(* another file is new; the first, of another file, is resolved.           *)
AloneButHeld(f) ==
    /\ content'[f] = content[f] /\ staged_tokens'[f] = staged_tokens[f]
    /\ backup_file'[f] = backup_file[f]
    /\ f = active_read_file' <=> f = active_read_file
    /\ f = active_read_file => read_pos' = read_pos

LEMMA QuietAlone ==
    ASSUME NEW f, AloneButHeld(f), UNCHANGED <<token_store, batch>>
    PROVE  \E m : LessAt(f, m) /\ AllAt(f)
<1>1. PICK m : m = [i \in DOMAIN batch |-> i]
  OBVIOUS
<1>2. LessAt(f, m) /\ AllAt(f)
  BY <1>1 DEF AloneButHeld, LessAt, AllAt, HeldFile, HeldPos, HeldEof
<1>3. QED
  BY <1>2

LEMMA ReadAlone ==
    ASSUME TInv, NEW f, AloneButHeld(f), NEW g \in Path, g # f,
           NEW t, NEW pos, NEW eof, NEW data, NEW n,
           TokenRead(g, t, pos, eof, data), BatchGrown(n, t, data)
    PROVE  \E m : LessAt(f, m) /\ AllAt(f)
<1>1. PICK m : m = [i \in DOMAIN batch' |-> i]
  OBVIOUS
<1>2. /\ \A i \in DOMAIN batch : i \in DOMAIN batch'
      /\ \A i \in DOMAIN batch : /\ HeldFile(i)' = HeldFile(i) /\ HeldPos(i)' = HeldPos(i)
                                 /\ HeldEof(i)' = HeldEof(i)
      /\ \A i \in DOMAIN batch' : i \in DOMAIN batch \/ HeldFile(i)' = g
  BY ReadHeld
<1>3. LessAt(f, m) /\ AllAt(f)
  BY <1>1, <1>2 DEF AloneButHeld, LessAt, AllAt
<1>4. QED
  BY <1>3

LEMMA ResolveAlone ==
    ASSUME TInv, NEW f, AloneButHeld(f), NEW t, FirstSettled(t)
    PROVE  \E m : /\ LessAt(f, m) /\ (HeldFile(1) # f => AllAt(f))
                  /\ \A i \in DOMAIN batch' : m[i] = i + 1
<1>1. PICK m : m = [i \in DOMAIN batch' |-> i + 1]
  OBVIOUS
<1>2. /\ \A i \in DOMAIN batch' : i \in Nat /\ i + 1 \in DOMAIN batch
      /\ \A i \in DOMAIN batch' : /\ HeldFile(i)' = HeldFile(i + 1) /\ HeldPos(i)' = HeldPos(i + 1)
                                  /\ HeldEof(i)' = HeldEof(i + 1)
  BY SettledHeld DEF FirstSettled
<1>3. \A i \in DOMAIN batch : i # 1 => i - 1 \in DOMAIN batch' /\ (i - 1) + 1 = i
  BY DEF FirstSettled
<1>4. LessAt(f, m)
  BY <1>1, <1>2 DEF AloneButHeld, LessAt
<1>5. HeldFile(1) # f => AllAt(f)
  <2> SUFFICES ASSUME HeldFile(1) # f, NEW i \in DOMAIN batch, HeldFile(i) = f
               PROVE  \E j \in DOMAIN batch' : HeldFile(j)' = f /\ HeldPos(j)' = HeldPos(i)
    BY DEF AllAt
  <2>1. PICK j : j = i - 1
    OBVIOUS
  <2>2. j \in DOMAIN batch' /\ j + 1 = i
    BY <1>3, <2>1
  <2>3. QED
    BY <1>2, <2>2
<1>6. QED
  BY <1>1, <1>4, <1>5

LEMMA LastOf ==
    ASSUME NEW n \in Nat, NEW S \in SUBSET (1..n), S # {}
    PROVE  \E i \in S : \A j \in S : j <= i
<1>1. PICK T : T = {n - i : i \in S}
  OBVIOUS
<1>2. T \in SUBSET Nat /\ T # {}
  <2>1. \A i \in S : n - i \in Nat
    OBVIOUS
  <2>2. QED
    BY <1>1, <2>1
<1>3. PICK k \in T : \A j \in T : ~ (j < k)
  BY <1>2, FirstOf
<1>4. PICK i \in S : k = n - i
  BY <1>1, <1>3
<1>5. \A j \in S : j <= i
  <2>1. \A j \in S : n - j \in T
    BY <1>1
  <2>2. QED
    BY <1>3, <1>4, <2>1
<1>6. QED
  BY <1>5

(* A file that is neither staged nor being read has no lines held, unless  *)
(* its last line is held.                                                  *)
LEMMA HeldToTheEnd ==
    ASSUME TInv, NEW f \in Path, Placed(f), ~ isTokenAvailable(f), f # active_read_file,
           \E i \in DOMAIN batch : HeldFile(i) = f
    PROVE  LastLineKnown(f)
<1>1. PICK n \in Nat : DOMAIN batch = 1..n
  BY DEF TInv, TypeOK
<1>2. PICK S : S = {i \in DOMAIN batch : HeldFile(i) = f}
  OBVIOUS
<1>3. PICK i \in S : \A j \in S : j <= i
  <2>1. S \in SUBSET (1..n) /\ S # {}
    BY <1>1, <1>2
  <2>2. QED
    BY <2>1, LastOf
<1>4. HeldEof(i)
  <2> SUFFICES ASSUME ~ HeldEof(i)
               PROVE  FALSE
    OBVIOUS
  <2>1. AtPos(f, HeldPos(i) + 1)
    BY <1>2 DEF Placed, NextFollows
  <2>2. PICK j \in S : HeldPos(j) = HeldPos(i) + 1
    BY <1>2, <2>1 DEF AtPos
  <2>3. HeldPos(i) \in Int
    <3>1. HeldPos(i) + 1 \in DOMAIN content[f]
      BY <1>2 DEF Placed, AtLines, LineAt
    <3>2. token_store[batch[i].token] \in FileTokenInfo \cup {NoInfo}
      BY <1>2, FileTypes, HeldAreTokens
    <3>3. QED
      BY <3>2 DEF HeldPos, FileTokenInfo, NoInfo, Pos, Bad, NoPos
  <2>4. j # i /\ j <= i
    BY <1>3, <2>2, <2>3
  <2>5. HeldPos(j) < HeldPos(i)
    <3>1. j < i
      BY <1>1, <1>2, <2>4
    <3>2. QED
      BY <1>2, <3>1 DEF Placed, HeldAscend
  <2>6. QED
    BY <2>2, <2>3, <2>5
<1>5. batch[i].token \in Token
  BY <1>2, HeldAreTokens
<1>6. QED
  BY <1>2, <1>4, <1>5 DEF LastLineKnown, EofOf, HeldFile, HeldEof

LEMMA HeldPosType ==
    ASSUME TInv
    PROVE  \A i \in DOMAIN batch : HeldPos(i) \in Int
<1>1. \A i \in DOMAIN batch : token_store[batch[i].token] \in FileTokenInfo \cup {NoInfo}
  BY FileTypes, HeldAreTokens
<1>2. QED
  BY <1>1 DEF HeldPos, FileTokenInfo, NoInfo, Pos, Bad, NoPos

(* The line a read takes from a file with lines: it is one, and it is      *)
(* behind those that are held.                                             *)
LEMMA ReadPlace ==
    ASSUME TInv, TokenInv, StagedXorTracked, FilesInv, ContentInv, verdict = "open",
           NEW f \in Path, content[f] # <<>>, Placed(f),
           NEW pos, NEW next, NEW eof \in BOOLEAN, NEW data, LineRead(f, pos, next, eof, data)
    PROVE  /\ LineAt(f, pos) /\ pos \in Nat /\ next = pos + 1
           /\ eof <=> ~ LineAt(f, next)
           /\ \A i \in DOMAIN batch : HeldFile(i) = f =>
                /\ HeldPos(i) < pos /\ ~ HeldEof(i)
                /\ f = active_read_file /\ read_pos = pos /\ ~ isTokenAvailable(f)
           /\ AtPos(f, pos) \/ (pos = 0 /\ \A p : ~ AtPos(f, p))
<1>1. StartOf(f) = 0 /\ LineAt(f, 0) /\ ~ LineAt(f, Bad)
  <2>1. f \in files
    BY DEF ContentInv
  <2>2. content[f] \in Seq(Record)
    BY ContentTypes
  <2>3. QED
    BY <2>1, <2>2 DEF StartOf, LineAt, Bad
<1>2. f # NoFile
  BY TokenStoreAssumption
<1>3. LineAt(f, pos)
  <2>1. \A p : StreamAt(f, p) => LineAt(f, p)
    BY <1>1 DEF StreamAt, Placed, AtLines
  <2>2. QED
    BY <1>1, <2>1 DEF LineRead, Placed, AtLines
<1>4. /\ next = pos + 1 /\ pos \in Nat /\ next \in DOMAIN content[f]
      /\ eof <=> next + 1 \notin DOMAIN content[f]
  BY <1>3 DEF LineRead, LineAt
<1>5. \A i \in DOMAIN batch : HeldFile(i) = f => ~ isTokenAvailable(f)
  BY HeldAreTracked
<1>6. ASSUME active_read_file = NoFile, ~ isTokenAvailable(f), NEW i \in DOMAIN batch
      PROVE  HeldFile(i) # f
  <2>1. stored_files[f] > 0 \/ f = active_write_file
    BY <1>2, <1>6 DEF LineRead
  <2>2. ~ LastLineKnown(f)
    BY <1>2, <2>1, FileTypes DEF FilesInv, Exclusive
  <2>3. QED
    BY <1>2, <1>6, <2>2, HeldToTheEnd
<1>7. ASSUME NEW i \in DOMAIN batch, HeldFile(i) = f
      PROVE  /\ HeldPos(i) < pos /\ ~ HeldEof(i)
             /\ f = active_read_file /\ read_pos = pos /\ ~ isTokenAvailable(f)
  <2>1. ~ isTokenAvailable(f) /\ f = active_read_file
    BY <1>5, <1>6, <1>7 DEF LineRead
  <2>2. pos = read_pos
    BY <1>2, <2>1 DEF LineRead, StreamAt
  <2>3. HeldPos(i) < pos
    BY <1>7, <2>1, <2>2 DEF Placed, StreamIsLast
  <2>4. ~ HeldEof(i)
    <3>1. ~ LastLineKnown(f)
      BY <2>1 DEF FilesInv, Exclusive
    <3>2. QED
      BY <1>7, <3>1, HeldAreTokens DEF LastLineKnown, EofOf, HeldFile, HeldEof
  <2>5. QED
    BY <2>1, <2>2, <2>3, <2>4
<1>8. AtPos(f, pos) \/ (pos = 0 /\ \A p : ~ AtPos(f, p))
  <2>1. CASE isTokenAvailable(f)
    <3>1. pos = staged_tokens[f]
      BY <1>4, <2>1 DEF LineRead, Bad
    <3>2. QED
      BY <2>1, <3>1 DEF AtPos
  <2>2. CASE ~ isTokenAvailable(f) /\ f = active_read_file
    <3>1. pos = read_pos
      BY <1>2, <2>2 DEF LineRead, StreamAt
    <3>2. QED
      BY <2>2, <3>1 DEF AtPos
  <2>3. CASE ~ isTokenAvailable(f) /\ f # active_read_file
    <3>1. active_read_file = NoFile /\ pos = 0
      BY <1>1, <2>3 DEF LineRead, StreamAt
    <3>2. QED
      BY <1>6, <2>3, <3>1 DEF AtPos
  <2>4. QED
    BY <2>1, <2>2, <2>3
<1>9. QED
  BY <1>3, <1>4, <1>7, <1>8 DEF LineAt

LEMMA ReadPlaces ==
    ASSUME TInv, TokenInv, StagedXorTracked, FilesInv, ContentInv, PlacesInv, Read
    PROVE  PlacesInv'
<1>1. verdict = "open" /\ Up /\ UNCHANGED <<content, backup_file>>
  BY ReadTokenLine DEF diskVars
<1>2. PICK f \in Path, t \in Token, pos \in Pos, next \in Pos, eof \in BOOLEAN,
           data \in Record \cup {NoRecord}, n \in Nat :
        /\ TokenRead(f, t, pos, eof, data)
        /\ BatchGrown(n, t, data)
        /\ LineRead(f, pos, next, eof, data)
  BY ReadTokenLine
<1>3. /\ f = active_read_file \/ active_read_file = NoFile
      /\ active_read_file' = IF eof THEN NoFile ELSE f
      /\ read_pos' = IF eof THEN 0 ELSE next
  BY <1>2 DEF LineRead
<1>4. ASSUME NEW g \in Path, g # f, content[g] # <<>>
      PROVE  Placed(g)'
  <2>1. AloneButHeld(g)
    BY <1>1, <1>2, <1>3, <1>4, TokenStoreAssumption DEF TokenRead, AloneButHeld
  <2>2. PICK m : LessAt(g, m) /\ AllAt(g)
    BY <1>2, <1>4, <2>1, ReadAlone
  <2>3. QED
    BY <1>1, <1>4, <2>2, SamePlaces DEF PlacesInv
<1>5. ASSUME content[f] # <<>>
      PROVE  Placed(f)'
  <2>1. Placed(f)
    BY <1>5 DEF PlacesInv
  <2>2. /\ LineAt(f, pos) /\ pos \in Nat /\ next = pos + 1
        /\ eof <=> ~ LineAt(f, next)
        /\ \A i \in DOMAIN batch : HeldFile(i) = f =>
             /\ HeldPos(i) < pos /\ ~ HeldEof(i)
             /\ f = active_read_file /\ read_pos = pos /\ ~ isTokenAvailable(f)
        /\ AtPos(f, pos) \/ (pos = 0 /\ \A p : ~ AtPos(f, p))
    BY <1>1, <1>2, <1>5, <2>1, ReadPlace
  <2>3. /\ \A i \in DOMAIN batch : i \in DOMAIN batch' /\ i \in 1..n
        /\ \A i \in DOMAIN batch : /\ HeldFile(i)' = HeldFile(i) /\ HeldPos(i)' = HeldPos(i)
                                   /\ HeldEof(i)' = HeldEof(i)
        /\ \A i \in DOMAIN batch' : i \in DOMAIN batch \/ i = n + 1
        /\ n + 1 \in DOMAIN batch'
        /\ HeldFile(n + 1)' = f /\ HeldPos(n + 1)' = pos /\ HeldEof(n + 1)' = eof
    BY <1>2, ReadHeld
  <2>4. staged_tokens'[f] = NoPos /\ ~ isTokenAvailable(f)'
    BY <1>2 DEF TokenRead, isTokenAvailable
  <2>5. f = active_read_file' <=> ~ eof
    BY <1>3, TokenStoreAssumption
  <2>6. \A p : LineAt(f, p)' <=> LineAt(f, p)
    BY <1>1 DEF LineAt
  <2>7. \A i \in DOMAIN batch : HeldPos(i) \in Int
    BY HeldPosType
  <2>8. \A p : AtPos(f, p)' => AtPos(f, p) \/ p = pos \/ p = pos + 1
    BY <1>3, <2>2, <2>3, <2>4, <2>5 DEF AtPos
  <2>9. AtPos(f, pos)'
    BY <2>3 DEF AtPos
  <2>10. AtLines(f)'
    <3>1. \A i \in DOMAIN batch' : HeldFile(i)' = f => LineAt(f, HeldPos(i)')
      BY <2>1, <2>2, <2>3 DEF Placed, AtLines
    <3>2. f = active_read_file' => LineAt(f, read_pos')
      BY <1>3, <2>2, <2>5
    <3>3. backup_file[f] # NoPos => LineAt(f, backup_file[f])
      BY <2>1 DEF Placed, AtLines
    <3>4. QED
      BY <1>1, <2>4, <3>1, <3>2, <3>3 DEF AtLines, LineAt
  <2>11. HeldAscend(f)'
    <3> SUFFICES ASSUME NEW i \in DOMAIN batch', NEW j \in DOMAIN batch', i < j,
                        HeldFile(i)' = f, HeldFile(j)' = f
                 PROVE  HeldPos(i)' < HeldPos(j)' /\ ~ HeldEof(i)'
      BY DEF HeldAscend
    <3>1. i \in DOMAIN batch
      BY <2>3
    <3>2. CASE j \in DOMAIN batch
      BY <2>1, <2>3, <3>1, <3>2 DEF Placed, HeldAscend
    <3>3. CASE j = n + 1
      BY <2>2, <2>3, <3>1, <3>3
    <3>4. QED
      BY <2>3, <3>2, <3>3
  <2>12. StagedIsFirst(f)'
    BY <2>4 DEF StagedIsFirst
  <2>13. StreamIsLast(f)'
    <3>1. \A i \in DOMAIN batch' : HeldFile(i)' = f => HeldPos(i)' < pos + 1
      BY <2>2, <2>3, <2>7
    <3>2. QED
      BY <1>3, <2>2, <2>5, <3>1 DEF StreamIsLast
  <2>14. NextFollows(f)'
    <3> SUFFICES ASSUME NEW i \in DOMAIN batch', HeldFile(i)' = f, ~ HeldEof(i)',
                        NEW p, p = HeldPos(i)' + 1
                 PROVE  AtPos(f, p)'
      BY DEF NextFollows, AtPos
    <3>1. CASE i = n + 1
      BY <1>3, <2>2, <2>3, <2>4, <2>5, <3>1 DEF AtPos
    <3>2. CASE i \in DOMAIN batch
      <4>1. HeldFile(i) = f /\ ~ HeldEof(i) /\ p = HeldPos(i) + 1
        BY <2>3, <3>2
      <4>2. AtPos(f, p) /\ ~ isTokenAvailable(f) /\ read_pos = pos
        BY <2>1, <2>2, <3>2, <4>1 DEF Placed, NextFollows
      <4>3. p = pos \/ \E j \in DOMAIN batch : HeldFile(j) = f /\ HeldPos(j) = p
        BY <4>2 DEF AtPos
      <4>4. QED
        BY <2>3, <2>9, <4>3 DEF AtPos
    <3>3. QED
      BY <2>3, <3>1, <3>2
  <2>15. LastIsLast(f)'
    <3>1. \A i \in DOMAIN batch' : HeldFile(i)' = f /\ HeldEof(i)' => ~ LineAt(f, HeldPos(i)' + 1)
      BY <2>2, <2>3
    <3>2. QED
      BY <1>1, <3>1 DEF LastIsLast, LineAt
  <2>16. SavedIsFirst(f)'
    <3> SUFFICES ASSUME backup_file[f] # NoPos, NEW p, AtPos(f, p)'
                 PROVE  backup_file[f] <= p
      BY <1>1, <2>9 DEF SavedIsFirst
    <3>1. backup_file[f] \in Int
      BY FileTypes DEF Pos, Bad, NoPos
    <3>2. (\E q : AtPos(f, q)) /\ \A q : AtPos(f, q) => backup_file[f] <= q
      BY <1>1, <2>1 DEF Placed, SavedIsFirst
    <3>3. backup_file[f] <= pos
      BY <2>2, <3>2
    <3>4. backup_file[f] <= pos + 1
      BY <2>2, <3>1, <3>3
    <3>5. QED
      BY <2>8, <3>2, <3>3, <3>4
  <2>17. QED
    BY <2>10, <2>11, <2>12, <2>13, <2>14, <2>15, <2>16 DEF Placed
<1>6. QED
  BY <1>1, <1>4, <1>5 DEF PlacesInv

(* Steps that leave the tokens as they are.                                *)
LEMMA QuietPlaces ==
    ASSUME PlacesInv, UNCHANGED <<tokenVars, batch, backup_file>>, Up' => Up,
           \A f \in Path : content'[f] = <<>> \/ content'[f] = content[f],
           UNCHANGED readVars \/ active_read_file' = NoFile
    PROVE  \A f \in Path : content'[f] # <<>> /\ (f = active_read_file => UNCHANGED readVars)
             => Placed(f)'
<1> SUFFICES ASSUME NEW f \in Path, content'[f] # <<>>, f = active_read_file => UNCHANGED readVars
             PROVE  Placed(f)'
  OBVIOUS
<1>1. content'[f] = content[f] /\ Placed(f)
  BY DEF PlacesInv
<1>2. AloneButHeld(f)
  BY <1>1, TokenStoreAssumption DEF AloneButHeld, tokenVars, readVars
<1>3. PICK m : LessAt(f, m) /\ AllAt(f)
  BY <1>2, QuietAlone DEF tokenVars
<1>4. QED
  BY <1>1, <1>3, SamePlaces

LEMMA AppendPlaces ==
    ASSUME TInv, NamesInv, LinesInv, PlacesInv, NEW w \in Writer, append(w)
    PROVE  PlacesInv'
<1>1. PICK a \in Path : /\ a = active_write_file /\ Up
                        /\ \A f \in Path : f # a => content'[f] = content[f]
  BY AppendedRecord
<1>2. UNCHANGED <<token_store, staged_tokens, batch, backup_file, active_read_file, read_pos, mode>>
  BY DEF append, tokenVars, clientVars, readVars, processVars
<1>3. /\ \A i \in DOMAIN batch : HeldFile(i) # a
      /\ active_read_file # a /\ staged_tokens[a] = NoPos /\ backup_file[a] = NoPos
  BY <1>1, WriteFileUnused DEF LinesInv
<1>4. Placed(a)'
  <2>1. /\ \A i \in DOMAIN batch' : HeldFile(i)' # a
        /\ active_read_file' # a /\ staged_tokens'[a] = NoPos /\ backup_file'[a] = NoPos
    BY <1>2, <1>3 DEF HeldFile
  <2>2. QED
    BY <2>1 DEF Placed, AtLines, HeldAscend, StagedIsFirst, StreamIsLast, NextFollows,
       LastIsLast, SavedIsFirst, isTokenAvailable
<1>5. ASSUME NEW f \in Path, f # a, content'[f] # <<>>
      PROVE  Placed(f)'
  <2>1. Placed(f) /\ AloneButHeld(f)
    BY <1>1, <1>2, <1>5 DEF PlacesInv, AloneButHeld
  <2>2. PICK m : LessAt(f, m) /\ AllAt(f)
    BY <1>2, <2>1, QuietAlone
  <2>3. QED
    BY <1>1, <2>1, <2>2, SamePlaces
<1>6. QED
  BY <1>4, <1>5 DEF PlacesInv

(* Of a file that is left alone but for a token resolved, all positions    *)
(* stay but that of the token.                                             *)
LEMMA OthersStay ==
    ASSUME TInv, NEW f, AloneButHeld(f), NEW t, FirstSettled(t),
           NEW p, AtPos(f, p), p # HeldPos(1)
    PROVE  AtPos(f, p)'
<1>1. isTokenAvailable(f)' <=> isTokenAvailable(f)
  BY DEF AloneButHeld, isTokenAvailable
<1>2. CASE \E i \in DOMAIN batch : HeldFile(i) = f /\ HeldPos(i) = p
  <2>1. PICK i \in DOMAIN batch : HeldFile(i) = f /\ HeldPos(i) = p
    BY <1>2
  <2>2. PICK j : j = i - 1
    OBVIOUS
  <2>3. j \in DOMAIN batch' /\ j + 1 = i
    BY <2>1, <2>2 DEF FirstSettled
  <2>4. HeldFile(j)' = f /\ HeldPos(j)' = p
    BY <2>1, <2>3, SettledHeld
  <2>5. QED
    BY <2>3, <2>4 DEF AtPos
<1>3. CASE isTokenAvailable(f) /\ p = staged_tokens[f]
  BY <1>1, <1>3 DEF AtPos, AloneButHeld
<1>4. CASE f = active_read_file /\ ~ isTokenAvailable(f) /\ p = read_pos
  BY <1>1, <1>4 DEF AtPos, AloneButHeld
<1>5. QED
  BY <1>2, <1>3, <1>4 DEF AtPos

(* The contents after a token is resolved as sent. *)
LEMMA SentContent ==
    ASSUME TInv, TokenInv, ContentInv, OrderInv, InOrder, NEW i, resolveSent(i)
    PROVE  /\ \A f \in Path : content'[f] = <<>> \/ content'[f] = content[f]
           /\ \A f \in Path : f # HeldFile(1) => content'[f] = content[f]
           /\ HeldEof(1) => content'[HeldFile(1)] = <<>>
           /\ ~ HeldEof(1) => content' = content
<1>1. i = 1 /\ 1 \in DOMAIN batch /\ verdict = "sent"
  BY ResolveFirst DEF FirstSettled, resolveSent
<1>2. PICK f \in Path : f = HeldFile(1)
  BY <1>1 DEF OrderInv, HeldInFiles
<1>3. Resolvable(batch[1].token)
  BY <1>1, LiveTokensResolve DEF SentTokensResolve
<1>4. /\ HeldEof(1) => deleteFile(f)
      /\ ~ HeldEof(1) => content' = content
  BY <1>1, <1>2, <1>3 DEF resolveSent, ForgetLine, HeldFile, HeldEof, diskVars
<1>5. ASSUME deleteFile(f)
      PROVE  content'[f] = <<>> /\ \A g \in Path : g # f => content'[g] = content[g]
  <2>1. f \notin files => content'[f] = <<>> /\ content' = content
    BY <1>5 DEF ContentInv, deleteFile, diskVars
  <2>2. f \in files => content' = [content EXCEPT ![f] = <<>>]
    BY <1>5 DEF deleteFile
  <2>3. QED
    BY <2>1, <2>2, ContentTypes
<1>6. QED
  BY <1>2, <1>4, <1>5

LEMMA SentPlaces ==
    ASSUME TInv, TokenInv, StagedXorTracked, ContentInv, OrderInv, PlacesInv, InOrder,
           NEW i, resolveSent(i)
    PROVE  PlacesInv'
<1>1. /\ i = 1 /\ Up /\ UNCHANGED <<active_read_file, read_pos, backup_file>>
      /\ FirstSettled(batch[1].token)
  BY ResolveFirst DEF readVars
<1>2. PICK t : t = batch[1].token /\ FirstSettled(t)
  BY <1>1
<1>3. /\ verdict = "sent" /\ 1 \in DOMAIN batch
      /\ staged_tokens' = staged_tokens
  BY <1>1, <1>2, ResolveLists DEF FirstSettled, resolveSent
<1>4. /\ \A f \in Path : content'[f] = <<>> \/ content'[f] = content[f]
      /\ HeldEof(1) => content'[HeldFile(1)] = <<>>
  BY SentContent
<1>5. ASSUME NEW f \in Path, content'[f] # <<>>
      PROVE  Placed(f)'
  <2>1. Placed(f) /\ AloneButHeld(f)
    BY <1>1, <1>3, <1>4, <1>5 DEF PlacesInv, AloneButHeld
  <2>2. PICK m : /\ LessAt(f, m) /\ (HeldFile(1) # f => AllAt(f))
                 /\ \A j \in DOMAIN batch' : m[j] = j + 1
    BY <1>2, <2>1, ResolveAlone
  <2>3. CASE HeldFile(1) # f
    BY <1>1, <2>1, <2>2, <2>3, SamePlaces
  <2>4. CASE HeldFile(1) = f
    <3>1. ~ HeldEof(1) /\ ~ isTokenAvailable(f)
      BY <1>3, <1>4, <1>5, <2>4, HeldAreTracked
    <3>2. /\ isTokenAvailable(f)' <=> isTokenAvailable(f)
          /\ \A p : AtPos(f, p)' => AtPos(f, p)
          /\ AtLines(f)' /\ HeldAscend(f)' /\ StagedIsFirst(f)' /\ StreamIsLast(f)'
          /\ LastIsLast(f)'
      BY <2>1, <2>2, LessPlaces
    <3>3. \A p : AtPos(f, p) /\ p # HeldPos(1) => AtPos(f, p)'
      BY <1>2, <2>1, OthersStay
    <3>4. HeldPos(1) \in Int /\ \A j \in DOMAIN batch : HeldPos(j) \in Int
      BY <1>3, HeldPosType
    <3>5. NextFollows(f)'
      <4> SUFFICES ASSUME NEW j \in DOMAIN batch', HeldFile(j)' = f, ~ HeldEof(j)',
                          NEW p, p = HeldPos(j)' + 1
                   PROVE  AtPos(f, p)'
        BY DEF NextFollows, AtPos
      <4>1. /\ j + 1 \in DOMAIN batch /\ HeldFile(j + 1) = f /\ ~ HeldEof(j + 1)
            /\ p = HeldPos(j + 1) + 1 /\ 1 < j + 1
        BY <1>2, SettledHeld DEF FirstSettled
      <4>2. AtPos(f, p)
        BY <2>1, <3>1, <4>1 DEF Placed, NextFollows
      <4>3. HeldPos(1) < HeldPos(j + 1)
        BY <1>3, <2>1, <2>4, <4>1 DEF Placed, HeldAscend
      <4>4. p # HeldPos(1)
        BY <3>4, <4>1, <4>3
      <4>5. QED
        BY <3>3, <4>2, <4>4
    <3>6. SavedIsFirst(f)'
      <4>1. PICK q : q = HeldPos(1) + 1
        OBVIOUS
      <4>2. AtPos(f, q)
        BY <1>3, <2>1, <2>4, <3>1, <4>1 DEF Placed, NextFollows
      <4>3. AtPos(f, q)'
        BY <3>3, <3>4, <4>1, <4>2
      <4>4. backup_file[f] # NoPos => \A p : AtPos(f, p)' => backup_file[f] <= p
        BY <1>1, <2>1, <3>2 DEF Placed, SavedIsFirst
      <4>5. QED
        BY <1>1, <4>3, <4>4 DEF SavedIsFirst
    <3>7. QED
      BY <3>2, <3>5, <3>6 DEF Placed
  <2>5. QED
    BY <2>3, <2>4
<1>6. QED
  BY <1>5 DEF PlacesInv

(* The first token held, and what is staged when it fails: its position,   *)
(* unless one is staged already.                                           *)
LEMMA FirstPosition ==
    ASSUME TInv, OrderInv, 1 \in DOMAIN batch
    PROVE  \E f \in Path, pos \in Int : f = HeldFile(1) /\ pos = HeldPos(1) /\ pos # NoPos
<1>1. HeldFile(1) \in Path
  BY DEF OrderInv, HeldInFiles
<1>2. token_store[batch[1].token] \in FileTokenInfo
  BY FileTypes, HeldAreTokens DEF OrderInv, KnownHeld, Known
<1>3. HeldPos(1) \in Pos
  BY <1>2 DEF FileTokenInfo, HeldPos
<1>4. QED
  BY <1>1, <1>3 DEF Pos, Bad, NoPos

LEMMA FailedStages ==
    ASSUME TInv, TokenInv, StagedXorTracked, OrderInv, 1 \in DOMAIN batch,
           NEW i, i = 1, resolveFailed(i),
           NEW f \in Path, NEW pos, f = HeldFile(1), pos = HeldPos(1), pos # NoPos
    PROVE  /\ isTokenAvailable(f)'
           /\ \A g \in Path : g # f => staged_tokens'[g] = staged_tokens[g]
           /\ \/ staged_tokens'[f] = pos /\ ~ isTokenAvailable(f)
              \/ staged_tokens'[f] = staged_tokens[f] /\ isTokenAvailable(f)
<1>1. TokenKept(f, pos)
  BY ResolveLists
<1>2. Tracked(f) \/ isTokenAvailable(f)
  BY DEF OrderInv, TrackedOrStaged
<1>3. Tracked(f) => ~ isTokenAvailable(f)
  BY DEF StagedXorTracked
<1>4. /\ isTokenAvailable(f)'
      /\ \A g \in Path : g # f => staged_tokens'[g] = staged_tokens[g]
  BY <1>1, <1>2, KeptLists
<1>5. IF Tracked(f) THEN staged_tokens'[f] = pos ELSE staged_tokens'[f] = staged_tokens[f]
  BY <1>1, FileTypes DEF TokenKept
<1>6. QED
  BY <1>2, <1>3, <1>4, <1>5

LEMMA FailedPlaces ==
    ASSUME TInv, TokenInv, StagedXorTracked, OrderInv, PlacesInv, InOrder,
           NEW i, resolveFailed(i)
    PROVE  PlacesInv'
<1>1. /\ i = 1 /\ Up /\ UNCHANGED <<active_read_file, read_pos, backup_file, content>>
      /\ FirstSettled(batch[1].token)
  BY ResolveFirst DEF resolveFailed, readVars, diskVars
<1>2. PICK t : t = batch[1].token /\ FirstSettled(t)
  BY <1>1
<1>3. 1 \in DOMAIN batch
  BY <1>2 DEF FirstSettled
<1>4. PICK f \in Path, pos \in Int : f = HeldFile(1) /\ pos = HeldPos(1) /\ pos # NoPos
  BY <1>3, FirstPosition
<1>5. /\ isTokenAvailable(f)'
      /\ \A g \in Path : g # f => staged_tokens'[g] = staged_tokens[g]
      /\ \/ staged_tokens'[f] = pos /\ ~ isTokenAvailable(f)
         \/ staged_tokens'[f] = staged_tokens[f] /\ isTokenAvailable(f)
  BY <1>1, <1>3, <1>4, FailedStages
<1>6. ASSUME NEW g \in Path, g # f, content[g] # <<>>
      PROVE  Placed(g)'
  <2>1. Placed(g) /\ AloneButHeld(g)
    BY <1>1, <1>5, <1>6 DEF PlacesInv, AloneButHeld
  <2>2. PICK m : LessAt(g, m) /\ AllAt(g)
    BY <1>2, <1>4, <1>6, <2>1, ResolveAlone
  <2>3. QED
    BY <1>1, <2>1, <2>2, SamePlaces
<1>7. ASSUME content[f] # <<>>
      PROVE  Placed(f)'
  <2>1. Placed(f)
    BY <1>7 DEF PlacesInv
  <2>2. \A j \in DOMAIN batch' :
          /\ j + 1 \in DOMAIN batch /\ 1 < j + 1 /\ j \in Nat
          /\ HeldFile(j)' = HeldFile(j + 1) /\ HeldPos(j)' = HeldPos(j + 1)
          /\ HeldEof(j)' = HeldEof(j + 1)
    BY <1>2, SettledHeld DEF FirstSettled
  <2>3. AtPos(f, staged_tokens'[f]) /\ staged_tokens'[f] # NoPos
    BY <1>3, <1>4, <1>5 DEF AtPos, isTokenAvailable
  <2>4. \A p : AtPos(f, p)' => AtPos(f, p)
    BY <1>5, <2>2, <2>3 DEF AtPos
  <2>5. \A p : LineAt(f, p)' <=> LineAt(f, p)
    BY <1>1 DEF LineAt
  <2>6. AtLines(f)'
    <3>1. \A j \in DOMAIN batch' : HeldFile(j)' = f => LineAt(f, HeldPos(j)')
      BY <2>1, <2>2 DEF Placed, AtLines
    <3>2. LineAt(f, staged_tokens'[f])
      BY <1>3, <1>4, <1>5, <2>1 DEF Placed, AtLines
    <3>3. f = active_read_file => LineAt(f, read_pos)
      BY <2>1 DEF Placed, AtLines
    <3>4. backup_file[f] # NoPos => LineAt(f, backup_file[f])
      BY <2>1 DEF Placed, AtLines
    <3>5. QED
      BY <1>1, <3>1, <3>2, <3>3, <3>4 DEF AtLines, LineAt
  <2>7. HeldAscend(f)'
    <3> SUFFICES ASSUME NEW j \in DOMAIN batch', NEW k \in DOMAIN batch', j < k,
                        HeldFile(j)' = f, HeldFile(k)' = f
                 PROVE  HeldPos(j)' < HeldPos(k)' /\ ~ HeldEof(j)'
      BY DEF HeldAscend
    <3>1. j + 1 < k + 1
      BY <2>2
    <3>2. QED
      BY <2>1, <2>2, <3>1 DEF Placed, HeldAscend
  <2>8. StagedIsFirst(f)'
    <3> SUFFICES ASSUME NEW j \in DOMAIN batch', HeldFile(j)' = f
                 PROVE  staged_tokens'[f] <= HeldPos(j)'
      BY DEF StagedIsFirst
    <3>1. HeldFile(j + 1) = f /\ HeldPos(j)' = HeldPos(j + 1) /\ HeldPos(j + 1) \in Int
      BY <2>2, HeldPosType
    <3>2. pos < HeldPos(j + 1)
      BY <1>3, <1>4, <2>1, <2>2, <3>1 DEF Placed, HeldAscend
    <3>3. isTokenAvailable(f) => staged_tokens[f] <= HeldPos(j + 1)
      BY <2>1, <2>2, <3>1 DEF Placed, StagedIsFirst
    <3>4. QED
      BY <1>5, <3>1, <3>2, <3>3
  <2>9. StreamIsLast(f)' /\ NextFollows(f)'
    BY <1>5 DEF StreamIsLast, NextFollows
  <2>10. LastIsLast(f)'
    <3>1. \A j \in DOMAIN batch' : HeldFile(j)' = f /\ HeldEof(j)' => ~ LineAt(f, HeldPos(j)' + 1)
      BY <2>1, <2>2 DEF Placed, LastIsLast
    <3>2. QED
      BY <1>1, <3>1 DEF LastIsLast, LineAt
  <2>11. SavedIsFirst(f)'
    <3>1. AtPos(f, staged_tokens[f])'
      BY <1>5 DEF AtPos
    <3>2. backup_file[f] # NoPos => \A p : AtPos(f, p)' => backup_file[f] <= p
      BY <1>1, <2>1, <2>4 DEF Placed, SavedIsFirst
    <3>3. QED
      BY <1>1, <3>1, <3>2 DEF SavedIsFirst
  <2>12. QED
    BY <2>6, <2>7, <2>8, <2>9, <2>10, <2>11 DEF Placed
<1>8. QED
  BY <1>1, <1>6, <1>7 DEF PlacesInv

LEMMA ShutdownPlaces ==
    ASSUME TInv, StagedXorTracked, OrderInv, PlacesInv, Shutdown
    PROVE  PlacesInv'
<1>1. /\ mode = "up" /\ Up /\ backup_file' = backup
      /\ UNCHANGED <<content, active_read_file, read_pos, batch, staged_tokens>>
      /\ \A i \in DOMAIN batch : /\ HeldFile(i)' = HeldFile(i) /\ HeldPos(i)' = HeldPos(i)
                                 /\ HeldEof(i)' = HeldEof(i)
  BY ShutdownHeld DEF Shutdown, OrderInv, readVars, Up
<1>2. ASSUME NEW f \in Path, content[f] # <<>>
      PROVE  Placed(f)'
  <2>1. Placed(f)
    BY <1>2 DEF PlacesInv
  <2>2. /\ \A p : AtPos(f, p)' <=> AtPos(f, p)
        /\ isTokenAvailable(f)' <=> isTokenAvailable(f)
    BY <1>1 DEF AtPos, isTokenAvailable
  <2>3. backup[f] # NoPos =>
          /\ AtPos(f, backup[f]) /\ LineAt(f, backup[f])
          /\ \A p : AtPos(f, p) => backup[f] <= p
    <3>1. CASE backup[f] = staged_tokens[f] /\ isTokenAvailable(f)
      <4>1. AtPos(f, backup[f]) /\ LineAt(f, backup[f])
        BY <2>1, <3>1 DEF AtPos, Placed, AtLines
      <4>2. staged_tokens[f] <= staged_tokens[f]
        <5>1. staged_tokens[f] \in Pos \cup {NoPos}
          BY FileTypes
        <5>2. staged_tokens[f] \in Int
          BY <5>1 DEF Pos, Bad, NoPos
        <5>3. QED
          BY <5>2
      <4>3. \A p : AtPos(f, p) => backup[f] <= p
        BY <2>1, <3>1, <4>2 DEF AtPos, Placed, StagedIsFirst
      <4>4. QED
        BY <4>1, <4>3
    <3>2. ASSUME NEW i \in DOMAIN batch, backup[f] = HeldPos(i), HeldFile(i) = f, Tracked(f),
                 \A j \in DOMAIN batch : j < i => HeldFile(j) # f
          PROVE  /\ AtPos(f, backup[f]) /\ LineAt(f, backup[f])
                 /\ \A p : AtPos(f, p) => backup[f] <= p
      <4>1. ~ isTokenAvailable(f)
        BY <3>2 DEF StagedXorTracked
      <4>2. \A j \in DOMAIN batch : j \in Nat /\ HeldPos(j) \in Int
        <5>1. batch \in Seq(HeldToken)
          BY DEF TInv, TypeOK
        <5>2. QED
          BY <5>1, HeldPosType
      <4>3. \A j \in DOMAIN batch : HeldFile(j) = f => HeldPos(i) <= HeldPos(j)
        <5> SUFFICES ASSUME NEW j \in DOMAIN batch, HeldFile(j) = f
                     PROVE  HeldPos(i) <= HeldPos(j)
          OBVIOUS
        <5>1. j = i \/ i < j
          BY <3>2, <4>2
        <5>2. i < j => HeldPos(i) < HeldPos(j)
          BY <2>1, <3>2 DEF Placed, HeldAscend
        <5>3. QED
          BY <4>2, <5>1, <5>2
      <4>4. f = active_read_file => HeldPos(i) <= read_pos
        <5>1. f = active_read_file => HeldPos(i) < read_pos
          BY <2>1, <3>2, <4>1 DEF Placed, StreamIsLast
        <5>2. read_pos \in Int
          BY DEF TInv, TypeOK, Pos, Bad
        <5>3. QED
          BY <4>2, <5>1, <5>2
      <4>5. AtPos(f, backup[f]) /\ LineAt(f, backup[f])
        BY <2>1, <3>2 DEF AtPos, Placed, AtLines
      <4>6. \A p : AtPos(f, p) => backup[f] <= p
        BY <3>2, <4>1, <4>3, <4>4 DEF AtPos
      <4>7. QED
        BY <4>5, <4>6
    <3>3. QED
      BY <1>1, <3>1, <3>2, BackupPosition DEF isTokenAvailable
  <2>4. AtLines(f)'
    BY <1>1, <2>1, <2>2, <2>3 DEF Placed, AtLines, LineAt
  <2>5. HeldAscend(f)' /\ StagedIsFirst(f)' /\ StreamIsLast(f)'
    BY <1>1, <2>1, <2>2 DEF Placed, HeldAscend, StagedIsFirst, StreamIsLast
  <2>6. NextFollows(f)'
    <3> SUFFICES ASSUME NEW i \in DOMAIN batch', HeldFile(i)' = f, ~ isTokenAvailable(f)',
                        ~ HeldEof(i)', NEW p, p = HeldPos(i)' + 1
                 PROVE  AtPos(f, p)'
      BY DEF NextFollows, AtPos
    <3>1. AtPos(f, p)
      BY <1>1, <2>1, <2>2 DEF Placed, NextFollows
    <3>2. QED
      BY <2>2, <3>1
  <2>7. LastIsLast(f)'
    BY <1>1, <2>1 DEF Placed, LastIsLast, LineAt
  <2>8. SavedIsFirst(f)'
    BY <1>1, <2>2, <2>3 DEF SavedIsFirst
  <2>9. QED
    BY <2>4, <2>5, <2>6, <2>7, <2>8 DEF Placed
<1>3. QED
  BY <1>1, <1>2 DEF PlacesInv

(* A process has read nothing when it starts, and holds nothing when it    *)
(* ends.                                                                   *)
LEMMA BoundaryPlaces ==
    ASSUME TInv, FilesInv, PlacesInv, Start \/ (LoseMemory /\ UNCHANGED diskVars)
    PROVE  PlacesInv'
<1>1. content' = content /\ batch' = <<>> /\ active_read_file' = NoFile
  BY DEF Start, LoseMemory, diskVars, readVars, clientVars, TInv, ProcessInv, FilesInv, Exclusive
<1>2. \A f \in Path : \/ staged_tokens'[f] = backup_file[f] /\ backup_file'[f] = NoPos
                      \/ staged_tokens'[f] = NoPos /\ backup_file'[f] = backup_file[f] /\ ~ Up'
  BY DEF Start, restore, LoseMemory, ForgetTokens, diskVars, Up
<1>3. ASSUME NEW f \in Path, content[f] # <<>>
      PROVE  Placed(f)'
  <2>1. backup_file[f] # NoPos => LineAt(f, backup_file[f])
    BY <1>3 DEF PlacesInv, Placed, AtLines
  <2>2. AtLines(f)'
    BY <1>1, <1>2, <2>1, TokenStoreAssumption DEF AtLines, LineAt, isTokenAvailable
  <2>3. /\ HeldAscend(f)' /\ StagedIsFirst(f)' /\ StreamIsLast(f)' /\ NextFollows(f)'
        /\ LastIsLast(f)'
    BY <1>1 DEF HeldAscend, StagedIsFirst, StreamIsLast, NextFollows, LastIsLast
  <2>4. SavedIsFirst(f)'
    BY <1>2 DEF SavedIsFirst
  <2>5. QED
    BY <2>2, <2>3, <2>4 DEF Placed
<1>4. QED
  BY <1>1, <1>3 DEF PlacesInv

LEMMA PlacesInvNext ==
    ASSUME TInv, StorageInv, PlacesInv, InOrder, UniqueNames, [Next]_vars
    PROVE  PlacesInv'
<1>1. /\ TokenInv /\ StagedXorTracked /\ FilesInv /\ ContentInv /\ OrderInv /\ LinesInv
      /\ NamesInv
  BY DEF StorageInv, FilesInv
<1>2. CASE UNCHANGED <<tokenVars, batch, backup_file, content, readVars, mode>>
  <2>1. \A f \in Path : content'[f] # <<>> => Placed(f)'
    BY <1>2, QuietPlaces DEF Up
  <2>2. QED
    BY <2>1 DEF PlacesInv
<1>3. ASSUME NEW w \in Writer, deleteOldestFile(w)
      PROVE  PlacesInv'
  <2>1. PICK d \in Path :
          /\ deleteFile(d)
          /\ d = active_read_file \/ UNCHANGED readVars
          /\ UNCHANGED readVars \/ active_read_file' = NoFile
    BY <1>3 DEF deleteOldestFile
  <2>2. /\ \A f \in Path : content'[f] = <<>> \/ content'[f] = content[f]
        /\ \A f \in Path : content'[f] # <<>> => f \in files'
    BY <1>1, <2>1, DeleteFileContent
  <2>3. content'[d] = <<>>
    <3>1. d \in files => content'[d] = <<>>
      BY <2>1, ContentTypes DEF deleteFile
    <3>2. d \notin files => d \notin files'
      BY <2>1 DEF deleteFile, diskVars
    <3>3. QED
      BY <2>2, <3>1, <3>2
  <2>4. UNCHANGED <<tokenVars, batch, backup_file, mode>>
    BY <1>3, <2>1 DEF deleteOldestFile, deleteFile, clientVars, diskVars, processVars
  <2>5. \A f \in Path : content'[f] # <<>> => Placed(f)'
    BY <2>1, <2>2, <2>3, <2>4, QuietPlaces DEF Up
  <2>6. QED
    BY <2>5 DEF PlacesInv
<1>4. CASE Complete \/ UNCHANGED vars
  BY <1>2, <1>4 DEF Complete, vars, diskVars, clientVars, processVars
<1>5. ASSUME NEW w \in Writer, Write(w)
      PROVE  PlacesInv'
  <2>1. CASE checkIfWriteFileShouldRotate(w) \/ checkIfStorageLimitHasBeenReached(w)
    BY <1>2, <2>1 DEF checkIfWriteFileShouldRotate, checkIfStorageLimitHasBeenReached,
       diskVars, clientVars, processVars
  <2>2. CASE deleteFromEmptyList(w)
    BY <1>1, <2>2, BoundaryPlaces DEF deleteFromEmptyList
  <2>3. QED
    BY <1>1, <1>3, <1>5, <2>1, <2>2, AppendPlaces DEF Write
<1>6. CASE Resolve
  BY <1>1, <1>6, SentPlaces, FailedPlaces DEF Resolve
<1>7. CASE Start \/ ProcessEnds
  BY <1>1, <1>7, BoundaryPlaces DEF ProcessEnds
<1>8. QED
  BY <1>1, <1>4, <1>5, <1>6, <1>7, ReadPlaces, ShutdownPlaces DEF Next
-----------------------------------------------------------------------------
(* From where a file is read on, and which records are pending, said with  *)
(* the positions above.                                                    *)
ResumeInv ==
    \A f \in Path :
        /\ Resume(f) \in Int
        /\ ~ Up => Resume(f) = IF backup_file[f] = NoPos THEN 0 ELSE backup_file[f]
        /\ Up => /\ AtPos(f, Resume(f)) \/ (Resume(f) = 0 /\ \A p : ~ AtPos(f, p))
                 /\ \A p : AtPos(f, p) => Resume(f) <= p
PendingInv ==
    \A r : r \in Pending <=>
             \E f \in Path : \E k \in DOMAIN content[f] : k > Resume(f) /\ content[f][k] = r

LEMMA ResumeInvHolds == TInv /\ OrderInv => ResumeInv
<1> SUFFICES ASSUME TInv, OrderInv, NEW f \in Path
             PROVE  /\ Resume(f) \in Int
                    /\ ~ Up => Resume(f) = IF backup_file[f] = NoPos THEN 0 ELSE backup_file[f]
                    /\ Up => /\ AtPos(f, Resume(f)) \/ (Resume(f) = 0 /\ \A p : ~ AtPos(f, p))
                             /\ \A p : AtPos(f, p) => Resume(f) <= p
  BY DEF ResumeInv
<1>1. CASE ~ Up
  <2>1. Resume(f) = IF backup_file[f] = NoPos THEN 0 ELSE backup_file[f]
    BY <1>1 DEF Resume, Up
  <2>2. backup_file[f] \in Pos \cup {NoPos}
    BY FileTypes
  <2>3. Resume(f) \in Int
    BY <2>1, <2>2 DEF Pos, Bad, NoPos
  <2>4. QED
    BY <1>1, <2>1, <2>3
<1>2. CASE Up
  <2>1. KnownHeld
    BY DEF OrderInv
  <2>2. \A p : p \in ResumePositions(f) <=> AtPos(f, p)
    BY <2>1, ResumePositionsAre DEF AtPos
  <2>3. /\ Resume(f) \in Int
        /\ ResumePositions(f) = {} => Resume(f) = 0
        /\ ResumePositions(f) # {} => Resume(f) \in ResumePositions(f)
        /\ \A p \in ResumePositions(f) : Resume(f) <= p
    BY <1>2, <2>1, ResumeIsLeast
  <2>4. QED
    BY <1>2, <2>2, <2>3
<1>3. QED
  BY <1>1, <1>2

LEMMA PendingInvHolds ==
    ASSUME \A f \in Path : Discoverable(f)
    PROVE  TInv /\ ContentInv /\ ReachInv => PendingInv
<1> SUFFICES ASSUME TInv, ContentInv, ReachInv
             PROVE  PendingInv
  OBVIOUS
<1>1. \A f \in files : f \in Path
  BY FileTypes
<1>2. \A f \in files : Reachable(f)
  BY <1>1, FileTypes DEF ReachInv, LedTo, Reachable, Held, Up
<1>3. \A f \in Path : \A k \in DOMAIN content[f] : Reachable(f)
  <2>1. \A f \in Path : content[f] = <<>> => DOMAIN content[f] = {}
    OBVIOUS
  <2>2. QED
    BY <1>2, <2>1 DEF ContentInv
<1>4. QED
  BY <1>3 DEF Pending, PendingInv

(* Positions lie before lines. *)
LEMMA PositionsAreLines ==
    ASSUME TInv, OrderInv, NEW f \in Path, content[f] # <<>>, Placed(f)
    PROVE  \A p : AtPos(f, p) => LineAt(f, p) /\ p \in Nat
<1> SUFFICES ASSUME NEW p, AtPos(f, p)
             PROVE  LineAt(f, p) /\ p \in Nat
  OBVIOUS
<1>1. LineAt(f, p)
  BY DEF AtPos, Placed, AtLines
<1>2. p \in Pos
  BY ResumePositionsAre DEF AtPos, OrderInv
<1>3. p + 1 \in Nat \ {0}
  BY <1>1, Indices DEF LineAt
<1>4. QED
  BY <1>1, <1>2, <1>3 DEF Pos, Bad

(* The abstract step of each kind: reading starts no later than it would   *)
(* have, and so records that were uploaded become pending again.           *)
LEMMA StoreForgets ==
    ASSUME TInv, OrderInv, LinesInv, ResumeInv, ResumeInv', PendingInv, PendingInv',
           UNCHANGED <<content, history>>,
           \A f \in Path : content[f] # <<>> => Resume(f)' <= Resume(f)
    PROVE  [Store!StoreNext]_(Store!storeVars)
<1>1. /\ UNCHANGED <<content, written, acked, dropped>>
      /\ \A f \in Path : Resume(f) \in Int /\ Resume(f)' \in Int
  BY DEF history, ResumeInv
<1>2. \A f \in Path : \A k \in DOMAIN content[f] : k \in Int /\ content[f] # <<>>
  <2>1. \A f \in Path : content[f] = <<>> => DOMAIN content[f] = {}
    OBVIOUS
  <2>2. QED
    BY <2>1, Indices
<1>3. \A f \in Path : \A k \in DOMAIN content[f] : k > Resume(f) => k > Resume(f)'
  BY <1>1, <1>2
<1>4. \A r : r \in Pending => r \in Pending'
  BY <1>1, <1>3 DEF PendingInv
<1>5. \A r : r \in Pending' => r \in Pending \/ r \in acked
  <2> SUFFICES ASSUME NEW r, r \in Pending'
               PROVE  r \in Pending \/ r \in acked
    OBVIOUS
  <2>1. PICK f \in Path : \E k \in DOMAIN content[f] : content[f][k] = r
    BY <1>1 DEF PendingInv
  <2>2. PICK k \in DOMAIN content[f] : content[f][k] = r
    BY <2>1
  <2>3. k > Resume(f) \/ k <= Resume(f)
    BY <1>1, <1>2
  <2>4. QED
    BY <2>2, <2>3, NothingBeforeResume DEF PendingInv
<1>6. PICK S : S = Pending' \ Pending
  OBVIOUS
<1>7. S \subseteq acked \ Pending /\ Pending' = Pending \cup S
  BY <1>4, <1>5, <1>6
<1>8. S \in SUBSET Record
  BY <1>7 DEF TInv, TypeOK
<1>9. (1..written)' = 1..written
  BY <1>1
<1>10. CASE S = {}
  <2>1. Pending' = Pending
    BY <1>7, <1>10
  <2>2. QED
    BY <1>1, <1>9, <2>1 DEF Store!storeVars
<1>11. CASE S # {}
  <2>1. Store!Forget(S)
    BY <1>1, <1>7, <1>9, <1>11 DEF Store!Forget
  <2>2. QED
    BY <1>8, <2>1 DEF Store!StoreNext
<1>12. QED
  BY <1>10, <1>11

(* Positions after a step none of which is behind all that there were.     *)
LEMMA ResumeBack ==
    ASSUME ResumeInv, ResumeInv', Up, Up', NEW f \in Path,
           \A p \in Int : AtPos(f, p) => \E q : AtPos(f, q)' /\ q \in Int /\ q <= p,
           (\A p : ~ AtPos(f, p)) => \/ \A p : ~ AtPos(f, p)'
                                     \/ AtPos(f, 0)'
    PROVE  Resume(f)' <= Resume(f)
<1>1. /\ Resume(f) \in Int /\ Resume(f)' \in Int
      /\ AtPos(f, Resume(f)) \/ (Resume(f) = 0 /\ \A p : ~ AtPos(f, p))
      /\ \A p : AtPos(f, p)' => Resume(f)' <= p
      /\ (\A p : ~ AtPos(f, p)') => Resume(f)' = 0
  <2>1. /\ Resume(f) \in Int /\ Resume(f)' \in Int
        /\ AtPos(f, Resume(f)) \/ (Resume(f) = 0 /\ \A p : ~ AtPos(f, p))
    BY DEF ResumeInv
  <2>2. PICK r : r = Resume(f)'
    OBVIOUS
  <2>3. /\ AtPos(f, r)' \/ (r = 0 /\ \A p : ~ AtPos(f, p)')
        /\ \A p : AtPos(f, p)' => r <= p
    BY <2>2 DEF ResumeInv
  <2>4. QED
    BY <2>1, <2>2, <2>3
<1>2. CASE AtPos(f, Resume(f))
  <2>1. PICK q \in Int : AtPos(f, q)' /\ q <= Resume(f)
    BY <1>1, <1>2
  <2>2. QED
    BY <1>1, <2>1
<1>3. CASE Resume(f) = 0 /\ \A p : ~ AtPos(f, p)
  BY <1>1, <1>3
<1>4. QED
  BY <1>1, <1>2, <1>3

LEMMA SameResume ==
    ASSUME ResumeInv, ResumeInv', NEW f \in Path, mode' = mode, backup_file'[f] = backup_file[f],
           \A p : AtPos(f, p)' <=> AtPos(f, p)
    PROVE  Resume(f)' = Resume(f)
<1>1. PICK r : r = Resume(f)'
  OBVIOUS
<1>2. Up' <=> Up
  BY DEF Up
<1>3. /\ r \in Int /\ Resume(f) \in Int
      /\ ~ Up => r = Resume(f)
      /\ Up => /\ AtPos(f, r) \/ (r = 0 /\ \A p : ~ AtPos(f, p))
               /\ \A p : AtPos(f, p) => r <= p
  <2>1. /\ r \in Int
        /\ ~ Up => r = IF backup_file[f] = NoPos THEN 0 ELSE backup_file[f]
        /\ Up => /\ AtPos(f, r)' \/ (r = 0 /\ \A p : ~ AtPos(f, p)')
                 /\ \A p : AtPos(f, p)' => r <= p
    BY <1>1, <1>2 DEF ResumeInv
  <2>2. QED
    BY <2>1 DEF ResumeInv
<1>4. /\ Up => /\ AtPos(f, Resume(f)) \/ (Resume(f) = 0 /\ \A p : ~ AtPos(f, p))
               /\ \A p : AtPos(f, p) => Resume(f) <= p
  BY DEF ResumeInv
<1>5. Up => r <= Resume(f) /\ Resume(f) <= r
  BY <1>3, <1>4
<1>6. QED
  BY <1>1, <1>3, <1>5

(* Steps that leave the tokens and the stream as they are. *)
LEMMA QuietResume ==
    ASSUME ResumeInv, ResumeInv', NEW f \in Path,
           UNCHANGED <<token_store, staged_tokens, batch, mode, backup_file>>,
           f = active_read_file' <=> f = active_read_file,
           f = active_read_file => read_pos' = read_pos
    PROVE  Resume(f)' = Resume(f)
<1>1. \A p : AtPos(f, p)' <=> AtPos(f, p)
  BY DEF AtPos, HeldFile, HeldPos, isTokenAvailable
<1>2. QED
  BY <1>1, SameResume

(* All invariants of the storage together.                                 *)
PlacedInv == StorageInv /\ PlacesInv /\ ReachInv
StoreInv  == TInv /\ PlacedInv /\ ResumeInv /\ PendingInv

LEMMA ReadStore ==
    ASSUME StoreInv, StoreInv', Read
    PROVE  [Store!StoreNext]_(Store!storeVars)
<1>1. /\ TInv /\ TokenInv /\ StagedXorTracked /\ FilesInv /\ ContentInv /\ OrderInv /\ LinesInv
      /\ PlacesInv /\ ResumeInv /\ ResumeInv' /\ PendingInv /\ PendingInv'
  BY DEF StoreInv, PlacedInv, StorageInv
<1>2. verdict = "open" /\ Up /\ Up' /\ UNCHANGED <<content, backup_file, history>>
  BY <1>1, ReadTokenLine DEF diskVars, Up
<1>3. PICK f \in Path, t \in Token, pos \in Pos, next \in Pos, eof \in BOOLEAN,
           data \in Record \cup {NoRecord}, n \in Nat :
        /\ TokenRead(f, t, pos, eof, data)
        /\ BatchGrown(n, t, data)
        /\ LineRead(f, pos, next, eof, data)
  BY <1>1, ReadTokenLine
<1>4. /\ f = active_read_file \/ active_read_file = NoFile
      /\ active_read_file' = IF eof THEN NoFile ELSE f
  BY <1>3 DEF LineRead
<1>5. ASSUME NEW g \in Path, g # f
      PROVE  Resume(g)' <= Resume(g)
  <2>1. AloneButHeld(g)
    BY <1>2, <1>3, <1>4, <1>5, TokenStoreAssumption DEF TokenRead, AloneButHeld
  <2>2. PICK m : LessAt(g, m) /\ AllAt(g)
    BY <1>1, <1>3, <1>5, <2>1, ReadAlone
  <2>3. \A p : AtPos(g, p)' <=> AtPos(g, p)
    BY <2>2, SamePositions
  <2>4. \A p \in Int : p <= p
    OBVIOUS
  <2>5. QED
    BY <1>1, <1>2, <2>3, <2>4, ResumeBack
<1>6. ASSUME content[f] # <<>>
      PROVE  Resume(f)' <= Resume(f)
  <2>1. Placed(f)
    BY <1>1, <1>6 DEF PlacesInv
  <2>2. /\ pos \in Nat
        /\ AtPos(f, pos) \/ (pos = 0 /\ \A p : ~ AtPos(f, p))
    BY <1>1, <1>2, <1>3, <1>6, <2>1, ReadPlace
  <2>3. /\ \A i \in DOMAIN batch : i \in DOMAIN batch'
        /\ \A i \in DOMAIN batch : HeldFile(i)' = HeldFile(i) /\ HeldPos(i)' = HeldPos(i)
        /\ n + 1 \in DOMAIN batch' /\ HeldFile(n + 1)' = f /\ HeldPos(n + 1)' = pos
    BY <1>1, <1>3, ReadHeld
  <2>4. AtPos(f, pos)'
    BY <2>3 DEF AtPos
  <2>5. \A p : AtPos(f, p) => p = pos \/ \E i \in DOMAIN batch : HeldFile(i) = f /\ HeldPos(i) = p
    <3>1. f # NoFile /\ pos # Bad
      BY <2>2, TokenStoreAssumption DEF Bad
    <3>2. QED
      BY <1>3, <3>1 DEF LineRead, StreamAt, AtPos
  <2>6. \A p : AtPos(f, p) => AtPos(f, p)'
    BY <2>3, <2>4, <2>5 DEF AtPos
  <2>7. \A p \in Int : p <= p
    OBVIOUS
  <2>8. (\A p : ~ AtPos(f, p)) => AtPos(f, 0)'
    BY <2>2, <2>4
  <2>9. QED
    BY <1>1, <1>2, <2>6, <2>7, <2>8, ResumeBack
<1>7. \A g \in Path : content[g] # <<>> => Resume(g)' <= Resume(g)
  BY <1>5, <1>6
<1>8. QED
  BY <1>1, <1>2, <1>7, StoreForgets

LEMMA FailedStore ==
    ASSUME StoreInv, StoreInv', InOrder, NEW i, resolveFailed(i)
    PROVE  [Store!StoreNext]_(Store!storeVars)
<1>1. /\ TInv /\ TokenInv /\ StagedXorTracked /\ ContentInv /\ OrderInv /\ LinesInv
      /\ PlacesInv /\ ResumeInv /\ ResumeInv' /\ PendingInv /\ PendingInv'
  BY DEF StoreInv, PlacedInv, StorageInv
<1>2. /\ i = 1 /\ Up /\ Up' /\ UNCHANGED <<active_read_file, read_pos, backup_file, content, history>>
      /\ FirstSettled(batch[1].token)
  BY <1>1, ResolveFirst DEF resolveFailed, readVars, diskVars, Up
<1>3. PICK t : t = batch[1].token /\ FirstSettled(t)
  BY <1>2
<1>4. 1 \in DOMAIN batch
  BY <1>3 DEF FirstSettled
<1>5. PICK f \in Path, pos \in Int : f = HeldFile(1) /\ pos = HeldPos(1) /\ pos # NoPos
  BY <1>1, <1>4, FirstPosition
<1>6. /\ isTokenAvailable(f)'
      /\ \A g \in Path : g # f => staged_tokens'[g] = staged_tokens[g]
      /\ \/ staged_tokens'[f] = pos /\ ~ isTokenAvailable(f)
         \/ staged_tokens'[f] = staged_tokens[f] /\ isTokenAvailable(f)
  BY <1>1, <1>2, <1>4, <1>5, FailedStages
<1>7. ASSUME NEW g \in Path, g # f
      PROVE  Resume(g)' <= Resume(g)
  <2>1. AloneButHeld(g)
    BY <1>2, <1>6, <1>7 DEF AloneButHeld
  <2>2. PICK m : LessAt(g, m) /\ AllAt(g)
    BY <1>1, <1>3, <1>5, <1>7, <2>1, ResolveAlone
  <2>3. \A p : AtPos(g, p)' <=> AtPos(g, p)
    BY <2>2, SamePositions
  <2>4. \A p \in Int : p <= p
    OBVIOUS
  <2>5. QED
    BY <1>1, <1>2, <2>3, <2>4, ResumeBack
<1>8. ASSUME content[f] # <<>>
      PROVE  Resume(f)' <= Resume(f)
  <2>1. Placed(f) /\ \A p : AtPos(f, p) => p \in Int
    BY <1>1, <1>8, PositionsAreLines DEF PlacesInv
  <2>2. PICK q : q = staged_tokens'[f]
    OBVIOUS
  <2>3. AtPos(f, q)' /\ AtPos(f, q) /\ q \in Int
    BY <1>4, <1>5, <1>6, <2>1, <2>2 DEF AtPos
  <2>4. \A p : AtPos(f, p) => q <= p
    <3> SUFFICES ASSUME NEW p, AtPos(f, p)
                 PROVE  q <= p
      OBVIOUS
    <3>1. p \in Int /\ q \in Int
      BY <2>1, <2>3
    <3>2. ASSUME NEW j \in DOMAIN batch, HeldFile(j) = f
          PROVE  q <= HeldPos(j)
      <4>1. isTokenAvailable(f) => q <= HeldPos(j)
        BY <1>6, <2>1, <2>2, <3>2 DEF Placed, StagedIsFirst
      <4>2. j = 1 \/ 1 < j
        <5>1. batch \in Seq(HeldToken)
          BY <1>1 DEF TInv, TypeOK
        <5>2. QED
          BY <5>1
      <4>3. 1 < j => pos < HeldPos(j)
        BY <1>4, <1>5, <2>1, <3>2 DEF Placed, HeldAscend
      <4>4. HeldPos(j) \in Int
        BY <1>1, HeldPosType
      <4>5. QED
        BY <1>5, <1>6, <2>2, <4>1, <4>2, <4>3, <4>4
    <3>3. f = active_read_file /\ ~ isTokenAvailable(f) => q < read_pos
      BY <1>4, <1>5, <1>6, <2>1, <2>2 DEF Placed, StreamIsLast
    <3>4. isTokenAvailable(f) => q = staged_tokens[f]
      BY <1>6, <2>2
    <3>5. QED
      BY <3>1, <3>2, <3>3, <3>4 DEF AtPos
  <2>5. QED
    BY <1>1, <1>2, <1>4, <1>5, <2>3, <2>4, ResumeBack
<1>9. \A g \in Path : content[g] # <<>> => Resume(g)' <= Resume(g)
  BY <1>7, <1>8
<1>10. QED
  BY <1>1, <1>2, <1>9, StoreForgets

(* Steps that leave tokens, stream, contents and history alone. *)
LEMMA QuietStore ==
    ASSUME StoreInv, StoreInv',
           UNCHANGED <<token_store, staged_tokens, batch, readVars, mode, content, history>>,
           UNCHANGED backup_file \/ (Up /\ Up')
    PROVE  [Store!StoreNext]_(Store!storeVars)
<1>1. /\ TInv /\ ContentInv /\ OrderInv /\ LinesInv
      /\ PlacesInv /\ ResumeInv /\ ResumeInv' /\ PendingInv /\ PendingInv'
  BY DEF StoreInv, PlacedInv, StorageInv
<1>2. \A f \in Path : \A p : AtPos(f, p)' <=> AtPos(f, p)
  BY DEF AtPos, HeldFile, HeldPos, isTokenAvailable, readVars
<1>3. \A p \in Int : p <= p
  OBVIOUS
<1>4. \A f \in Path : Resume(f) \in Int
  BY <1>1 DEF ResumeInv
<1>5. \A f \in Path : Resume(f)' <= Resume(f)
  <2>1. CASE UNCHANGED backup_file
    <3>1. \A f \in Path : Resume(f)' = Resume(f)
      BY <1>1, <1>2, <2>1, SameResume
    <3>2. QED
      BY <1>3, <1>4, <3>1
  <2>2. CASE Up /\ Up'
    BY <1>1, <1>2, <1>3, <2>2, ResumeBack
  <2>3. QED
    BY <2>1, <2>2
<1>6. QED
  BY <1>1, <1>5, StoreForgets

LEMMA ShutdownStore ==
    ASSUME StoreInv, StoreInv', Shutdown
    PROVE  [Store!StoreNext]_(Store!storeVars)
<1>1. /\ TInv /\ ContentInv /\ OrderInv /\ LinesInv
      /\ ResumeInv /\ ResumeInv' /\ PendingInv /\ PendingInv'
  BY DEF StoreInv, PlacedInv, StorageInv
<1>2. /\ Up /\ Up' /\ UNCHANGED <<content, history>>
      /\ UNCHANGED <<active_read_file, read_pos, batch, staged_tokens>>
      /\ \A i \in DOMAIN batch : HeldFile(i)' = HeldFile(i) /\ HeldPos(i)' = HeldPos(i)
  BY <1>1, ShutdownHeld DEF Shutdown, OrderInv, readVars, Up
<1>3. \A f \in Path : \A p : AtPos(f, p)' <=> AtPos(f, p)
  BY <1>2 DEF AtPos, isTokenAvailable
<1>4. \A p \in Int : p <= p
  OBVIOUS
<1>5. \A f \in Path : Resume(f)' <= Resume(f)
  BY <1>1, <1>2, <1>3, <1>4, ResumeBack
<1>6. QED
  BY <1>1, <1>2, <1>5, StoreForgets

(* What a process starts from is what the backup has, and where it ends,   *)
(* the backup is not behind it.                                            *)
LEMMA StartStore ==
    ASSUME StoreInv, StoreInv', Start
    PROVE  [Store!StoreNext]_(Store!storeVars)
<1>1. /\ TInv /\ FilesInv /\ OrderInv /\ LinesInv
      /\ ResumeInv /\ ResumeInv' /\ PendingInv /\ PendingInv'
  BY DEF StoreInv, PlacedInv, StorageInv
<1>2. /\ ~ Up /\ Up' /\ UNCHANGED <<content, history>> /\ staged_tokens' = backup_file
      /\ batch' = <<>> /\ active_read_file' = NoFile
  <2>1. staged_tokens' = backup_file
    <3>1. staged_tokens' = [f \in Path |-> backup_file[f]]
      BY DEF Start, restore
    <3>2. QED
      BY <1>1, <3>1, FileTypes
  <2>2. QED
    BY <1>1, <2>1 DEF Start, readVars, clientVars, TInv, ProcessInv, FilesInv, Exclusive, Up
<1>3. ASSUME NEW f \in Path
      PROVE  Resume(f)' <= Resume(f)
  <2>1. \A p : AtPos(f, p)' <=> backup_file[f] # NoPos /\ p = backup_file[f]
    BY <1>2, TokenStoreAssumption DEF AtPos, isTokenAvailable
  <2>2. PICK r : r = Resume(f)'
    OBVIOUS
  <2>3. /\ r \in Int
        /\ AtPos(f, r)' \/ (r = 0 /\ \A p : ~ AtPos(f, p)')
    BY <1>1, <1>2, <2>2 DEF ResumeInv
  <2>4. r = Resume(f)
    BY <1>1, <1>2, <2>1, <2>3 DEF ResumeInv
  <2>5. QED
    BY <2>2, <2>3, <2>4
<1>4. QED
  BY <1>1, <1>2, <1>3, StoreForgets

LEMMA EndStore ==
    ASSUME StoreInv, StoreInv', Up, LoseMemory, UNCHANGED <<diskVars, history>>
    PROVE  [Store!StoreNext]_(Store!storeVars)
<1>1. /\ TInv /\ OrderInv /\ LinesInv /\ PlacesInv
      /\ ResumeInv /\ ResumeInv' /\ PendingInv /\ PendingInv'
  BY DEF StoreInv, PlacedInv, StorageInv
<1>2. ~ Up' /\ UNCHANGED <<content, backup_file>>
  BY DEF LoseMemory, diskVars, Up
<1>3. ASSUME NEW f \in Path, content[f] # <<>>
      PROVE  Resume(f)' <= Resume(f)
  <2>1. Placed(f) /\ \A p : AtPos(f, p) => p \in Nat
    BY <1>1, <1>3, PositionsAreLines DEF PlacesInv
  <2>2. Resume(f)' = IF backup_file[f] = NoPos THEN 0 ELSE backup_file[f]
    BY <1>1, <1>2 DEF ResumeInv
  <2>3. AtPos(f, Resume(f)) \/ (Resume(f) = 0 /\ \A p : ~ AtPos(f, p))
    BY <1>1 DEF ResumeInv
  <2>4. CASE backup_file[f] = NoPos
    BY <2>1, <2>2, <2>3, <2>4
  <2>5. CASE backup_file[f] # NoPos
    BY <2>1, <2>2, <2>3, <2>5 DEF Placed, SavedIsFirst
  <2>6. QED
    BY <2>4, <2>5
<1>4. QED
  BY <1>1, <1>2, <1>3, StoreForgets

(* A record that is written is pending, behind all that was read.          *)
LEMMA AppendStore ==
    ASSUME StoreInv, StoreInv', UniqueNames, NEW w \in Writer, append(w)
    PROVE  [Store!StoreNext]_(Store!storeVars)
<1>1. /\ TInv /\ NamesInv /\ ContentInv /\ OrderInv /\ LinesInv
      /\ ResumeInv /\ ResumeInv' /\ PendingInv /\ PendingInv' /\ TInv'
  BY DEF StoreInv, PlacedInv, StorageInv, FilesInv
<1>2. PICK a \in Path :
        /\ a = active_write_file /\ Up
        /\ \A f \in Path : f # a => content'[f] = content[f]
        /\ DOMAIN content[a] \subseteq DOMAIN content'[a]
        /\ \A k \in DOMAIN content[a] : content'[a][k] = content[a][k]
        /\ \E l \in DOMAIN content'[a] :
             /\ content'[a][l] = written + 1 /\ l = Len(content[a]) + 1
             /\ \A k \in DOMAIN content'[a] : k \in DOMAIN content[a] \/ k = l
  BY <1>1, AppendedRecord
<1>3. PICK l \in DOMAIN content'[a] :
        /\ content'[a][l] = written + 1 /\ l > 0
        /\ \A k \in DOMAIN content'[a] : k \in DOMAIN content[a] \/ k = l
  <2>1. content[a] \in Seq(Record)
    BY <1>1, ContentTypes
  <2>2. Len(content[a]) \in Nat
    BY <2>1
  <2>3. QED
    BY <1>2, <2>2
<1>4. /\ UNCHANGED <<token_store, staged_tokens, batch, active_read_file, read_pos, mode,
                     backup_file, acked, dropped>>
      /\ written' = written + 1
  BY DEF append, tokenVars, clientVars, readVars, processVars
<1>5. \A f \in Path : Resume(f)' = Resume(f)
  BY <1>1, <1>4, QuietResume
<1>6. Resume(a) = 0
  <2>1. /\ \A i \in DOMAIN batch : HeldFile(i) # a
        /\ active_read_file # a /\ staged_tokens[a] = NoPos
    BY <1>1, <1>2, WriteFileUnused DEF LinesInv
  <2>2. \A p : ~ AtPos(a, p)
    BY <2>1 DEF AtPos, isTokenAvailable
  <2>3. QED
    BY <1>1, <1>2, <2>2 DEF ResumeInv
<1>7. PICK r : r = written + 1
  OBVIOUS
<1>8. \A s : s \in Pending' <=> s \in Pending \/ s = r
  <2>1. \A s : s \in Pending' <=>
          \E f \in Path : \E k \in DOMAIN content'[f] : k > Resume(f) /\ content'[f][k] = s
    BY <1>1, <1>5 DEF PendingInv
  <2>2. \A f \in Path : \A k \in DOMAIN content[f] :
          k \in DOMAIN content'[f] /\ content'[f][k] = content[f][k]
    BY <1>2
  <2>3. \A f \in Path : \A k \in DOMAIN content'[f] :
          \/ k \in DOMAIN content[f] /\ content'[f][k] = content[f][k]
          \/ f = a /\ k = l /\ content'[f][k] = r
    BY <1>2, <1>3, <1>7
  <2>4. r \in Pending'
    BY <1>3, <1>6, <1>7, <2>1
  <2>5. \A s : s \in Pending => s \in Pending'
    BY <1>1, <2>1, <2>2 DEF PendingInv
  <2>6. \A s : s \in Pending' => s \in Pending \/ s = r
    BY <1>1, <2>1, <2>3 DEF PendingInv
  <2>7. QED
    BY <2>4, <2>5, <2>6
<1>9. /\ r \in Record /\ r \notin 1..written
      /\ (1..written)' = 1..written \cup {r}
  <2>1. written \in Nat /\ written' \in 0..MaxRecord /\ MaxRecord \in Nat
    BY <1>1, StrategyAssumption DEF TInv, TypeOK
  <2>2. 1..(written + 1) = 1..written \cup {written + 1}
    BY <2>1
  <2>3. QED
    BY <1>4, <1>7, <2>1, <2>2 DEF Record
<1>10. Pending' = Pending \cup {r}
  BY <1>8
<1>11. Store!Accept(r)
  BY <1>4, <1>9, <1>10 DEF Store!Accept
<1>12. QED
  BY <1>9, <1>11 DEF Store!StoreNext

(* The records of a file that is deleted were pending or uploaded, and no  *)
(* other file has them.                                                    *)
LEMMA DeleteStore ==
    ASSUME StoreInv, StoreInv', NEW w \in Writer, deleteOldestFile(w)
    PROVE  [Store!StoreNext]_(Store!storeVars)
<1>1. /\ TInv /\ ContentInv /\ OrderInv /\ LinesInv
      /\ ResumeInv /\ ResumeInv' /\ PendingInv /\ PendingInv'
  BY DEF StoreInv, PlacedInv, StorageInv
<1>2. PICK d \in Path :
        /\ deleteFile(d)
        /\ d = active_read_file \/ UNCHANGED readVars
        /\ UNCHANGED readVars \/ active_read_file' = NoFile
        /\ dropped' = dropped \cup Range(content[d])
  BY DEF deleteOldestFile
<1>3. UNCHANGED <<token_store, staged_tokens, batch, backup_file, mode, written, acked>>
  BY <1>2 DEF deleteOldestFile, deleteFile, clientVars, diskVars, processVars, tokenVars
<1>4. content'[d] = <<>> /\ \A f \in Path : f # d => content'[f] = content[f]
  <2>1. d \in files => /\ content'[d] = <<>>
                       /\ \A f \in Path : f # d => content'[f] = content[f]
    BY <1>1, <1>2, ContentTypes DEF deleteFile
  <2>2. d \notin files => content[d] = <<>> /\ content' = content
    BY <1>1, <1>2 DEF ContentInv, deleteFile, diskVars
  <2>3. QED
    BY <2>1, <2>2
<1>5. PICK S : S = Range(content[d])
  OBVIOUS
<1>6. \A r : r \in S <=> \E k \in DOMAIN content[d] : content[d][k] = r
  BY <1>5 DEF Range
<1>7. \A f \in Path : f # d => Resume(f)' = Resume(f)
  <2> SUFFICES ASSUME NEW f \in Path, f # d
               PROVE  Resume(f)' = Resume(f)
    OBVIOUS
  <2>1. /\ f = active_read_file' <=> f = active_read_file
        /\ f = active_read_file => read_pos' = read_pos
    BY <1>2, TokenStoreAssumption DEF readVars
  <2>2. QED
    BY <1>1, <1>3, <2>1, QuietResume
<1>8. Pending' = Pending \ S
  <2>1. ASSUME NEW r, r \in Pending'
        PROVE  r \in Pending /\ r \notin S
    <3>1. PICK f \in Path : \E k \in DOMAIN content'[f] : k > Resume(f)' /\ content'[f][k] = r
      BY <1>1, <2>1 DEF PendingInv
    <3>2. f # d
      BY <1>4, <3>1
    <3>3. \E k \in DOMAIN content[f] : k > Resume(f) /\ content[f][k] = r
      BY <1>4, <1>7, <3>1, <3>2
    <3>4. r \notin S
      BY <1>1, <1>6, <3>2, <3>3 DEF LinesInv, InOnePlace
    <3>5. QED
      BY <1>1, <3>3, <3>4 DEF PendingInv
  <2>2. ASSUME NEW r, r \in Pending, r \notin S
        PROVE  r \in Pending'
    <3>1. PICK f \in Path : \E k \in DOMAIN content[f] : k > Resume(f) /\ content[f][k] = r
      BY <1>1, <2>2 DEF PendingInv
    <3>2. f # d
      BY <1>6, <2>2, <3>1
    <3>3. \E k \in DOMAIN content'[f] : k > Resume(f)' /\ content'[f][k] = r
      BY <1>4, <1>7, <3>1, <3>2
    <3>4. QED
      BY <1>1, <3>3 DEF PendingInv
  <2>3. QED
    BY <2>1, <2>2
<1>9. S \subseteq Pending \cup acked
  <2> SUFFICES ASSUME NEW r \in S
               PROVE  r \in Pending \/ r \in acked
    OBVIOUS
  <2>1. PICK k \in DOMAIN content[d] : content[d][k] = r
    BY <1>6
  <2>2. k > Resume(d) \/ k <= Resume(d)
    BY <1>1, Indices DEF ResumeInv
  <2>3. QED
    BY <1>1, <2>1, <2>2, NothingBeforeResume DEF PendingInv
<1>10. S \in SUBSET Record
  BY <1>1, <1>6, Indices
<1>11. (1..written)' = 1..written /\ dropped' = dropped \cup S
  BY <1>2, <1>3, <1>5
<1>12. CASE S = {}
  <2>1. Pending' = Pending /\ dropped' = dropped
    BY <1>8, <1>11, <1>12
  <2>2. QED
    BY <1>3, <1>11, <2>1 DEF Store!storeVars
<1>13. CASE S # {}
  <2>1. Store!Drop(S)
    BY <1>3, <1>8, <1>9, <1>11, <1>13 DEF Store!Drop
  <2>2. QED
    BY <1>10, <2>1 DEF Store!StoreNext
<1>14. QED
  BY <1>12, <1>13

(* Of a file whose first token held is resolved as sent, the line of the   *)
(* token is the next, and then the one after it.                           *)
LEMMA SentResume ==
    ASSUME StoreInv, StoreInv', InOrder, NEW i, resolveSent(i),
           NEW f \in Path, f = HeldFile(1), content[f] # <<>>
    PROVE  /\ LineAt(f, HeldPos(1)) /\ Resume(f) = HeldPos(1)
           /\ content'[f] # <<>> => Resume(f)' = HeldPos(1) + 1
<1>1. /\ TInv /\ TokenInv /\ StagedXorTracked /\ ContentInv /\ OrderInv /\ LinesInv
      /\ PlacesInv /\ ResumeInv /\ ResumeInv' /\ TInv' /\ OrderInv' /\ PlacesInv'
  BY DEF StoreInv, PlacedInv, StorageInv
<1>2. /\ i = 1 /\ Up /\ Up' /\ UNCHANGED <<active_read_file, read_pos, backup_file>>
      /\ FirstSettled(batch[1].token)
  BY <1>1, ResolveFirst DEF readVars, Up
<1>3. PICK t : t = batch[1].token /\ FirstSettled(t)
  BY <1>2
<1>4. /\ verdict = "sent" /\ 1 \in DOMAIN batch
      /\ staged_tokens' = staged_tokens
  BY <1>1, <1>2, <1>3, ResolveLists DEF FirstSettled, resolveSent
<1>5. Placed(f) /\ \A p : AtPos(f, p) => LineAt(f, p) /\ p \in Nat
  BY <1>1, PositionsAreLines DEF PlacesInv
<1>6. PICK pos : pos = HeldPos(1)
  OBVIOUS
<1>7. AtPos(f, pos) /\ pos \in Nat /\ LineAt(f, pos) /\ ~ isTokenAvailable(f)
  BY <1>1, <1>4, <1>5, <1>6, HeldAreTracked DEF AtPos
<1>8. \A p : AtPos(f, p) => p = pos \/ pos < p
  <2> SUFFICES ASSUME NEW p, AtPos(f, p)
               PROVE  p = pos \/ pos < p
    OBVIOUS
  <2>1. ASSUME NEW j \in DOMAIN batch, HeldFile(j) = f
        PROVE  HeldPos(j) = pos \/ pos < HeldPos(j)
    <3>1. j = 1 \/ 1 < j
      <4>1. batch \in Seq(HeldToken)
        BY <1>1 DEF TInv, TypeOK
      <4>2. QED
        BY <4>1
    <3>2. QED
      BY <1>4, <1>5, <1>6, <2>1, <3>1 DEF Placed, HeldAscend
  <2>2. f = active_read_file => pos < read_pos
    BY <1>4, <1>5, <1>6, <1>7 DEF Placed, StreamIsLast
  <2>3. QED
    BY <1>7, <2>1, <2>2 DEF AtPos
<1>9. Resume(f) = pos
  <2>1. Resume(f) \in Int /\ Resume(f) <= pos /\ AtPos(f, Resume(f))
    BY <1>1, <1>2, <1>7 DEF ResumeInv
  <2>2. QED
    BY <1>7, <1>8, <2>1
<1>10. ASSUME content'[f] # <<>>
       PROVE  Resume(f)' = pos + 1
  <2>1. content'[f] = content[f] /\ ~ HeldEof(1)
    BY <1>1, <1>10, SentContent
  <2>2. AloneButHeld(f)
    BY <1>2, <1>4, <2>1 DEF AloneButHeld
  <2>3. AtPos(f, pos + 1)
    BY <1>4, <1>5, <1>6, <1>7, <2>1 DEF Placed, NextFollows
  <2>4. AtPos(f, pos + 1)'
    <3>1. PICK q : q = pos + 1
      OBVIOUS
    <3>2. AtPos(f, q) /\ q # HeldPos(1)
      BY <1>6, <1>7, <2>3, <3>1
    <3>3. AtPos(f, q)'
      BY <1>1, <1>3, <2>2, <3>2, OthersStay
    <3>4. QED
      BY <3>1, <3>3
  <2>5. \A p : AtPos(f, p)' => AtPos(f, p) /\ p # pos
    <3>1. ASSUME NEW j \in DOMAIN batch', HeldFile(j)' = f
          PROVE  \E k \in DOMAIN batch : /\ HeldFile(k) = f /\ HeldPos(k) = HeldPos(j)'
                                         /\ HeldPos(1) < HeldPos(k)
      <4>1. /\ j + 1 \in DOMAIN batch /\ 1 < j + 1
            /\ HeldFile(j + 1) = f /\ HeldPos(j + 1) = HeldPos(j)'
        BY <1>1, <1>3, <3>1, SettledHeld DEF FirstSettled
      <4>2. HeldPos(1) < HeldPos(j + 1)
        BY <1>4, <1>5, <4>1 DEF Placed, HeldAscend
      <4>3. QED
        BY <4>1, <4>2
    <3>2. \A k \in DOMAIN batch : HeldPos(1) < HeldPos(k) => HeldPos(k) # pos
      BY <1>1, <1>6, <1>7, HeldPosType
    <3>3. f = active_read_file => read_pos # pos
      <4>1. f = active_read_file => HeldPos(1) < read_pos
        BY <1>4, <1>5, <1>7 DEF Placed, StreamIsLast
      <4>2. read_pos \in Int
        BY <1>1 DEF TInv, TypeOK, Pos, Bad
      <4>3. QED
        BY <1>6, <1>7, <4>1, <4>2
    <3>4. ~ isTokenAvailable(f)'
      BY <1>4, <1>7 DEF isTokenAvailable
    <3>5. QED
      BY <1>2, <1>7, <3>1, <3>2, <3>3, <3>4 DEF AtPos
  <2>6. PICK r : r = Resume(f)'
    OBVIOUS
  <2>7. r \in Int /\ r <= pos + 1 /\ AtPos(f, r)'
    BY <1>1, <1>2, <2>4, <2>6 DEF ResumeInv
  <2>8. r > pos
    BY <1>8, <2>5, <2>7
  <2>9. QED
    BY <1>7, <2>6, <2>7, <2>8
<1>11. QED
  BY <1>6, <1>7, <1>9, <1>10

LEMMA SentStore ==
    ASSUME StoreInv, StoreInv', InOrder, NEW i, resolveSent(i)
    PROVE  [Store!StoreNext]_(Store!storeVars)
<1>1. /\ TInv /\ TokenInv /\ StagedXorTracked /\ ContentInv /\ OrderInv /\ LinesInv
      /\ PlacesInv /\ ResumeInv /\ ResumeInv' /\ PendingInv /\ PendingInv'
  BY DEF StoreInv, PlacedInv, StorageInv
<1>2. /\ i = 1 /\ mode' = mode /\ UNCHANGED <<active_read_file, read_pos, backup_file, written>>
      /\ FirstSettled(batch[1].token)
  BY <1>1, ResolveFirst DEF readVars
<1>3. PICK t : t = batch[1].token /\ FirstSettled(t)
  BY <1>2
<1>4. /\ 1 \in DOMAIN batch /\ staged_tokens' = staged_tokens
      /\ acked' = acked \cup ({batch[1].record} \ {NoRecord})
      /\ dropped' = dropped
  BY <1>1, <1>2, <1>3, ResolveLists DEF FirstSettled, resolveSent
<1>5. PICK f \in Path, pos \in Int : f = HeldFile(1) /\ pos = HeldPos(1)
  BY <1>1, <1>4, FirstPosition
<1>6. PICK r \in Record \cup {NoRecord} : r = batch[1].record
  <2>1. batch[1] \in HeldToken
    BY <1>1, <1>4 DEF TInv, TypeOK
  <2>2. QED
    BY <2>1 DEF HeldToken
<1>7. /\ r <= written
      /\ \A g \in Path : \A l \in DOMAIN content[g] : content[g][l] = r <=> g = f /\ l = pos + 1
  BY <1>1, <1>4, <1>5, <1>6 DEF LinesInv, HeldRecords
<1>8. \A g \in Path : g # f => content'[g] = content[g] /\ Resume(g)' = Resume(g)
  <2> SUFFICES ASSUME NEW g \in Path, g # f
               PROVE  content'[g] = content[g] /\ Resume(g)' = Resume(g)
    OBVIOUS
  <2>1. content'[g] = content[g]
    BY <1>1, <1>5, SentContent
  <2>2. AloneButHeld(g)
    BY <1>2, <1>4, <2>1 DEF AloneButHeld
  <2>3. PICK m : LessAt(g, m) /\ AllAt(g)
    BY <1>1, <1>3, <1>5, <2>2, ResolveAlone
  <2>4. \A p : AtPos(g, p)' <=> AtPos(g, p)
    BY <2>3, SamePositions
  <2>5. Resume(g)' = Resume(g)
    BY <1>1, <1>2, <2>4, SameResume
  <2>6. QED
    BY <2>1, <2>5
<1>9. /\ content'[f] = <<>> \/ (content'[f] = content[f] /\ ~ HeldEof(1))
      /\ HeldEof(1) \/ content'[f] = content[f]
  BY <1>1, <1>5, SentContent
<1>10. content[f] # <<>> => /\ LineAt(f, pos) /\ Resume(f) = pos
                            /\ content'[f] # <<>> => Resume(f)' = pos + 1
  BY <1>5, SentResume
<1>11. \A k \in DOMAIN content[f] : k \in Int /\ content[f] # <<>>
  <2>1. content[f] = <<>> => DOMAIN content[f] = {}
    OBVIOUS
  <2>2. QED
    BY <1>1, <2>1, Indices
<1>12. ASSUME NEW s, s \in Pending'
       PROVE  s \in Pending /\ s # r
  <2>1. PICK g \in Path : \E k \in DOMAIN content'[g] : k > Resume(g)' /\ content'[g][k] = s
    BY <1>1, <1>12 DEF PendingInv
  <2>2. CASE g # f
    <3>1. PICK k \in DOMAIN content[g] : k > Resume(g) /\ content[g][k] = s
      BY <1>8, <2>1, <2>2
    <3>2. QED
      BY <1>1, <1>7, <2>2, <3>1 DEF PendingInv
  <2>3. CASE g = f
    <3>1. content'[f] # <<>> /\ content'[f] = content[f]
      BY <1>9, <2>1, <2>3
    <3>2. PICK k \in DOMAIN content[f] : k > pos + 1 /\ content[f][k] = s
      BY <1>10, <2>1, <2>3, <3>1
    <3>3. k > Resume(f) /\ k # pos + 1
      BY <1>10, <1>11, <3>2
    <3>4. QED
      BY <1>1, <1>7, <3>2, <3>3 DEF PendingInv
  <2>4. QED
    BY <2>2, <2>3
<1>13. ASSUME NEW s, s \in Pending, s # r
       PROVE  s \in Pending'
  <2>1. PICK g \in Path : \E k \in DOMAIN content[g] : k > Resume(g) /\ content[g][k] = s
    BY <1>1, <1>13 DEF PendingInv
  <2>2. CASE g # f
    <3>1. \E k \in DOMAIN content'[g] : k > Resume(g)' /\ content'[g][k] = s
      BY <1>8, <2>1, <2>2
    <3>2. QED
      BY <1>1, <3>1 DEF PendingInv
  <2>3. CASE g = f
    <3>1. PICK k \in DOMAIN content[f] : k > Resume(f) /\ content[f][k] = s
      BY <2>1, <2>3
    <3>2. k > pos /\ k # pos + 1
      BY <1>7, <1>10, <1>11, <1>13, <3>1
    <3>3. LineAt(f, pos + 1)
      <4>1. PICK n \in Nat : DOMAIN content[f] = 1..n
        <5>1. content[f] \in Seq(Record)
          BY <1>1, ContentTypes
        <5>2. QED
          BY <5>1
      <4>2. pos + 1 \in 1..n /\ k \in 1..n
        BY <1>10, <1>11, <3>1, <4>1 DEF LineAt
      <4>3. (pos + 1) + 1 \in 1..n
        BY <3>2, <4>2
      <4>4. QED
        BY <4>1, <4>3 DEF LineAt
    <3>4. ~ HeldEof(1)
      BY <1>1, <1>4, <1>5, <1>11, <3>1, <3>3 DEF PlacesInv, Placed, LastIsLast
    <3>5. content'[f] = content[f] /\ content'[f] # <<>>
      BY <1>9, <1>11, <3>1, <3>4
    <3>6. k > Resume(f)'
      BY <1>10, <1>11, <3>1, <3>2, <3>5
    <3>7. QED
      BY <1>1, <3>1, <3>5, <3>6 DEF PendingInv
  <2>4. QED
    BY <2>2, <2>3
<1>14. Pending' = Pending \ {r}
  BY <1>12, <1>13
<1>15. (1..written)' = 1..written
  BY <1>2
<1>16. CASE r = NoRecord
  <2>1. acked' = acked
    BY <1>4, <1>6, <1>16
  <2>2. r \notin Pending
    BY <1>1, <1>16, Indices DEF PendingInv
  <2>3. Pending' = Pending
    BY <1>14, <2>2
  <2>4. QED
    BY <1>4, <1>15, <2>1, <2>3 DEF Store!storeVars
<1>17. CASE r # NoRecord
  <2>1. r \in Record /\ acked' = acked \cup {r}
    BY <1>4, <1>6, <1>17
  <2>2. r \in 1..written
    <3>1. r \in Nat \ {0} /\ written \in Nat
      BY <1>1, <2>1, ContentTypes, StrategyAssumption DEF Record
    <3>2. QED
      BY <1>7, <3>1
  <2>3. Store!Upload(r)
    BY <1>4, <1>14, <1>15, <2>1, <2>2 DEF Store!Upload
  <2>4. QED
    BY <2>1, <2>3 DEF Store!StoreNext
<1>18. QED
  BY <1>16, <1>17

LEMMA StoreStep ==
    ASSUME StoreInv, StoreInv', InOrder, UniqueNames, [Next]_vars
    PROVE  [Store!StoreNext]_(Store!storeVars)
<1>1. CASE UNCHANGED <<tokenVars, batch, readVars, mode, diskVars, history>>
  BY <1>1, QuietStore DEF tokenVars, diskVars
<1>2. ASSUME NEW w \in Writer, Write(w)
      PROVE  [Store!StoreNext]_(Store!storeVars)
  <2>1. CASE checkIfWriteFileShouldRotate(w) \/ checkIfStorageLimitHasBeenReached(w)
    BY <1>1, <2>1 DEF checkIfWriteFileShouldRotate, checkIfStorageLimitHasBeenReached,
       clientVars, processVars
  <2>2. CASE deleteFromEmptyList(w)
    <3>1. Up
      BY <2>2 DEF deleteFromEmptyList, Idle, StoreInv, TInv, ProcessInv, Up
    <3>2. QED
      BY <2>2, <3>1, EndStore DEF deleteFromEmptyList
  <2>3. QED
    BY <1>2, <2>1, <2>2, DeleteStore, AppendStore DEF Write
<1>3. CASE Complete \/ UNCHANGED vars
  BY <1>1, <1>3 DEF Complete, vars, clientVars, processVars
<1>4. CASE Resolve
  BY <1>4, SentStore, FailedStore DEF Resolve
<1>5. CASE ProcessEnds
  BY <1>5, EndStore DEF ProcessEnds
<1>6. QED
  BY <1>2, <1>3, <1>4, <1>5, ReadStore, ShutdownStore, StartStore DEF Next

LEMMA StoreStarts == Init => Store!StoreInit
<1> SUFFICES ASSUME Init
             PROVE  Store!StoreInit
  OBVIOUS
<1>1. written = 0 /\ acked = {} /\ dropped = {} /\ \A f \in Path : content[f] = <<>>
  BY DEF Init
<1>2. \A f \in Path : DOMAIN content[f] = {}
  BY <1>1
<1>3. Pending = {}
  BY <1>2 DEF Pending
<1>4. 1..written = {}
  BY <1>1
<1>5. QED
  BY <1>1, <1>3, <1>4 DEF Store!StoreInit

LEMMA PlacedInvInit == Init => PlacedInv
<1>1. Init => PlacesInv
  BY DEF Init, PlacesInv
<1>2. Init => ReachInv
  BY DEF Init, ReachInv, KnownHeld
<1>3. QED
  BY <1>1, <1>2, StorageInvInit DEF PlacedInv

LEMMA PlacedInvNext ==
    ASSUME TInv, PlacedInv, InOrder, UniqueNames, \A f \in Path : Discoverable(f), [Next]_vars
    PROVE  PlacedInv'
<1>1. StorageInv' /\ PlacesInv'
  BY StorageInvNext, PlacesInvNext DEF PlacedInv
<1>2. ReachInv'
  BY ReachInvNext DEF PlacedInv, StorageInv
<1>3. QED
  BY <1>1, <1>2 DEF PlacedInv

(* The storage keeps its promise: through failed uploads, deletions for    *)
(* the storage limit, shutdowns and crashes at any point, a record that    *)
(* was written is in a file from which it will still be read, until it was *)
(* uploaded or its file was deleted to make room; and no restart makes     *)
(* records pending that were neither uploaded nor pending.  The            *)
(* hypotheses: a batch is resolved in the order it was read; no two files  *)
(* are named in one second; and the discovery pattern matches each name    *)
(* (FileManagerStrategy as a whole; TokenStore::backup, restore, fail).    *)
THEOREM StorageIsAtLeastOnce ==
    ASSUME InOrder, UniqueNames, \A f \in Path : Discoverable(f)
    PROVE  Spec => ImplementsStore
<1>1. TInv /\ PlacedInv /\ [Next]_vars => PlacedInv'
  BY PlacedInvNext
<1>2. TInv /\ PlacedInv => ResumeInv /\ PendingInv
  BY ResumeInvHolds, PendingInvHolds DEF PlacedInv, StorageInv
<1>3. TInv /\ PlacedInv => StoreInv
  BY <1>2 DEF StoreInv
<1>4. StoreInv /\ StoreInv' /\ [Next]_vars => [Store!StoreNext]_(Store!storeVars)
  BY StoreStep
<1>5. QED
  BY <1>1, <1>3, <1>4, PlacedInvInit, StoreStarts, TInvHolds, PTL
     DEF Spec, ImplementsStore, Store!StoreSpec

(* What this means for the records: each that was written is pending, was  *)
(* uploaded or was deleted to make room, and there are no others           *)
(* (write, resolve, deleteOldestFile, discoverStoredFiles).                *)
THEOREM NoRecordIsLost ==
    ASSUME InOrder, UniqueNames, \A f \in Path : Discoverable(f)
    PROVE  Spec => []Store!Conserved
<1>1. Store!StoreInit => Store!Conserved
  BY DEF Store!StoreInit, Store!Conserved
<1>2. ASSUME Store!Conserved, [Store!StoreNext]_(Store!storeVars)
      PROVE  Store!Conserved'
  <2>1. CASE UNCHANGED Store!storeVars
    BY <1>2, <2>1 DEF Store!storeVars, Store!Conserved
  <2>2. ASSUME NEW r \in Record, Store!Accept(r) \/ Store!Upload(r)
        PROVE  Store!Conserved'
    BY <1>2, <2>2 DEF Store!Accept, Store!Upload, Store!Conserved
  <2>3. ASSUME NEW S \in SUBSET Record, Store!Drop(S) \/ Store!Forget(S)
        PROVE  Store!Conserved'
    BY <1>2, <2>3 DEF Store!Drop, Store!Forget, Store!Conserved
  <2>4. QED
    BY <1>2, <2>1, <2>2, <2>3 DEF Store!StoreNext
<1>3. Spec => ImplementsStore
  BY StorageIsAtLeastOnce
<1>4. QED
  BY <1>1, <1>2, <1>3, PTL DEF ImplementsStore, Store!StoreSpec
=============================================================================
