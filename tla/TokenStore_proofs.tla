-------------------------- MODULE TokenStore_proofs --------------------------
(***************************************************************************)
(* Theorems about the tokens of the offline storage, for every number of   *)
(* files, writers, batches and restarts, whether or not file names are     *)
(* used again, and in whatever order the caller resolves a batch.          *)
(***************************************************************************)
EXTENDS FileManagerStrategy_proofs

(* No step but these touches the tokens. *)
LEMMA TokenSteps ==
    ASSUME [Next]_vars
    PROVE  \/ UNCHANGED <<tokenVars, clientVars>>
           \/ Read \/ Complete \/ Resolve \/ Start \/ Shutdown \/ LoseMemory
  BY DEF Next, Write, checkIfWriteFileShouldRotate, checkIfStorageLimitHasBeenReached,
     deleteOldestFile, deleteFromEmptyList, append, ProcessEnds, vars

(* Each read ends in ReadLine of a file. *)
LEMMA ReadReads ==
    ASSUME TInv, Read
    PROVE  /\ verdict = "open" /\ verdict' = "open"
           /\ \E f \in Path, p \in Pos, stored \in [Path -> Nat] : ReadLine(f, p, stored)
<1>1. verdict = "open" /\ verdict' = "open" /\ Up
  BY DEF Read, readActiveFile, readStoredFile, readWriteFile, MayRead
<1>2. stored_files \in [Path -> Nat] /\ read_pos \in Pos /\ \A f : StartOf(f) \in Pos
  BY DEF TInv, TypeOK, StartOf, Pos
<1>3. CASE readActiveFile
  BY <1>1, <1>2, <1>3 DEF readActiveFile, TInv, TypeOK
<1>4. CASE readStoredFile
  <2>1. PICK f \in Path : ReadLine(f, StartOf(f), Erase(stored_files, f))
    BY <1>4 DEF readStoredFile
  <2>2. QED
    BY <1>1, <1>2, <2>1, PushType
<1>5. CASE readWriteFile
  <2>1. active_write_file \in Path
    BY <1>1 DEF TInv, ProcessInv
  <2>2. ReadLine(active_write_file, StartOf(active_write_file),
                 Push(stored_files, active_write_file))
    BY <1>5 DEF readWriteFile
  <2>3. QED
    BY <1>1, <1>2, <2>1, <2>2, PushType
<1>6. QED
  BY <1>3, <1>4, <1>5 DEF Read
-----------------------------------------------------------------------------
LEMMA StagedXorTrackedNext ==
    ASSUME TInv, StagedXorTracked, [Next]_vars
    PROVE  StagedXorTracked'
<1>1. CASE Read
  <2>1. PICK f \in Path, p \in Pos, stored \in [Path -> Nat] : ReadLine(f, p, stored)
    BY <1>1, ReadReads
  <2>2. PICK t \in FreshToken, pos \in Pos, next \in Pos, eof \in BOOLEAN,
             data \in Record \cup {NoRecord} :
          /\ createToken(t, f, pos, eof)
          /\ batch' = Append(batch, [token |-> t, record |-> data])
          /\ staged_tokens' = [staged_tokens EXCEPT ![f] = NoPos]
          /\ stored_files' = IF eof THEN Erase(stored, f) ELSE stored
          /\ active_read_file' = IF eof THEN NoFile ELSE f
          /\ read_pos' = IF eof THEN 0 ELSE next
    BY <2>1, ReadLineFacts DEF TInv
  <2>3. QED
    BY <2>2 DEF StagedXorTracked, isTokenAvailable, Tracked, createToken, TInv, TypeOK,
       TokenStoreTypeOK
<1>2. CASE Resolve
  <2>1. PICK i \in 1..BatchSize : resolveSent(i) \/ resolveFailed(i)
    BY <1>2 DEF Resolve
  <2>2. CASE UNCHANGED <<file_tokens, staged_tokens>>
    BY <2>2 DEF StagedXorTracked, isTokenAvailable, Tracked
  <2>3. CASE fail(batch[i].token)
    BY <2>3 DEF fail, StagedXorTracked, isTokenAvailable, Tracked, TInv, TypeOK, TokenStoreTypeOK
  <2>4. QED
    BY <2>1, <2>2, <2>3 DEF resolveSent, ForgetLine, resolveFailed, KeepLine, resolve, tokenVars
<1>3. CASE Start
  BY <1>3 DEF Start, restore, StagedXorTracked, isTokenAvailable, Tracked
<1>4. CASE LoseMemory
  BY <1>4 DEF LoseMemory, ForgetTokens, StagedXorTracked, isTokenAvailable, Tracked
<1>5. CASE UNCHANGED <<file_tokens, staged_tokens>>
  BY <1>5 DEF StagedXorTracked, isTokenAvailable, Tracked
<1>6. QED
  BY <1>1, <1>2, <1>3, <1>4, <1>5, TokenSteps
     DEF Complete, Shutdown, backupInserts, tokenVars

(* A file is never staged, to be read on from a position, while tokens for *)
(* it are out.                                                             *)
THEOREM StagedOrTracked == Spec => []StagedXorTracked
<1>1. Init => StagedXorTracked
  BY DEF Init, EmptyTokenStore, StagedXorTracked, isTokenAvailable, Tracked
<1>2. TInv /\ StagedXorTracked /\ [Next]_vars => StagedXorTracked'
  BY StagedXorTrackedNext
<1>3. QED
  BY <1>1, <1>2, TInvHolds, PTL DEF Spec
-----------------------------------------------------------------------------
(* The strengthening of SentTokensResolve: before a batch has failed, the  *)
(* store knows each of its tokens and lists it under its file; and no      *)
(* token is held twice, so that resolving one leaves the others alone.     *)
Live(t) == /\ Known(t)
           /\ token_store[t].file \in Path
           /\ Contains(file_tokens[token_store[t].file], t)

HeldAreLive == verdict # "failed" => \A i \in DOMAIN batch : Live(batch[i].token)

HeldAreDistinct ==
    \A i, j \in DOMAIN batch : batch[i].token = batch[j].token => i = j

TokenInv == HeldAreLive /\ HeldAreDistinct

LEMMA LiveTokensResolve ==
    ASSUME TInv, TokenInv
    PROVE  SentTokensResolve
<1> SUFFICES ASSUME verdict = "sent", NEW i \in DOMAIN batch
             PROVE  Resolvable(batch[i].token) /\ ~ ErasesEnd(batch[i].token)
  BY DEF SentTokensResolve
<1>1. Live(batch[i].token)
  BY DEF TokenInv, HeldAreLive
<1>2. Tracked(token_store[batch[i].token].file)
  BY <1>1 DEF Live, Contains, Tracked
<1>3. QED
  BY <1>1, <1>2 DEF Live, Resolvable, ErasesEnd

LEMMA AppendContains ==
    ASSUME NEW S, NEW s \in Seq(S), NEW t \in S
    PROVE  /\ Contains(Append(s, t), t)
           /\ \A u : Contains(s, u) => Contains(Append(s, t), u)
<1>1. /\ Len(Append(s, t)) = Len(s) + 1
      /\ Append(s, t)[Len(s) + 1] = t
      /\ \A j \in 1..Len(s) : Append(s, t)[j] = s[j]
  OBVIOUS
<1>2. /\ Len(s) \in Nat /\ 1..Len(s) \subseteq 1..(Len(s) + 1)
      /\ Len(s) + 1 \in 1..(Len(s) + 1)
  OBVIOUS
<1>3. QED
  BY <1>1, <1>2 DEF Contains

(* The new token is nobody else's; the file's list grows at its end. *)
LEMMA ReadTokens ==
    ASSUME TInv, TokenInv, Read
    PROVE  TokenInv'
<1>1. PICK f \in Path, p \in Pos, stored \in [Path -> Nat] : ReadLine(f, p, stored)
  BY ReadReads
<1>2. PICK t \in FreshToken, pos \in Pos, next \in Pos, eof \in BOOLEAN,
           data \in Record \cup {NoRecord} :
        /\ createToken(t, f, pos, eof)
        /\ batch' = Append(batch, [token |-> t, record |-> data])
        /\ staged_tokens' = [staged_tokens EXCEPT ![f] = NoPos]
        /\ stored_files' = IF eof THEN Erase(stored, f) ELSE stored
        /\ active_read_file' = IF eof THEN NoFile ELSE f
        /\ read_pos' = IF eof THEN 0 ELSE next
  BY <1>1, ReadLineFacts DEF TInv
<1>3. batch \in Seq(HeldToken) /\ file_tokens \in [Path -> Seq(Token)]
      /\ token_store \in [Token -> FileTokenInfo \cup {NoInfo}]
  BY DEF TInv, TypeOK, TokenStoreTypeOK
<1>4. verdict # "failed"
  BY ReadReads
<1>5. t \in Token /\ \A i \in DOMAIN batch : batch[i].token # t
  BY DEF FreshToken, Unused
<1>6. /\ Len(batch') = Len(batch) + 1
      /\ \A i \in 1..Len(batch) : batch'[i] = batch[i]
      /\ batch'[Len(batch) + 1].token = t
  BY <1>2, <1>3
<1>7. DOMAIN batch = 1..Len(batch) /\ DOMAIN batch' = 1..(Len(batch) + 1)
      /\ Len(batch) \in Nat
  BY <1>2, <1>3
<1>8. \A i \in DOMAIN batch' : i \in DOMAIN batch \/ i = Len(batch) + 1
  BY <1>7
<1>9. /\ token_store' = [token_store EXCEPT ![t] = [file |-> f, pos |-> pos, eof |-> eof]]
      /\ file_tokens' = [file_tokens EXCEPT ![f] = Append(@, t)]
  BY <1>2 DEF createToken
<1>10. Live(t)'
  <2>1. token_store'[t] = [file |-> f, pos |-> pos, eof |-> eof]
    BY <1>3, <1>5, <1>9
  <2>2. token_store'[t] # NoInfo
    BY <2>1, TokenStoreAssumption DEF NoInfo
  <2>3. file_tokens'[f] = Append(file_tokens[f], t) /\ file_tokens[f] \in Seq(Token)
    BY <1>3, <1>9
  <2>4. Contains(file_tokens'[f], t)
    BY <1>5, <2>3, AppendContains
  <2>5. QED
    BY <2>1, <2>2, <2>4 DEF Live, Known
<1>11. ASSUME NEW i \in DOMAIN batch
       PROVE  Live(batch[i].token)'
  <2> DEFINE u == batch[i].token
             g == token_store[u].file
  <2>1. Live(u)
    BY <1>4 DEF TokenInv, HeldAreLive
  <2>2. u # t /\ u \in Token
    <3>1. batch[i] \in HeldToken
      BY <1>3
    <3>2. QED
      BY <1>5, <3>1 DEF HeldToken
  <2>3. token_store'[u] = token_store[u]
    BY <1>3, <1>9, <2>2
  <2>4. g \in Path /\ file_tokens[g] \in Seq(Token) /\ Contains(file_tokens[g], u)
    BY <1>3, <2>1 DEF Live
  <2>5. file_tokens'[g] = file_tokens[g] \/ file_tokens'[g] = Append(file_tokens[g], t)
    BY <1>3, <1>9, <2>4
  <2>6. Contains(file_tokens'[g], u)
    <3>1. Contains(Append(file_tokens[g], t), u)
      BY <1>5, <2>4, AppendContains
    <3>2. QED
      BY <2>4, <2>5, <3>1
  <2>7. batch'[i].token = u
    BY <1>6, <1>7
  <2>8. QED
    BY <2>1, <2>3, <2>4, <2>6, <2>7 DEF Live, Known
<1>12. HeldAreLive'
  BY <1>6, <1>7, <1>8, <1>10, <1>11 DEF HeldAreLive
<1>13. HeldAreDistinct'
  BY <1>5, <1>6, <1>7, <1>8 DEF TokenInv, HeldAreDistinct
<1>14. QED
  BY <1>12, <1>13 DEF TokenInv

(* A batch without its i-th token holds the others, once each.             *)
LEMMA SettleTokens ==
    ASSUME TInv, TokenInv, NEW i, Settle(i)
    PROVE  /\ i \in DOMAIN batch
           /\ \A j \in DOMAIN batch' : \E k \in DOMAIN batch \ {i} : batch'[j] = batch[k]
           /\ HeldAreDistinct'
           /\ verdict' # "failed" => verdict # "failed" \/ batch' = <<>>
<1>1. batch \in Seq(HeldToken) /\ i \in DOMAIN batch /\ batch' = RemoveAt(batch, i)
  BY DEF TInv, TypeOK, Settle
<1> DEFINE from(j) == IF j < i THEN j ELSE j + 1
<1>2. /\ batch' \in Seq(HeldToken)
      /\ Len(batch') = Len(batch) - 1
      /\ \A j \in 1..(Len(batch) - 1) : batch'[j] = IF j < i THEN batch[j] ELSE batch[j + 1]
  BY <1>1, RemoveAtProperties
<1>3. /\ i \in 1..Len(batch) /\ Len(batch) \in Nat
      /\ DOMAIN batch = 1..Len(batch) /\ DOMAIN batch' = 1..(Len(batch) - 1)
  BY <1>1, <1>2
<1>4. \A j \in DOMAIN batch' : from(j) \in DOMAIN batch \ {i} /\ batch'[j] = batch[from(j)]
  BY <1>2, <1>3
<1>5. \A j, k \in DOMAIN batch' : from(j) = from(k) => j = k
  BY <1>3
<1> HIDE DEF from
<1>6. HeldAreDistinct'
  <2> SUFFICES ASSUME NEW j \in DOMAIN batch', NEW k \in DOMAIN batch',
                      batch'[j].token = batch'[k].token
               PROVE  j = k
    BY DEF HeldAreDistinct
  <2>1. from(j) = from(k)
    BY <1>4 DEF TokenInv, HeldAreDistinct
  <2>2. QED
    BY <1>5, <2>1
<1>7. verdict' # "failed" => verdict # "failed" \/ batch' = <<>>
  <2>1. Len(batch) = 1 => batch' = <<>>
    BY <1>2
  <2>2. QED
    BY <2>1 DEF Settle
<1>8. QED
  BY <1>1, <1>4, <1>6, <1>7

(* Resolving a token forgets that token only.                              *)
LEMMA ResolveTokens ==
    ASSUME TInv, TokenInv, NEW i, resolveSent(i) \/ resolveFailed(i)
    PROVE  TokenInv'
<1>1. Settle(i)
  BY DEF resolveSent, ForgetLine, resolveFailed, KeepLine
<1>2. HeldAreDistinct'
  BY <1>1, SettleTokens
<1>3. CASE resolveFailed(i)
  <2>1. verdict' # "failed" => batch' = <<>>
    BY <1>1, <1>3, SettleTokens DEF resolveFailed, KeepLine
  <2>2. HeldAreLive'
    BY <2>1 DEF HeldAreLive
  <2>3. QED
    BY <1>2, <2>2 DEF TokenInv
<1>4. CASE resolveSent(i)
  <2>1. /\ file_tokens' = file_tokens
        /\ \/ token_store' = [token_store EXCEPT ![batch[i].token] = NoInfo]
           \/ token_store' = token_store
    BY <1>4 DEF resolveSent, ForgetLine, resolve, tokenVars
  <2>2. ASSUME NEW j \in DOMAIN batch'
        PROVE  Live(batch[j].token)'
    <3>1. PICK k \in DOMAIN batch \ {i} : batch'[j] = batch[k]
      BY <1>1, SettleTokens
    <3>2. i \in DOMAIN batch
      BY <1>1, SettleTokens
    <3>3. batch[k].token # batch[i].token
      BY <3>2 DEF TokenInv, HeldAreDistinct
    <3>4. Live(batch[k].token)
      BY <1>4 DEF resolveSent, ForgetLine, TokenInv, HeldAreLive
    <3>5. token_store'[batch[k].token] = token_store[batch[k].token]
      <4>1. batch[k] \in HeldToken
        BY DEF TInv, TypeOK
      <4>2. batch[k].token \in Token
        BY <4>1 DEF HeldToken
      <4>3. token_store \in [Token -> FileTokenInfo \cup {NoInfo}]
        BY DEF TInv, TypeOK, TokenStoreTypeOK
      <4>4. QED
        BY <2>1, <3>3, <4>2, <4>3
    <3>6. QED
      BY <2>1, <3>1, <3>4, <3>5 DEF Live, Known
  <2>3. HeldAreLive'
    BY <2>2 DEF HeldAreLive
  <2>4. QED
    BY <1>2, <2>3 DEF TokenInv
<1>5. QED
  BY <1>3, <1>4

(* The backup inserts entries only for tokens the store has forgotten. *)
LEMMA ShutdownTokens ==
    ASSUME TInv, TokenInv, Shutdown
    PROVE  TokenInv'
<1>1. batch' = batch /\ verdict' = verdict /\ file_tokens' = file_tokens
  BY DEF Shutdown, backupInserts, clientVars
<1>2. ASSUME NEW t \in Token, Live(t)
      PROVE  Live(t)'
  <2>1. \A f \in Path : HeadLost(f) => Head(file_tokens[f]) # t
    BY <1>2 DEF HeadLost, Live
  <2>2. token_store'[t] = token_store[t]
    BY <2>1 DEF Shutdown, backupInserts
  <2>3. QED
    BY <1>1, <1>2, <2>2 DEF Live, Known
<1>3. \A i \in DOMAIN batch : batch[i].token \in Token
  <2>1. \A i \in DOMAIN batch : batch[i] \in HeldToken
    BY DEF TInv, TypeOK
  <2>2. QED
    BY <2>1 DEF HeldToken
<1>4. QED
  BY <1>1, <1>2, <1>3 DEF TokenInv, HeldAreLive, HeldAreDistinct

LEMMA TokenInvNext ==
    ASSUME TInv, TokenInv, [Next]_vars
    PROVE  TokenInv'
<1>1. CASE UNCHANGED <<tokenVars, clientVars>>
  BY <1>1 DEF TokenInv, HeldAreLive, HeldAreDistinct, Live, Known, tokenVars, clientVars
<1>2. CASE Complete
  BY <1>2 DEF Complete, TokenInv, HeldAreLive, HeldAreDistinct, Live, Known, tokenVars
<1>3. CASE Start
  <2>1. batch' = <<>>
    BY <1>3 DEF Start, clientVars, TInv, ProcessInv
  <2>2. QED
    BY <2>1 DEF TokenInv, HeldAreLive, HeldAreDistinct
<1>4. CASE LoseMemory
  BY <1>4 DEF LoseMemory, TokenInv, HeldAreLive, HeldAreDistinct
<1>5. CASE Resolve
  BY <1>5, ResolveTokens DEF Resolve
<1>6. QED
  BY <1>1, <1>2, <1>3, <1>4, <1>5, ReadTokens, ShutdownTokens, TokenSteps

(* Whatever was read, staged, backed up or deleted meanwhile, a caller     *)
(* that gives back the tokens of an uploaded batch, in any order, meets no *)
(* exception and no erasure of what a list does not hold.                  *)
THEOREM SentTokensAlwaysResolve == Spec => []SentTokensResolve
<1>1. Init => TokenInv
  BY DEF Init, TokenInv, HeldAreLive, HeldAreDistinct
<1>2. TInv /\ TokenInv /\ [Next]_vars => TokenInv'
  BY TokenInvNext
<1>3. TInv /\ TokenInv => SentTokensResolve
  BY LiveTokensResolve
<1>4. QED
  BY <1>1, <1>2, <1>3, TInvHolds, PTL DEF Spec
=============================================================================
