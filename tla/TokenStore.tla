----------------------------- MODULE TokenStore -----------------------------
(***************************************************************************)
(* TokenStore of file_manager_strategy.cpp: which part of which offline    *)
(* file has been handed out for upload.  A token stands for one line read  *)
(* from a file.  The three maps of the class are the three variables; an   *)
(* absent key of a map is NoInfo, the empty list or NoPos.  Each operator  *)
(* below is one method and constrains the primed variables it assigns.     *)
(***************************************************************************)
EXTENDS Integers, Sequences, SequencesExt

CONSTANTS
    Path,       \* names of offline files
    NoFile,     \* the empty file name
    Token       \* the tokens the random generator can return

ASSUME TokenStoreAssumption == NoFile \notin Path

VARIABLES
    token_store,     \* token -> where its line lies
    file_tokens,     \* file  -> tokens created for it, oldest first
    staged_tokens    \* file  -> position to resume from

tokenVars == <<token_store, file_tokens, staged_tokens>>

(* A position is the index of a line.  tellg() of a stream in a failed     *)
(* state is -1; NoPos says that a map holds no position.                   *)
Bad   == -1
NoPos == -2
Pos   == Nat \cup {Bad}

FileTokenInfo == [file : Path \cup {NoFile}, pos : Pos, eof : BOOLEAN]
Blank  == [file |-> NoFile, pos |-> 0, eof |-> FALSE]
NoInfo == [file |-> NoFile, pos |-> NoPos, eof |-> FALSE]

TokenStoreTypeOK ==
    /\ token_store \in [Token -> FileTokenInfo \cup {NoInfo}]
    /\ file_tokens \in [Path -> Seq(Token)]
    /\ staged_tokens \in [Path -> Pos \cup {NoPos}]

EmptyTokenStore ==
    /\ token_store = [t \in Token |-> NoInfo]
    /\ file_tokens = [f \in Path |-> <<>>]
    /\ staged_tokens = [f \in Path |-> NoPos]

(* What a process that starts without a backup holds. *)
ForgetTokens ==
    /\ token_store' = [t \in Token |-> NoInfo]
    /\ file_tokens' = [f \in Path |-> <<>>]
    /\ staged_tokens' = [f \in Path |-> NoPos]

Known(t) == token_store[t] # NoInfo
Tracked(f) == file_tokens[f] # <<>>

isTokenAvailable(f) == staged_tokens[f] # NoPos

popLeavesToken(f) == UNCHANGED staged_tokens                      \* mutated form
popAvailableToken(f) == staged_tokens' = [staged_tokens EXCEPT ![f] = NoPos]

createTokenOncePerFile(t, f, pos, eof) ==                         \* mutated form
    /\ token_store' = [token_store EXCEPT ![t] = [file |-> f, pos |-> pos, eof |-> eof]]
    /\ file_tokens' = IF Tracked(f) THEN file_tokens ELSE [file_tokens EXCEPT ![f] = <<t>>]
createToken(t, f, pos, eof) ==
    /\ token_store' = [token_store EXCEPT ![t] = [file |-> f, pos |-> pos, eof |-> eof]]
    /\ file_tokens' = [file_tokens EXCEPT ![f] = Append(@, t)]

failStagesEvery(t) ==                                             \* mutated form
    LET info == token_store[t] IN
    /\ token_store' = [token_store EXCEPT ![t] = NoInfo]
    /\ staged_tokens' = [staged_tokens EXCEPT ![info.file] = info.pos]
    /\ file_tokens' = [file_tokens EXCEPT ![info.file] = <<>>]

(* Only the first token of a file to fail stages a position: it takes the  *)
(* file's list away, and a later one finds none.  Throws unless Known(t).  *)
fail(t) ==
    LET info == token_store[t] IN
    /\ token_store' = [token_store EXCEPT ![t] = NoInfo]
    /\ IF info.file \in Path /\ Tracked(info.file)
         THEN /\ staged_tokens' = [staged_tokens EXCEPT ![info.file] = info.pos]
              /\ file_tokens' = [file_tokens EXCEPT ![info.file] = <<>>]
         ELSE UNCHANGED <<staged_tokens, file_tokens>>

(* Throws unless Resolvable(t).  The token is erased from a copy of the    *)
(* file's list, so the list itself never shrinks; erasing a token the      *)
(* copy does not hold is undefined behaviour.                              *)
Resolvable(t) == /\ Known(t)
                 /\ token_store[t].file \in Path
                 /\ Tracked(token_store[t].file)
ErasesEnd(t) == ~ Contains(file_tokens[token_store[t].file], t)
resolve(t) ==
    /\ token_store' = [token_store EXCEPT ![t] = NoInfo]
    /\ UNCHANGED <<file_tokens, staged_tokens>>

(* The staged positions, overridden by the position of the first token of  *)
(* each file's list.  Where that token is no longer known, operator[]      *)
(* inserts a blank entry for it, written to disk under the empty name.     *)
HeadLost(f) == Tracked(f) /\ ~ Known(Head(file_tokens[f]))
backup ==
    [f \in Path |-> IF Tracked(f) /\ ~ HeadLost(f)
                      THEN token_store[Head(file_tokens[f])].pos
                      ELSE staged_tokens[f]]
backupInserts ==
    /\ token_store' = [t \in Token |->
                         IF \E f \in Path : HeadLost(f) /\ Head(file_tokens[f]) = t
                           THEN Blank ELSE token_store[t]]
    /\ UNCHANGED <<file_tokens, staged_tokens>>

(* Into the empty token store of a process that starts. *)
restore(saved) ==
    /\ staged_tokens' = [f \in Path |-> saved[f]]
    /\ token_store' = [t \in Token |-> NoInfo]
    /\ file_tokens' = [f \in Path |-> <<>>]

(* The generator returns one of 2^64 values: a token nobody holds. *)
Unused(t, held) == /\ ~ Known(t)
                   /\ t \notin held
                   /\ \A f \in Path : ~ Contains(file_tokens[f], t)
=============================================================================
