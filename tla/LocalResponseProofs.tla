------------------------ MODULE LocalResponseProofs ------------------------
(***************************************************************************)
(* The answer to a request for a local file is whole where its end is      *)
(* announced, for every size of the file and of the buffers.  The          *)
(* properties are not inductive: the invariant says, stage by stage, how   *)
(* far deflate() has come with the bytes read.                             *)
(***************************************************************************)
EXTENDS LocalResponse, TLAPS

Gzipping == {"read", "deflate", "marker"}
Copying == {"sendfile", "copy"}

(* Before the body is begun nothing of it exists.                          *)
Untouched ==
  stage \in Stages \ (Reading \cup Ended) =>
    /\ pos = 0 /\ avail_in = 0 /\ fed = 0 /\ emitted = 0 /\ ~finish
    /\ chunks = <<>> /\ written = 0

(* No byte that was read is left behind, and no unit is put out too soon.  *)
Deflated ==
  /\ stage = "read" => avail_in = 0 /\ fed = pos /\ emitted <= fed /\ ~finish
  /\ stage = "deflate" =>
       /\ fed + avail_in = pos
       /\ emitted <= fed + (IF finish /\ avail_in = 0 THEN 1 ELSE 0)
  /\ stage = "marker" => finish /\ fed = pos /\ emitted = fed + 1

(* The end marker is the last chunk, of a finished answer only.            *)
Marked ==
  \A i \in DOMAIN chunks :
    chunks[i] = 0 => /\ stage = "done" /\ i = Len(chunks)
                     /\ finish /\ fed = pos /\ emitted = fed + 1

(* The code decides in which way the body is written.                      *)
Coded ==
  /\ stage \in Gzipping => compression_type_.code = "gzip"
  /\ stage \in Copying => compression_type_.code \in {"none", "other"}
  /\ chunks # <<>> => compression_type_.code = "gzip" /\ written = 0
  /\ written > 0 => compression_type_.code \in {"none", "other"}
  /\ compression_type_.code = "gzip" /\ compression_type_.str = "gzip" =>
       \E i \in DOMAIN request : request[i] = "gzip"
  /\ compression_type_.str # "other"

(* As long as the file stays as it was measured, the bytes written are     *)
(* those of the file.                                                      *)
Sized ==
  /\ stage \in {"line", "fields", "open"} \cup Reading /\ ~touched => file = local_file_size
  /\ stage = "sendfile" => pos = 0 /\ written = 0
  /\ stage = "copy" => /\ pos = written
                       /\ ~touched => written <= local_file_size
  /\ stage = "done" /\ compression_type_.code = "gzip" =>
       Len(chunks) > 0 /\ chunks[Len(chunks)] = 0
  /\ stage = "done" => compression_type_.code # "brotli"
  /\ stage = "done" /\ ~damaged /\ ~touched /\ compression_type_.code = "none" =>
       written = local_file_size

LInv == LocalTypeOK /\ Untouched /\ Deflated /\ Marked /\ Coded /\ Sized

(* What a read returns is a number of bytes, at most what was asked for    *)
(* and at most what is left.                                               *)
LEMMA GotIsBounded ==
  ASSUME file \in Gone..MaxSize, pos \in Nat, NEW n \in Nat
  PROVE  /\ Got(n) \in 0..n
         /\ Got(n) < n /\ pos <= file => pos + Got(n) = file
         /\ pos <= file => pos + Got(n) <= file
  BY LocalAssumption DEF Got, Smaller, Gone

(* The invariant holds when a request has been read.                       *)
LEMMA InitHolds == LocalInit => LInv
<1> SUFFICES ASSUME LocalInit PROVE LInv
  OBVIOUS
<1>1. compression_type_ \in [code : Codes, str : Codes] /\ compression_type_.str = "none"
  BY DEF LocalInit, Type, Codes
<1>2. chunks = <<>> /\ chunks \in Seq(0..CompressChunk) /\ DOMAIN chunks = {}
  BY LocalAssumption DEF LocalInit
<1>3. touched \in BOOLEAN /\ finish \in BOOLEAN /\ damaged \in BOOLEAN
  BY DEF LocalInit
<1>4. LocalTypeOK
  BY LocalAssumption, <1>1, <1>2, <1>3 DEF LocalInit, LocalTypeOK, Stages
<1>5. Untouched /\ Deflated /\ Marked
  BY <1>2 DEF LocalInit, Untouched, Deflated, Marked
<1>6. Coded /\ Sized
  BY <1>1, <1>2 DEF LocalInit, Coded, Sized, Gzipping, Copying, Reading
<1> QED
  BY <1>4, <1>5, <1>6 DEF LInv

(* Every step keeps the types.                                             *)
LEMMA TypeKept == LInv /\ [LocalNext]_localVars => LocalTypeOK'
<1> SUFFICES ASSUME LInv, [LocalNext]_localVars PROVE LocalTypeOK'
  OBVIOUS
<1> USE LocalAssumption
<1>0. LocalTypeOK
  BY DEF LInv
<1>1. CASE ExtractMeta
  <2>1. compression_type_' \in [code : Codes, str : Codes]
    BY <1>0, <1>1 DEF ExtractMeta, LocalTypeOK, Type, Codes, GetCompressionType, Encodings
  <2> QED BY <1>0, <1>1, <2>1 DEF ExtractMeta, Goto, inputVars, worldVars, bodyVars,
       deflateVars, LocalTypeOK, Stages, Ended
<1>2. CASE CheckFile
  BY <1>0, <1>2 DEF CheckFile, Goto, inputVars, worldVars, bodyVars, deflateVars,
     LocalTypeOK, Stages, Ended
<1>3. CASE FileSize
  <2>1. local_file_size' \in Nat /\ stage' \in Stages
    BY <1>0, <1>3 DEF FileSize, LocalTypeOK, Stages, Ended, Gone
  <2>2. touched' \in BOOLEAN
    BY <1>3 DEF FileSize
  <2> QED BY <1>0, <1>3, <2>1, <2>2 DEF FileSize, inputVars, bodyVars, deflateVars, LocalTypeOK
<1>4. CASE SendHttpHeader
  BY <1>0, <1>4 DEF SendHttpHeader, Goto, inputVars, worldVars, bodyVars, deflateVars,
     LocalTypeOK, Stages
<1>5. CASE OpenFile
  BY <1>0, <1>5 DEF OpenFile, Goto, inputVars, worldVars, bodyVars, deflateVars,
     LocalTypeOK, Stages, Reading, Ended
<1>6. CASE SendFile
  <2>1. written' \in Nat
    BY <1>6 DEF SendFile
  <2> QED BY <1>0, <1>6, <2>1 DEF SendFile, Goto, inputVars, worldVars, deflateVars,
       LocalTypeOK, Stages, Ended
<1>7. CASE CopyPiece
  <2>1. Got(CopyChunk) \in Nat
    BY <1>0, GotIsBounded DEF LocalTypeOK
  <2> QED BY <1>0, <1>7, <2>1 DEF CopyPiece, Goto, inputVars, worldVars, deflateVars,
       LocalTypeOK, Stages, Ended, Reading
<1>8. CASE ReadChunk
  <2>1. Got(CompressChunk) \in 0..CompressChunk
    BY <1>0, GotIsBounded DEF LocalTypeOK
  <2> QED BY <1>0, <1>8, <2>1 DEF ReadChunk, Goto, inputVars, worldVars,
       LocalTypeOK, Stages, Reading
<1>9. CASE WriteMarker
  <2>1. chunks' \in Seq(0..CompressChunk)
    BY <1>0, <1>9 DEF WriteMarker, LocalTypeOK
  <2>2. damaged' \in BOOLEAN
    BY <1>0, <1>9 DEF WriteMarker, LocalTypeOK
  <2> QED BY <1>0, <1>9, <2>1, <2>2 DEF WriteMarker, Goto, inputVars, worldVars,
       deflateVars, LocalTypeOK, Stages, Ended
<1>10. ASSUME NEW n \in 0..avail_in, NEW k \in 0..CompressChunk, Deflate(n, k)
       PROVE  LocalTypeOK'
  <2>1. chunks' \in Seq(0..CompressChunk)
    <3>1. chunks \in Seq(0..CompressChunk) /\ k \in 0..CompressChunk
      BY <1>0 DEF LocalTypeOK
    <3>2. chunks' = chunks \/ chunks' = Append(chunks, k)
      BY <1>10 DEF Deflate, WriteChunk
    <3> QED BY <3>1, <3>2
  <2>2. damaged' \in BOOLEAN
    <3>1. damaged' \in {damaged, TRUE}
      BY <1>10 DEF Deflate, WriteChunk
    <3> QED BY <1>0, <3>1 DEF LocalTypeOK
  <2>3. stage' \in Stages
    BY <1>10 DEF Deflate, Goto, Stages, Reading
  <2> QED BY <1>0, <1>10, <2>1, <2>2, <2>3 DEF Deflate, Goto, inputVars, worldVars, LocalTypeOK
<1>11. CASE GiveUp
  BY <1>0, <1>11 DEF GiveUp, Goto, inputVars, worldVars, bodyVars, deflateVars,
     LocalTypeOK, Stages, Ended
<1>12. ASSUME NEW on \in BOOLEAN, SetHttpCompression(on) PROVE LocalTypeOK'
  BY <1>0, <1>12 DEF SetHttpCompression, inputVars, bodyVars, deflateVars, LocalTypeOK
<1>13. ASSUME NEW size \in Gone..MaxSize, FileChanges(size) PROVE LocalTypeOK'
  BY <1>0, <1>13 DEF FileChanges, inputVars, bodyVars, deflateVars, LocalTypeOK
<1>14. CASE UNCHANGED localVars
  BY <1>0, <1>14 DEF localVars, inputVars, worldVars, bodyVars, deflateVars, LocalTypeOK
<1> QED
  BY <1>1, <1>2, <1>3, <1>4, <1>5, <1>6, <1>7, <1>8, <1>9, <1>10, <1>11, <1>12, <1>13,
     <1>14 DEF LocalNext, LocalStep

(* Every step keeps the rest of the invariant.  The steps before the body  *)
(* leave the counters at zero; those of the body move them in balance.     *)
LEMMA StepHolds == LInv /\ [LocalNext]_localVars => LInv'
<1> SUFFICES ASSUME LInv, [LocalNext]_localVars PROVE LInv'
  OBVIOUS
<1> USE LocalAssumption
<1>0. LocalTypeOK /\ Untouched /\ Deflated /\ Marked /\ Coded /\ Sized
  BY DEF LInv
<1>t. LocalTypeOK'
  BY TypeKept
<1> DEFINE Kept == Untouched' /\ Deflated' /\ Marked' /\ Coded' /\ Sized'
<1> SUFFICES Kept
  BY <1>t DEF LInv
<1>1. CASE ExtractMeta
  <2>1. Untouched' /\ Deflated' /\ Marked'
    BY <1>0, <1>1 DEF ExtractMeta, Goto, inputVars, worldVars, bodyVars, deflateVars,
       Untouched, Deflated, Marked, Stages, Reading, Ended
  <2>2. chunks' = <<>> /\ written' = 0 /\ stage' \in {"exists", "failed"}
    BY <1>0, <1>1 DEF ExtractMeta, Goto, bodyVars, Untouched, Stages, Reading, Ended
  <2>3. compression_type_'.code = "gzip" /\ compression_type_'.str = "gzip" =>
          \E i \in DOMAIN request : request[i] = "gzip"
    BY <1>0, <1>1 DEF ExtractMeta, Coded, Type, GetCompressionType, Encodings
  <2>c. compression_type_'.str # "other"
    BY <1>0, <1>1 DEF ExtractMeta, Coded, Type, GetCompressionType, Encodings
  <2>4. Coded'
    BY <1>1, <2>2, <2>3, <2>c DEF Coded, Gzipping, Copying, ExtractMeta, Goto, inputVars
  <2>5. Sized'
    BY <2>2 DEF Sized, Reading
  <2> QED BY <2>1, <2>4, <2>5
<1>2. CASE CheckFile
  BY <1>0, <1>2 DEF CheckFile, Goto, inputVars, worldVars, bodyVars, deflateVars,
     Untouched, Deflated, Marked, Coded, Sized, Stages, Reading, Ended, Gzipping, Copying
<1>3. CASE FileSize
  BY <1>0, <1>3 DEF FileSize, inputVars, bodyVars, deflateVars,
     Untouched, Deflated, Marked, Coded, Sized, Stages, Reading, Ended, Gzipping, Copying
<1>4. CASE SendHttpHeader
  BY <1>0, <1>4 DEF SendHttpHeader, Goto, inputVars, worldVars, bodyVars, deflateVars,
     Untouched, Deflated, Marked, Coded, Sized, Stages, Reading, Ended, Gzipping, Copying
<1>5. CASE OpenFile
  BY <1>0, <1>5 DEF OpenFile, Goto, inputVars, worldVars, bodyVars, deflateVars, LocalTypeOK,
     Untouched, Deflated, Marked, Coded, Sized, Stages, Reading, Ended, Gzipping, Copying, Codes
<1>6. CASE SendFile
  <2>1. written' \in Nat /\ pos = 0 /\ stage' = "done"
    BY <1>0, <1>6 DEF SendFile, Goto, Sized
  <2>2. chunks' = <<>>
    BY <1>0, <1>6 DEF SendFile, Coded, Copying
  <2>3. Untouched' /\ Deflated' /\ Marked'
    BY <2>1, <2>2 DEF Untouched, Deflated, Marked, Ended
  <2>4. Coded'
    BY <1>0, <1>6, <2>1, <2>2 DEF SendFile, Goto, inputVars, Coded, Gzipping, Copying
  <2>5. ~damaged' /\ ~touched' => written' = local_file_size'
    <3>1. ~damaged' => ~(written' < Smaller(local_file_size, Got(MaxSize)))
      BY <1>6 DEF SendFile
    <3>2. written' \in 0..Smaller(local_file_size, Got(MaxSize))
      BY <1>6 DEF SendFile
    <3>3. ~touched' => file = local_file_size /\ Got(MaxSize) = file
      BY <1>0, <1>6, <2>1 DEF SendFile, Goto, worldVars, Sized, Reading, LocalTypeOK, Got,
         Smaller, Gone
    <3> QED BY <1>0, <1>6, <3>1, <3>2, <3>3 DEF SendFile, Smaller, LocalTypeOK
  <2>6. Sized'
    BY <1>0, <1>6, <2>1, <2>5 DEF SendFile, Sized, Coded, Copying, Reading
  <2> QED BY <2>3, <2>4, <2>6
<1>7. CASE CopyPiece
  BY <1>0, <1>7, GotIsBounded DEF CopyPiece, Goto, inputVars, worldVars, deflateVars, LocalTypeOK,
     Untouched, Deflated, Marked, Coded, Sized, Stages, Reading, Ended, Gzipping, Copying
<1>8. CASE ReadChunk
  BY <1>0, <1>8, GotIsBounded DEF ReadChunk, Goto, inputVars, worldVars, LocalTypeOK,
     Untouched, Deflated, Marked, Coded, Sized, Stages, Reading, Ended, Gzipping, Copying
<1>9. CASE WriteMarker
  BY <1>0, <1>9 DEF WriteMarker, Goto, inputVars, worldVars, deflateVars, LocalTypeOK,
     Untouched, Deflated, Marked, Coded, Sized, Stages, Reading, Ended, Gzipping, Copying
<1>10. ASSUME NEW n \in 0..avail_in, NEW k \in 0..CompressChunk, Deflate(n, k)
       PROVE  Kept
  <2>1. stage = "deflate" /\ stage' \in Gzipping /\ UNCHANGED <<compression_type_, written>>
    BY <1>10 DEF Deflate, Goto, Gzipping
  <2>2. Untouched' /\ Coded'
    <3>1. compression_type_.code = "gzip" /\ written = 0
      BY <1>0, <2>1 DEF Coded, Gzipping, LocalTypeOK
    <3> QED BY <1>0, <1>10, <2>1, <3>1 DEF Deflate, Goto, inputVars, Untouched, Coded,
         Gzipping, Copying, Reading
  <2>3. Deflated'
    BY <1>0, <1>10 DEF Deflate, Deflates, Goto, LocalTypeOK, Deflated
  <2>4. Marked'
    <3>1. \A i \in DOMAIN chunks : chunks[i] # 0
      BY <1>0, <2>1 DEF Marked
    <3>2. \A i \in DOMAIN chunks' : chunks'[i] # 0
      <4>1. CASE k = 0
        BY <1>10, <3>1, <4>1 DEF Deflate, WriteChunk
      <4>2. CASE k # 0
        <5>1. chunks' = Append(chunks, k)
          BY <1>10, <4>2 DEF Deflate, WriteChunk
        <5> QED BY <1>0, <3>1, <4>2, <5>1 DEF LocalTypeOK
      <4> QED BY <4>1, <4>2
    <3> QED BY <3>2 DEF Marked
  <2>5. Sized'
    BY <1>0, <1>10, <2>1 DEF Deflate, Goto, worldVars, Sized, Gzipping, Reading
  <2> QED BY <2>2, <2>3, <2>4, <2>5
<1>11. CASE GiveUp
  BY <1>0, <1>11 DEF GiveUp, Goto, inputVars, worldVars, bodyVars, deflateVars,
     Untouched, Deflated, Marked, Coded, Sized, Stages, Reading, Ended, Gzipping, Copying
<1>12. ASSUME NEW on \in BOOLEAN, SetHttpCompression(on) PROVE Kept
  BY <1>0, <1>12 DEF SetHttpCompression, inputVars, bodyVars, deflateVars,
     Untouched, Deflated, Marked, Coded, Sized
<1>13. ASSUME NEW size \in Gone..MaxSize, FileChanges(size) PROVE Kept
  BY <1>0, <1>13 DEF FileChanges, inputVars, bodyVars, deflateVars,
     Untouched, Deflated, Marked, Coded, Sized
<1>14. CASE UNCHANGED localVars
  BY <1>0, <1>14 DEF localVars, inputVars, worldVars, bodyVars, deflateVars,
     Untouched, Deflated, Marked, Coded, Sized
<1> QED
  BY <1>1, <1>2, <1>3, <1>4, <1>5, <1>6, <1>7, <1>8, <1>9, <1>10, <1>11, <1>12, <1>13,
     <1>14 DEF LocalNext, LocalStep

(* The invariant holds throughout, for every size of files and buffers.    *)
THEOREM LocalInvariant == LocalSpec => []LInv
  BY InitHolds, StepHolds, PTL DEF LocalSpec

(* The types of the state of handleLocalFileRequest(), and the bound of    *)
(* the input buffer of GzipStreamCompress().                               *)
THEOREM LocalTypeCorrect == LocalSpec => []LocalTypeOK
<1>1. LInv => LocalTypeOK
  BY DEF LInv
<1> QED BY <1>1, LocalInvariant, PTL

(* The end marker of handleGzipCompression() follows the whole stream.     *)
THEOREM LocalEndMeansWhole == LocalSpec => []EndMeansWhole
<1>1. LInv => EndMeansWhole
  BY DEF LInv, Marked, EndMeansWhole
<1> QED BY <1>1, LocalInvariant, PTL

(* A success of compressAndWriteBody() is a complete answer.               *)
THEOREM LocalSuccessIsComplete == LocalSpec => []SuccessIsComplete
<1>1. LInv => SuccessIsComplete
  BY DEF LInv, LocalTypeOK, Codes, Sized, SuccessIsComplete, SeenEnd, Chunked, Ended
<1> QED BY <1>1, LocalInvariant, PTL

(* The body is in the encoding of the header, which the client asked for.  *)
THEOREM LocalBodyAsAnnounced == LocalSpec => []BodyAsAnnounced
<1>1. LInv => BodyAsAnnounced
  BY DEF LInv, LocalTypeOK, Codes, Coded, BodyAsAnnounced, Chunked
<1> QED BY <1>1, LocalInvariant, PTL

-----------------------------------------------------------------------------

(* How far the answer is from its end: three for each byte of the file not *)
(* yet read, one for each unit deflate() may still put out, and the stages *)
(* ahead; once the last bytes are read, fewer.                             *)
StageRank ==
  [meta |-> 10, exists |-> 9, size |-> 8, line |-> 7, fields |-> 6, open |-> 5,
   read |-> 3, deflate |-> 2, marker |-> 1, sendfile |-> 1, copy |-> 1,
   done |-> 0, failed |-> 0, crashed |-> 0]
StagesLeft == StageRank[stage] + (IF stage = "deflate" /\ ~finish THEN 2 ELSE 0)
Left == 3 * (MaxSize - pos) + ((pos + 1) - emitted) + StagesLeft

(* Every call of the handler brings the answer nearer its end, whatever    *)
(* the file does meanwhile: each turn of a read loop takes bytes of the    *)
(* file or is the last, and each turn of the deflate() loop puts out what  *)
(* was still owed.                                                         *)
AnswerAdvances ==
  [][\/ Left' \in 0..(Left - 1)
     \/ UNCHANGED <<stage, compression_type_, local_file_size, bodyVars, damaged>>]_localVars

(* The handler never reads past the largest file, and deflate() never puts *)
(* out more than it owes.                                                  *)
Within == pos <= MaxSize /\ emitted <= pos + 1

(* A read stops at the end of the file, and deflate() at what it was given. *)
LEMMA WithinHolds == LocalSpec => []Within
<1> USE LocalAssumption
<1>1. LocalInit => Within
  BY DEF LocalInit, Within
<1>2. LInv /\ Within /\ [LocalNext]_localVars => Within'
  <2> SUFFICES ASSUME LInv, Within, [LocalNext]_localVars PROVE Within'
    OBVIOUS
  <2>0. LocalTypeOK /\ Deflated
    BY DEF LInv
  <2>1. CASE UNCHANGED <<pos, emitted>>
    BY <2>1 DEF Within
  <2>2. ASSUME NEW n \in Nat, pos' = pos + Got(n), emitted' = emitted PROVE Within'
    <3>1. Got(n) \in 0..n /\ pos + Got(n) <= MaxSize
      <4>1. pos \in Nat /\ file \in Gone..MaxSize /\ pos <= MaxSize
        BY <2>0 DEF LocalTypeOK, Within
      <4>2. QED BY <4>1 DEF Got, Smaller, Gone
    <3>2. QED BY <2>0, <2>2, <3>1 DEF LocalTypeOK, Within
  <2>3. CASE CopyPiece \/ ReadChunk
    BY <2>2, <2>3 DEF CopyPiece, ReadChunk, deflateVars
  <2>4. ASSUME NEW n \in 0..avail_in, NEW k \in 0..CompressChunk, Deflate(n, k)
        PROVE  Within'
    BY <2>0, <2>4 DEF Deflate, Deflates, Deflated, LocalTypeOK, Within
  <2>5. QED
    BY <2>1, <2>3, <2>4 DEF LocalNext, LocalStep, ExtractMeta, CheckFile, FileSize,
       SendHttpHeader, OpenFile, SendFile, WriteMarker, GiveUp, SetHttpCompression,
       FileChanges, localVars, bodyVars, deflateVars
<1>3. QED BY <1>1, <1>2, LocalInvariant, PTL DEF LocalSpec

(* The ranks of the stages, one by one.                                    *)
LEMMA RankValues ==
  /\ StageRank["meta"] = 10 /\ StageRank["exists"] = 9 /\ StageRank["size"] = 8
  /\ StageRank["line"] = 7 /\ StageRank["fields"] = 6 /\ StageRank["open"] = 5
  /\ StageRank["read"] = 3 /\ StageRank["deflate"] = 2 /\ StageRank["marker"] = 1
  /\ StageRank["sendfile"] = 1 /\ StageRank["copy"] = 1
  /\ StageRank["done"] = 0 /\ StageRank["failed"] = 0 /\ StageRank["crashed"] = 0
  BY DEF StageRank

(* The measure goes down when a later stage is reached with no byte read,  *)
(* when bytes are read, and when units are put out.                        *)
LEMMA LeftGoesDown ==
  ASSUME NEW M \in Nat, NEW p \in Nat, NEW pp \in Nat, NEW e \in Nat, NEW ee \in Nat,
         NEW s \in Nat, NEW ss \in Nat,
         p <= pp, pp <= M, e <= p + 1, e <= ee, ee <= pp + 1,
         \/ ss < s
         \/ ss = s /\ (p < pp \/ e < ee)
         \/ ss = s + 1 /\ p < pp
  PROVE  3 * (M - pp) + ((pp + 1) - ee) + ss
           \in 0..((3 * (M - p) + ((p + 1) - e) + s) - 1)
  OBVIOUS

(* Nothing the handler does for a local file can go on for ever: every     *)
(* call it makes lowers a natural number that the file and the             *)
(* administrator cannot raise.                                             *)
THEOREM LocalAdvances == LocalSpec => AnswerAdvances
<1> USE LocalAssumption
<1>1. ASSUME LInv, Within, LocalTypeOK', Within', [LocalNext]_localVars
      PROVE  [\/ Left' \in 0..(Left - 1)
              \/ UNCHANGED <<stage, compression_type_, local_file_size, bodyVars,
                             damaged>>]_localVars
  <2>0. LocalTypeOK /\ Deflated
    BY <1>1 DEF LInv
  <2>1. StagesLeft \in Nat /\ StagesLeft' \in Nat
    <3>1. stage \in Stages /\ stage' \in Stages
      BY <1>1, <2>0 DEF LocalTypeOK
    <3>2. \A g \in Stages : StageRank[g] \in Nat
      BY RankValues DEF Stages, Reading, Ended
    <3>3. StageRank[stage] \in Nat /\ StageRank[stage'] \in Nat
      BY <3>1, <3>2
    <3>4. StagesLeft \in Nat
      BY <3>3 DEF StagesLeft
    <3>5. StagesLeft' \in Nat
      BY <3>3 DEF StagesLeft
    <3>6. QED BY <3>4, <3>5
  <2>2. /\ pos \in Nat /\ pos' \in Nat /\ emitted \in Nat /\ emitted' \in Nat
        /\ pos' <= MaxSize /\ emitted <= pos + 1 /\ emitted' <= pos' + 1
    BY <1>1, <2>0 DEF LocalTypeOK, Within
  <2>3. ASSUME pos <= pos', emitted <= emitted',
               \/ StagesLeft' < StagesLeft
               \/ StagesLeft' = StagesLeft /\ (pos < pos' \/ emitted < emitted')
               \/ StagesLeft' = StagesLeft + 1 /\ pos < pos'
        PROVE  Left' \in 0..(Left - 1)
    <3>1. PICK s \in Nat, ss \in Nat, pp \in Nat, ee \in Nat :
            s = StagesLeft /\ ss = StagesLeft' /\ pp = pos' /\ ee = emitted'
      BY <2>1, <2>2
    <3>2. /\ pos <= pp /\ pp <= MaxSize /\ emitted <= pos + 1 /\ emitted <= ee
          /\ ee <= pp + 1
          /\ \/ ss < s
             \/ ss = s /\ (pos < pp \/ emitted < ee)
             \/ ss = s + 1 /\ pos < pp
      BY <2>2, <2>3, <3>1, Zenon
    <3>3. 3 * (MaxSize - pp) + ((pp + 1) - ee) + ss
            \in 0..((3 * (MaxSize - pos) + ((pos + 1) - emitted) + s) - 1)
      BY <2>2, <3>2, LeftGoesDown
    <3>4. QED BY <3>1, <3>3, Zenon DEF Left
  <2>4. CASE ExtractMeta \/ CheckFile \/ FileSize \/ SendHttpHeader \/ OpenFile
             \/ SendFile \/ WriteMarker
    <3>1. UNCHANGED <<pos, emitted>>
      BY <2>4 DEF ExtractMeta, CheckFile, FileSize, SendHttpHeader, OpenFile, SendFile,
         WriteMarker, bodyVars, deflateVars
    <3>2. StagesLeft' < StagesLeft
      <4>1. \/ stage = "meta" /\ stage' \in {"exists", "failed"}
            \/ stage = "exists" /\ stage' \in {"size", "failed"}
            \/ stage = "size" /\ stage' \in {"line", "crashed"}
            \/ stage = "line" /\ stage' = "fields"
            \/ stage = "fields" /\ stage' = "open"
            \/ stage = "open" /\ stage' \in {"failed", "read", "copy", "sendfile"}
            \/ stage = "sendfile" /\ stage' = "done"
            \/ stage = "marker" /\ stage' = "done"
        BY <2>4 DEF ExtractMeta, CheckFile, FileSize, SendHttpHeader, OpenFile, SendFile,
           WriteMarker, Goto
      <4>2. QED BY <4>1, RankValues DEF StagesLeft
    <3>3. QED BY <2>2, <2>3, <3>1, <3>2
  <2>5. CASE GiveUp
    <3>1. UNCHANGED <<pos, emitted>>
      BY <2>5 DEF GiveUp, bodyVars, deflateVars
    <3>2. StagesLeft' < StagesLeft
      BY <2>5, RankValues DEF GiveUp, Goto, Reading, StagesLeft
    <3>3. QED BY <2>2, <2>3, <3>1, <3>2
  <2>6. CASE CopyPiece
    <3>1. Got(CopyChunk) \in 0..CopyChunk /\ emitted' = emitted
      BY <2>0, <2>6, GotIsBounded DEF LocalTypeOK, CopyPiece, deflateVars
    <3>2. pos <= pos' /\ (Got(CopyChunk) = CopyChunk => pos < pos')
      BY <2>2, <2>6, <3>1 DEF CopyPiece
    <3>3. CASE Got(CopyChunk) < CopyChunk
      <4>1. StagesLeft' < StagesLeft
        BY <2>6, <3>3, RankValues DEF CopyPiece, Goto, StagesLeft
      <4>2. QED BY <2>2, <2>3, <3>1, <3>2, <4>1
    <3>4. CASE ~(Got(CopyChunk) < CopyChunk)
      <4>1. StagesLeft' = StagesLeft
        BY <2>6, <3>4, RankValues DEF CopyPiece, Goto, StagesLeft
      <4>2. pos < pos'
        BY <3>1, <3>2, <3>4
      <4>3. QED BY <2>2, <2>3, <3>1, <3>2, <4>1, <4>2
    <3>5. QED BY <3>3, <3>4
  <2>7. CASE ReadChunk
    <3>1. Got(CompressChunk) \in 0..CompressChunk /\ emitted' = emitted
      BY <2>0, <2>7, GotIsBounded DEF LocalTypeOK, ReadChunk
    <3>2. pos <= pos' /\ (Got(CompressChunk) = CompressChunk => pos < pos')
      BY <2>2, <2>7, <3>1 DEF ReadChunk
    <3>3. CASE Got(CompressChunk) < CompressChunk
      <4>1. stage = "read" /\ stage' = "deflate" /\ finish'
        BY <2>7, <3>3 DEF ReadChunk, Goto
      <4>2. StagesLeft' < StagesLeft
        BY <4>1, RankValues DEF StagesLeft
      <4>3. QED BY <2>2, <2>3, <3>1, <3>2, <4>2
    <3>4. CASE ~(Got(CompressChunk) < CompressChunk)
      <4>1. stage = "read" /\ stage' = "deflate" /\ ~finish'
        BY <2>7, <3>4 DEF ReadChunk, Goto
      <4>2. StagesLeft' = StagesLeft + 1
        BY <4>1, RankValues DEF StagesLeft
      <4>3. pos < pos'
        BY <3>1, <3>2, <3>4
      <4>4. QED BY <2>2, <2>3, <3>1, <3>2, <4>2, <4>3
    <3>5. QED BY <3>3, <3>4
  <2>8. ASSUME NEW n \in 0..avail_in, NEW k \in 0..CompressChunk, Deflate(n, k)
        PROVE  Left' \in 0..(Left - 1)
    <3>1. pos' = pos /\ emitted' = emitted + k /\ stage = "deflate" /\ finish' = finish
      BY <2>8 DEF Deflate
    <3>2. emitted <= emitted' /\ pos <= pos' /\ (k = CompressChunk => emitted < emitted')
      BY <2>2, <3>1
    <3>3. CASE k = CompressChunk
      <4>1. StagesLeft' = StagesLeft
        BY <2>8, <3>1, <3>3, RankValues DEF Deflate, Goto, StagesLeft
      <4>2. QED BY <2>3, <3>2, <3>3, <4>1
    <3>4. CASE k # CompressChunk
      <4>1. StagesLeft' < StagesLeft
        BY <2>8, <3>1, <3>4, RankValues DEF Deflate, Goto, StagesLeft
      <4>2. QED BY <2>3, <3>2, <4>1
    <3>5. QED BY <3>3, <3>4
  <2>9. CASE UNCHANGED <<stage, compression_type_, local_file_size, bodyVars, damaged>>
    BY <2>9
  <2>10. QED
    BY <1>1, <2>4, <2>5, <2>6, <2>7, <2>8, <2>9 DEF LocalNext, LocalStep,
       SetHttpCompression, FileChanges
<1>2. LInv => LocalTypeOK
  BY DEF LInv
<1>3. LInv /\ Within /\ LocalTypeOK' /\ Within' /\ [LocalNext]_localVars
        => [\/ Left' \in 0..(Left - 1)
            \/ UNCHANGED <<stage, compression_type_, local_file_size, bodyVars,
                           damaged>>]_localVars
  BY <1>1
<1>4. QED
  BY <1>2, <1>3, LocalInvariant, WithinHolds, PTL DEF LocalSpec, AnswerAdvances

-----------------------------------------------------------------------------

(* The stages of an answer from a local file, as those of Handler.         *)
Phase ==
  IF stage = "meta" THEN "header"
  ELSE IF stage \in {"exists", "size", "line", "fields"} THEN "local"
  ELSE IF stage \in {"open"} \cup Reading THEN "localBody"
  ELSE IF stage = "crashed" THEN "crashed" ELSE "done"
Handling == INSTANCE Handler WITH phase <- Phase

(* The answer from a local file, down to its chunks, is the handler that   *)
(* Gateway composes with the pool of threads: it goes from the header to   *)
(* the body to the end, and only file_size() ends the process.             *)
THEOREM LocalImplementsHandler == LocalSpec => Handling!HandlerSpec
<1>1. LocalInit => Handling!HandlerInit
  BY DEF LocalInit, Handling!HandlerInit, Phase
<1>2. ASSUME [LocalNext]_localVars PROVE [Handling!HandlerNext]_Phase
  <2>1. CASE stage' = stage
    BY <2>1, Zenon DEF Phase
  <2>2. CASE stage' # stage
    <3>1. \/ stage = "meta" /\ stage' \in {"exists", "failed"}
          \/ stage = "exists" /\ stage' \in {"size", "failed"}
          \/ stage = "size" /\ stage' \in {"line", "crashed"}
          \/ stage = "line" /\ stage' \in {"fields", "failed"}
          \/ stage = "fields" /\ stage' \in {"open", "failed"}
          \/ stage = "open" /\ stage' \in Reading \cup {"failed"}
          \/ stage \in Reading /\ stage' \in Reading \cup {"done", "failed"}
      BY <1>2, <2>2 DEF LocalNext, LocalStep, GiveUp, SetHttpCompression, FileChanges,
         ExtractMeta, CheckFile, FileSize, SendHttpHeader, OpenFile, SendFile, CopyPiece,
         ReadChunk, WriteMarker, Deflate, Goto, Reading, localVars
    <3>2. \/ Phase' = Phase
          \/ Phase = "header" /\ Phase' = "local"
          \/ Phase = "local" /\ Phase' = "localBody"
          \/ Phase = "local" /\ Phase' = "crashed"
          \/ Phase \notin {"done", "crashed"} /\ Phase' = "done"
      BY <3>1 DEF Phase, Reading
    <3>3. QED
      BY <3>2 DEF Handling!HandlerNext, Handling!Route, Handling!Advance, Handling!End,
         Handling!Crash
  <2>3. QED BY <2>1, <2>2
<1>3. QED BY <1>1, <1>2, PTL DEF LocalSpec, Handling!HandlerSpec
=============================================================================
