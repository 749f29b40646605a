---------------------------- MODULE TransferProofs ----------------------------
(***************************************************************************)
(* What is proved about uploads and downloads, for every size of object,    *)
(* limit and chunk: a stored upload is whole and within the limit, and a    *)
(* complete response carries exactly its range.                            *)
(***************************************************************************)
EXTENDS Transfer, SequenceTheorems, TLAPS

UploadOK ==
  /\ kind \in Kinds /\ limit \in 0..MaxInt /\ total \in 0..MaxTotal
  /\ up \in UploadState
  /\ blob \in {Absent} \cup 0..MaxTotal
  /\ outcome \in {"none", "stored", "tooLarge", "failed"}

\* The cap and the count add up, and where the limit has no byte beyond it nothing
\* is read at all.
Capped ==
  /\ up.n <= total
  /\ limit < MaxInt => up.left = limit + 1 - up.n
  /\ limit = MaxInt => up.left <= 0 /\ up.n = 0 /\ up.pc \notin {"ended", "taken"}

\* What the store holds follows the copy.
Followed ==
  /\ up.pc = "start" => up.n = 0
  /\ up.pc \in {"ended", "taken"} => up.n = total
  /\ kind = "fs" /\ up.pc \in {"copy", "ended"} => blob = up.n
  /\ up.pc = "taken" => blob = up.n /\ kind = "s3"

\* The answer comes at the end, and is right.
Answered ==
  /\ outcome # "none" <=> up.pc = "done"
  /\ up.pc = "over" /\ limit < MaxInt => total > limit
  /\ StoredIsWhole
  /\ RefusedIsLarge

UploadInv == UploadOK /\ Capped /\ Followed /\ Answered

-----------------------------------------------------------------------------
(* Uploads *)

LEMMA UploadInit == ASSUME Init PROVE UploadInv
  BY TransferAssumption
     DEF Init, UploadInv, UploadOK, UploadState, Capped, Followed, Answered, StoredIsWhole, RefusedIsLarge,
         CapLeft, Absent, MinInt

LEMMA DownloadKeepsUpload == ASSUME UploadInv, Download \/ Delete PROVE UploadInv'
<1>1. UNCHANGED upload /\ blob' \in {blob, Absent} /\ (blob' = blob \/ outcome = "stored")
  BY DEF Download, Delete, Open, TypeKnown, Sniff, SniffFails, Answer, Send, SendFails, Close
<1>2. UNCHANGED <<kind, limit, total, up, outcome>>
  BY <1>1 DEF upload
<1> QED BY <1>1, <1>2
        DEF UploadInv, UploadOK, Capped, Followed, Answered, StoredIsWhole, RefusedIsLarge, Absent

LEMMA UploadTyped == ASSUME UploadInv, Put PROVE UploadOK'
<1> USE TransferAssumption DEF UploadInv, UploadOK, UploadState
<1>1. CASE Create \/ CreateFails
  BY <1>1 DEF Create, CreateFails, Absent
<1>2. CASE Receive
  <2>1. /\ up.n \in Nat /\ up.left \in Int /\ up.left > 0 /\ up.left \in 0..MaxInt /\ total \in 0..MaxTotal
    BY <1>2 DEF Receive, MinInt
  <2>2. PICK k \in 1..ChunkSize, last \in BOOLEAN :
          /\ k <= up.left
          /\ up.n + k <= total
          /\ last => up.n + k = total
          /\ up' = [pc |-> IF last THEN "ended" ELSE "copy", n |-> up.n + k, left |-> up.left - k]
          /\ blob' = IF kind = "fs" THEN up.n + k ELSE blob
    BY <1>2 DEF Receive
  <2>3. up.n + k \in 0..MaxTotal /\ up.left - k \in 0..MaxInt
    BY <2>1, <2>2
  <2>4. UNCHANGED <<kind, limit, total, outcome>>
    BY <1>2 DEF Receive
  <2>5. up' \in UploadState
    <3>1. CASE last
      BY <2>2, <2>3, <3>1
    <3>2. CASE ~last
      BY <2>2, <2>3, <3>2
    <3> QED BY <3>1, <3>2
  <2> QED BY <2>2, <2>3, <2>4, <2>5
<1>3. CASE End \/ Overflow \/ Take
  BY <1>3 DEF End, Overflow, Take, Leftover
<1>4. CASE Break
  BY <1>4 DEF Break, Leftover
<1>5. CASE RefuseLarge \/ Fail \/ Accept
  BY <1>5 DEF RefuseLarge, Fail, Accept, Remove
<1> QED BY <1>1, <1>2, <1>3, <1>4, <1>5 DEF Put

LEMMA UploadCapped == ASSUME UploadInv, Put PROVE Capped' /\ Followed'
<1> USE TransferAssumption DEF UploadInv, UploadOK, UploadState, Capped, Followed, MinInt
<1>1. CASE Create \/ CreateFails
  BY <1>1 DEF Create, CreateFails
<1>2. CASE Receive
  <2>1. PICK k \in 1..ChunkSize, last \in BOOLEAN :
          /\ k <= up.left
          /\ up.n + k <= total
          /\ last => up.n + k = total
          /\ up' = [pc |-> IF last THEN "ended" ELSE "copy", n |-> up.n + k, left |-> up.left - k]
          /\ blob' = IF kind = "fs" THEN up.n + k ELSE blob
    BY <1>2 DEF Receive
  <2>2. UNCHANGED <<kind, limit, total>> /\ up.left > 0
    BY <1>2 DEF Receive
  <2>3. CASE last
    BY <2>1, <2>2, <2>3
  <2>4. CASE ~last
    BY <2>1, <2>2, <2>4
  <2> QED BY <2>3, <2>4
<1>3. CASE End \/ Overflow \/ Take
  BY <1>3 DEF End, Overflow, Take
<1>4. CASE Break
  BY <1>4 DEF Break
<1>5. CASE RefuseLarge \/ Fail \/ Accept
  BY <1>5 DEF RefuseLarge, Fail, Accept
<1> QED BY <1>1, <1>2, <1>3, <1>4, <1>5 DEF Put

LEMMA UploadAnswered == ASSUME UploadInv, Put PROVE Answered'
<1> USE TransferAssumption
    DEF UploadInv, UploadOK, UploadState, Capped, Followed, Answered, StoredIsWhole, RefusedIsLarge, MinInt
<1>1. CASE Create \/ CreateFails
  BY <1>1 DEF Create, CreateFails
<1>2. CASE Receive
  BY <1>2 DEF Receive
<1>3. CASE End \/ Take \/ Break
  BY <1>3 DEF End, Take, Break
<1>4. CASE Overflow
  BY <1>4 DEF Overflow
<1>5. CASE RefuseLarge
  BY <1>5 DEF RefuseLarge, Received
<1>6. CASE Fail
  BY <1>6 DEF Fail
<1>7. CASE Accept
  BY <1>7 DEF Accept, Received
<1> QED BY <1>1, <1>2, <1>3, <1>4, <1>5, <1>6, <1>7 DEF Put

LEMMA UploadInvariant == TransferSpec => []UploadInv
<1>1. Init => UploadInv
  BY UploadInit
<1>2. UploadInv /\ [Next]_vars => UploadInv'
  <2> SUFFICES ASSUME UploadInv, [Next]_vars PROVE UploadInv'
    OBVIOUS
  <2>1. CASE Put
    BY <2>1, UploadTyped, UploadCapped, UploadAnswered DEF UploadInv
  <2>2. CASE Download \/ Delete
    BY <2>2, DownloadKeepsUpload
  <2>3. CASE UNCHANGED vars
    BY <2>3 DEF UploadInv, UploadOK, Capped, Followed, Answered, StoredIsWhole, RefusedIsLarge, vars, upload
  <2> QED BY <2>1, <2>2, <2>3 DEF Next
<1> QED BY <1>1, <1>2, PTL DEF TransferSpec

\* storage.go:80: whatever the sizes, and whichever read crosses the limit, a stored
\* upload is within it and whole.
THEOREM StoredUploadsAreWhole == TransferSpec => []StoredIsWhole
<1>1. UploadInv => StoredIsWhole
  BY DEF UploadInv, Answered
<1> QED BY <1>1, UploadInvariant, PTL

\* An upload of exactly the limit passes: only what is larger is refused as too large.
THEOREM OnlyLargeUploadsAreRefused == TransferSpec => []RefusedIsLarge
<1>1. UploadInv => RefusedIsLarge
  BY DEF UploadInv, Answered
<1> QED BY <1>1, UploadInvariant, PTL

-----------------------------------------------------------------------------
(* Downloads *)

DownloadOK == rd \in DownloadState /\ got \in Seq(0..MaxTotal)

\* An open body is at the reader's position, within the object.
Positioned ==
  /\ rd.body \in {None, rd.pos}
  /\ rd.pos <= rd.size
  /\ rd.pc = "closed" => rd = Closed

\* What has been sent is the range, up to the position.
Sent ==
  /\ rd.pc \in {"closed", "opened", "ready", "missing"} => got = <<>>
  /\ rd.pc = "send" =>
       /\ Len(got) < rd.want /\ rd.start + rd.want <= rd.size
       /\ rd.pos = rd.start + Len(got)
       /\ got = Bytes(rd.start, Len(got))
  /\ WholeIsRange

DownloadInv == DownloadOK /\ Positioned /\ Sent

LEMMA DownloadInit == ASSUME Init PROVE DownloadInv
  BY TransferAssumption
     DEF Init, DownloadInv, DownloadOK, DownloadState, Closed, Positioned, Sent, WholeIsRange, None

\* Consecutive bytes followed by the next ones are consecutive bytes.
LEMMA BytesExtend ==
  ASSUME NEW max \in Nat, NEW s \in Seq(0..max), NEW n \in Nat, NEW a \in Nat, a + Len(s) + n <= max + 1,
         s = Bytes(a, Len(s))
  PROVE  /\ s \o Bytes(a + Len(s), n) \in Seq(0..max)
         /\ Len(s \o Bytes(a + Len(s), n)) = Len(s) + n
         /\ s \o Bytes(a + Len(s), n) = Bytes(a, Len(s) + n)
<1>0. PICK m \in Nat : m = Len(s)
  BY LenProperties
<1> DEFINE u == Bytes(a + m, n)
<1>1. Len(s) = m /\ a + m + n <= max + 1 /\ \A i \in 1..m : s[i] = a + i - 1
  BY <1>0 DEF Bytes
<1>2. u \in [1..n -> 0..max]
  BY <1>1 DEF Bytes
<1>3. u \in Seq(0..max) /\ Len(u) = n
  BY <1>2
<1>7. \A i \in 1..n : u[i] = a + m + i - 1
  BY DEF Bytes
<1> HIDE DEF u
<1>4. /\ s \o u \in Seq(0..max)
      /\ Len(s \o u) = m + n
      /\ \A i \in 1..(m + n) : (s \o u)[i] = IF i <= m THEN s[i] ELSE u[i - m]
  <2>1. /\ s \o u \in Seq(0..max)
        /\ Len(s \o u) = Len(s) + Len(u)
        /\ \A i \in 1..(Len(s) + Len(u)) : (s \o u)[i] = IF i <= Len(s) THEN s[i] ELSE u[i - Len(s)]
    BY <1>3, ConcatProperties
  <2> QED BY <1>1, <1>3, <2>1
<1>5. ASSUME NEW i \in 1..(m + n) PROVE (s \o u)[i] = a + i - 1
  <2>1. CASE i <= m
    <3>1. (s \o u)[i] = s[i]
      BY <1>4, <2>1
    <3>2. s[i] = a + i - 1
      BY <1>1, <2>1
    <3> QED BY <3>1, <3>2
  <2>2. CASE ~(i <= m)
    <3>1. i - m \in 1..n
      BY <2>2
    <3>2. u[i - m] = a + m + (i - m) - 1
      BY <1>7, <3>1
    <3>3. (s \o u)[i] = u[i - m]
      BY <1>4, <2>2
    <3>4. a + m + (i - m) - 1 = a + i - 1
      OBVIOUS
    <3> QED BY <3>2, <3>3, <3>4
  <2> QED BY <2>1, <2>2
<1>6. s \o u = Bytes(a, m + n)
  <2>1. s \o u \in [1..(m + n) -> 0..max]
    BY <1>4, LenProperties
  <2> QED BY <1>5, <2>1 DEF Bytes
<1> QED BY <1>1, <1>4, <1>6 DEF u

\* What a read returns and leaves, where the body is at the position.
LEMMA ReadAtPosition ==
  ASSUME DownloadOK, Positioned, NEW k \in Nat, NEW c \in Reads(k)
  PROVE  /\ c.n \in 0..k /\ rd.pos + c.n <= rd.size
         /\ c.from = rd.pos
         /\ After(c) \in DownloadState
         /\ After(c).pc = rd.pc /\ After(c).size = rd.size
         /\ After(c).start = rd.start /\ After(c).want = rd.want
         /\ After(c).pos = rd.pos + c.n
         /\ After(c).body \in {None, After(c).pos}
<1> USE DEF DownloadOK, DownloadState, Positioned
<1>1. CASE rd.pos >= rd.size
  BY <1>1 DEF Reads, After
<1>2. CASE ~(rd.pos >= rd.size)
  <2>1. c \in [from : Sources, n : 0..k, then : {"more", "eof"}] /\ c.from + c.n <= rd.size
    BY <1>2 DEF Reads
  <2>2. c.from = rd.pos /\ c.n \in 0..k
    BY <2>1 DEF Sources
  <2>3. rd.pos + c.n \in 0..MaxTotal
    <3>1. rd.size \in Nat /\ rd.size <= MaxTotal /\ rd.pos \in Nat /\ c.n \in Nat /\ MaxTotal \in Nat
      BY <2>2, TransferAssumption
    <3> QED BY <2>1, <2>2, <3>1
  <2>4. After(c) = [rd EXCEPT !.pos = rd.pos + c.n,
                              !.body = IF c.then = "eof" THEN None ELSE rd.pos + c.n]
    BY <1>2, <2>2 DEF After
  <2>5. PICK x \in {None, rd.pos + c.n} : After(c) = [rd EXCEPT !.pos = rd.pos + c.n, !.body = x]
    BY <2>4
  <2>6. After(c) \in DownloadState
    BY <2>3, <2>5
  <2> QED BY <2>1, <2>2, <2>5, <2>6
<1> QED BY <1>1, <1>2

\* A seek within the object.
LEMMA SeekAtPosition ==
  ASSUME NEW r \in DownloadState, r.body \in {None, r.pos}, NEW t \in 0..MaxTotal
  PROVE  /\ SeekTo(r, t) \in DownloadState
         /\ SeekTo(r, t).pos = t
         /\ SeekTo(r, t).body \in {None, t}
         /\ SeekTo(r, t).size = r.size
  BY DEF SeekTo, DownloadState

LEMMA UploadKeepsDownload ==
  ASSUME DownloadInv, UNCHANGED download PROVE DownloadInv'
  BY DEF DownloadInv, DownloadOK, Positioned, Sent, WholeIsRange, download

LEMMA SendStep == ASSUME DownloadInv, Send PROVE DownloadInv'
<1>1. /\ rd \in DownloadState /\ got \in Seq(0..MaxTotal)
      /\ rd.pc = "send"
      /\ Len(got) < rd.want /\ rd.start + rd.want <= rd.size
      /\ rd.pos = rd.start + Len(got)
      /\ got = Bytes(rd.start, Len(got))
  BY DEF DownloadInv, DownloadOK, Sent, Send
<1>a. PICK k \in 1..ChunkSize :
        /\ Len(got) + k <= rd.want
        /\ \E c \in Reads(k) :
             /\ got' = got \o Bytes(c.from, c.n)
             /\ rd' = [After(c) EXCEPT !.pc = IF Len(got) + c.n = rd.want THEN "whole"
                                              ELSE IF c.n = 0 THEN "cut" ELSE "send"]
  BY DEF Send
<1>2. PICK c \in Reads(k) :
        /\ got' = got \o Bytes(c.from, c.n)
        /\ rd' = [After(c) EXCEPT !.pc = IF Len(got) + c.n = rd.want THEN "whole"
                                         ELSE IF c.n = 0 THEN "cut" ELSE "send"]
  BY <1>a
<1> DEFINE r == After(c)
<1>3. k \in Nat
  BY <1>a, TransferAssumption
<1>4. /\ c.n \in 0..k /\ rd.pos + c.n <= rd.size
      /\ c.from = rd.pos
      /\ r \in DownloadState
      /\ r.size = rd.size /\ r.start = rd.start /\ r.want = rd.want
      /\ r.pos = rd.pos + c.n
      /\ r.body \in {None, r.pos}
  BY <1>3, ReadAtPosition DEF DownloadInv
<1> HIDE DEF r
<1>5. /\ Len(got) \in Nat /\ c.n \in Nat /\ rd.start \in Nat /\ MaxTotal \in Nat
      /\ rd.size <= MaxTotal
      /\ rd.want \in Nat /\ rd.size \in Nat
  BY <1>1, <1>3, <1>4, LenProperties, TransferAssumption DEF DownloadState
<1>6. /\ got' \in Seq(0..MaxTotal)
      /\ Len(got') = Len(got) + c.n
      /\ got' = Bytes(rd.start, Len(got) + c.n)
  <2>1. rd.start + Len(got) + c.n <= MaxTotal + 1
    BY <1>1, <1>4, <1>5
  <2>2. c.from = rd.start + Len(got)
    BY <1>1, <1>4
  <2>3. got' = got \o Bytes(rd.start + Len(got), c.n)
    BY <1>2, <2>2
  <2>4. /\ got \o Bytes(rd.start + Len(got), c.n) \in Seq(0..MaxTotal)
        /\ Len(got \o Bytes(rd.start + Len(got), c.n)) = Len(got) + c.n
        /\ got \o Bytes(rd.start + Len(got), c.n) = Bytes(rd.start, Len(got) + c.n)
    <3>1. MaxTotal \in Nat /\ c.n \in Nat /\ rd.start \in Nat
      BY <1>5
    <3>2. got \in Seq(0..MaxTotal) /\ got = Bytes(rd.start, Len(got))
      BY <1>1
    <3> QED BY <2>1, <3>1, <3>2, BytesExtend
  <2> QED BY <2>3, <2>4
<1>7. /\ rd' \in DownloadState
      /\ rd'.size = rd.size /\ rd'.start = rd.start /\ rd'.want = rd.want
      /\ rd'.pos = rd.pos + c.n
      /\ rd'.body \in {None, rd'.pos}
      /\ rd'.pc = IF Len(got) + c.n = rd.want THEN "whole" ELSE IF c.n = 0 THEN "cut" ELSE "send"
  BY <1>2, <1>4 DEF DownloadState, r
<1>8. (DownloadOK /\ Positioned)'
  BY <1>4, <1>6, <1>7 DEF DownloadOK, Positioned
<1>9. Len(got) + c.n <= rd.want /\ rd'.pos = rd.start + (Len(got) + c.n)
  BY <1>1, <1>a, <1>4, <1>5, <1>7
<1>10. Sent'
  <2>1. CASE Len(got) + c.n = rd.want
    BY <1>6, <1>7, <2>1 DEF Sent, WholeIsRange
  <2>2. CASE Len(got) + c.n # rd.want
    <3>1. rd'.pc \in {"cut", "send"}
      BY <1>7, <2>2
    <3>2. Len(got') < rd'.want /\ rd'.start + rd'.want <= rd'.size /\ rd'.pos = rd'.start + Len(got')
      BY <1>1, <1>5, <1>6, <1>7, <1>9, <2>2
    <3>3. got' = Bytes(rd'.start, Len(got'))
      BY <1>6, <1>7
    <3> QED BY <3>1, <3>2, <3>3 DEF Sent, WholeIsRange
  <2> QED BY <2>1, <2>2
<1> QED BY <1>8, <1>10 DEF DownloadInv

LEMMA AnswerStep == ASSUME DownloadInv, Answer PROVE DownloadInv'
<1>1. /\ rd \in DownloadState /\ rd.body \in {None, rd.pos} /\ rd.pc = "ready" /\ got = <<>>
      /\ got' = got /\ rd.size \in 0..MaxTotal /\ MaxTotal \in Nat
  BY TransferAssumption DEF DownloadInv, DownloadOK, DownloadState, Positioned, Sent, Answer
<1>2. PICK start \in 0..rd.size, want \in 0..rd.size :
        /\ start + want <= rd.size
        /\ rd' = [SeekTo(SeekTo(SeekTo(rd, rd.size), 0), start)
                    EXCEPT !.pc = IF want = 0 THEN "whole" ELSE "send", !.start = start, !.want = want]
  BY DEF Answer
<1> DEFINE a == SeekTo(rd, rd.size)
           b == SeekTo(a, 0)
           r == SeekTo(b, start)
<1>3. start \in 0..MaxTotal /\ want \in 0..MaxTotal /\ 0 \in 0..MaxTotal
  BY <1>1
<1>4. a \in DownloadState /\ a.body \in {None, a.pos} /\ a.size = rd.size
  BY <1>1, SeekAtPosition
<1> HIDE DEF a
<1>5. b \in DownloadState /\ b.body \in {None, b.pos} /\ b.size = rd.size
  BY <1>3, <1>4, SeekAtPosition
<1> HIDE DEF b
<1>6. r \in DownloadState /\ r.body \in {None, start} /\ r.pos = start /\ r.size = rd.size
  BY <1>3, <1>5, SeekAtPosition
<1>7. rd' = [r EXCEPT !.pc = IF want = 0 THEN "whole" ELSE "send", !.start = start, !.want = want]
  BY <1>2 DEF a, b
<1> HIDE DEF r
<1>8. /\ rd' \in DownloadState /\ rd'.body \in {None, start} /\ rd'.pos = start /\ rd'.size = rd.size
      /\ rd'.start = start /\ rd'.want = want
      /\ rd'.pc = IF want = 0 THEN "whole" ELSE "send"
  BY <1>3, <1>6, <1>7 DEF DownloadState
<1>9. (DownloadOK /\ Positioned)'
  BY <1>1, <1>8 DEF DownloadInv, DownloadOK, Positioned
<1>10. Sent'
  <2>1. CASE want = 0
    BY <1>1, <1>8, <2>1 DEF Sent, WholeIsRange, Bytes
  <2>2. CASE want # 0
    BY <1>1, <1>2, <1>8, <2>2 DEF Sent, WholeIsRange, Bytes
  <2> QED BY <2>1, <2>2
<1> QED BY <1>9, <1>10 DEF DownloadInv

LEMMA SniffStep == ASSUME DownloadInv, Sniff PROVE DownloadInv'
<1>1. DownloadOK /\ Positioned /\ rd.pc = "opened" /\ got = <<>> /\ got' = got
  BY DEF DownloadInv, Sent, Sniff
<1>2. PICK c \in Reads(SniffSize) : rd' = [SeekTo(After(c), 0) EXCEPT !.pc = "ready"]
  BY DEF Sniff
<1>3. SniffSize \in Nat /\ 0 \in 0..MaxTotal
  BY TransferAssumption
<1>4. After(c) \in DownloadState /\ After(c).body \in {None, After(c).pos}
  BY <1>1, <1>3, ReadAtPosition
<1> DEFINE r == SeekTo(After(c), 0)
<1>5. r \in DownloadState /\ r.body \in {None, 0} /\ r.pos = 0
  BY <1>3, <1>4, SeekAtPosition
<1>6. rd' = [r EXCEPT !.pc = "ready"]
  BY <1>2
<1> HIDE DEF r
<1>7. rd' \in DownloadState /\ rd'.body \in {None, 0} /\ rd'.pos = 0 /\ rd'.pc = "ready" /\ rd'.size \in Nat
  BY <1>5, <1>6, TransferAssumption DEF DownloadState
<1> QED BY <1>1, <1>7 DEF DownloadInv, DownloadOK, Positioned, Sent, WholeIsRange

LEMMA DownloadStep == ASSUME UploadInv, DownloadInv, Download PROVE DownloadInv'
<1>1. CASE Send
  BY <1>1, SendStep
<1>2. CASE Answer
  BY <1>2, AnswerStep
<1>3. CASE Sniff
  BY <1>3, SniffStep
<1>4. CASE Open
  <2>1. rd = Closed /\ got = <<>> /\ got' = got /\ blob \in {Absent} \cup 0..MaxTotal /\ MaxTotal \in Nat
    BY <1>4, TransferAssumption DEF Open, DownloadInv, Positioned, Sent, UploadInv, UploadOK
  <2>2. CASE blob = Absent
    BY <1>4, <2>1, <2>2
       DEF Open, Closed, DownloadInv, DownloadOK, DownloadState, Positioned, Sent, WholeIsRange
  <2>3. CASE blob # Absent
    <3>1. rd' = [pc |-> "opened", size |-> blob, pos |-> 0, body |-> None, start |-> 0, want |-> 0]
      BY <1>4, <2>1, <2>3 DEF Open, Closed
    <3>2. blob \in 0..MaxTotal /\ 0 <= blob /\ got' = <<>>
      BY <2>1, <2>3
    <3>3. (DownloadOK /\ Positioned)'
      BY <2>1, <3>1, <3>2 DEF DownloadOK, DownloadState, Positioned
    <3> QED BY <3>1, <3>2, <3>3 DEF DownloadInv, Sent, WholeIsRange
  <2> QED BY <2>2, <2>3
<1>5. CASE TypeKnown \/ SniffFails
  BY <1>5 DEF TypeKnown, SniffFails, DownloadInv, DownloadOK, DownloadState, Positioned, Sent, WholeIsRange
<1>6. CASE SendFails
  BY <1>6 DEF SendFails, DownloadInv, DownloadOK, DownloadState, Positioned, Sent, WholeIsRange
<1>7. CASE Close
  BY <1>7, TransferAssumption
     DEF Close, Closed, None, DownloadInv, DownloadOK, DownloadState, Positioned, Sent, WholeIsRange
<1> QED BY <1>1, <1>2, <1>3, <1>4, <1>5, <1>6, <1>7 DEF Download

LEMMA DownloadInvariant == TransferSpec => []DownloadInv
<1>1. Init => DownloadInv
  BY DownloadInit
<1>2. UploadInv /\ DownloadInv /\ [Next]_vars => DownloadInv'
  <2> SUFFICES ASSUME UploadInv, DownloadInv, [Next]_vars PROVE DownloadInv'
    OBVIOUS
  <2>1. CASE Download
    BY <2>1, DownloadStep
  <2>2. CASE Put \/ Delete \/ UNCHANGED vars
    <3>1. UNCHANGED download
      BY <2>2 DEF Put, Create, CreateFails, Receive, End, Overflow, Break, Take, RefuseLarge, Fail, Accept,
                  Delete, vars
    <3> QED BY <3>1, UploadKeepsDownload
  <2> QED BY <2>1, <2>2 DEF Next
<1> QED BY <1>1, <1>2, UploadInvariant, PTL DEF TransferSpec

\* storage_s3.go:233: whatever was read, sought and closed before, a response that
\* ends as a complete one has carried each byte of its range once and in order.
THEOREM ResponsesAreTheirRange == TransferSpec => []WholeIsRange
<1>1. DownloadInv => WholeIsRange
  BY DEF DownloadInv, Sent
<1> QED BY <1>1, DownloadInvariant, PTL

-----------------------------------------------------------------------------

LEMMA FaultsBounded == TransferSpec => [](faults \in 0..MaxFaults)
<1>1. Init => faults \in 0..MaxFaults
  BY TransferAssumption DEF Init
<1>2. faults \in 0..MaxFaults /\ [Next]_vars => (faults \in 0..MaxFaults)'
  <2> SUFFICES ASSUME faults \in 0..MaxFaults, [Next]_vars PROVE faults' \in 0..MaxFaults
    OBVIOUS
  <2>1. faults' = faults \/ Fault
    BY DEF Next, Put, Create, CreateFails, Receive, End, Overflow, Break, Take, RefuseLarge, Fail, Accept,
           Remove, Download, Open, TypeKnown, Sniff, SniffFails, Answer, Send, SendFails, Close, Delete, vars
  <2> QED BY <2>1, TransferAssumption DEF Fault
<1> QED BY <1>1, <1>2, PTL DEF TransferSpec

\* Every variable stays in its range: the cap never goes negative but by the wrap.
THEOREM TransferTypeCorrect == TransferSpec => []TransferTypeOK
<1>1. UploadInv /\ DownloadInv /\ faults \in 0..MaxFaults => TransferTypeOK
  BY DEF UploadInv, UploadOK, DownloadInv, DownloadOK, TransferTypeOK
<1> QED BY <1>1, UploadInvariant, DownloadInvariant, FaultsBounded, PTL
=============================================================================
