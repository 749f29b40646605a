------------------------------ MODULE Transfer ------------------------------
(***************************************************************************)
(* The bytes of one upload on their way into the blob store, under the size *)
(* limit (storage.go, storage_fs.go, storage_s3.go), and on their way out,  *)
(* in ranges (storage_s3.go, serve_file.go).                               *)
(*                                                                         *)
(* A byte is its position in the upload, so an object is its length.  A key *)
(* is used once: what is stored under it may be removed, never replaced.    *)
(***************************************************************************)
EXTENDS Integers, Sequences

CONSTANTS
  Kinds,      \* ART_STORAGE: "fs", "s3"
  MaxInt,     \* the largest int64
  MaxTotal,   \* bound: bytes of an upload
  ChunkSize,  \* bytes one Read returns at most
  SniffSize,  \* bytes read to guess a content type, 512 in the code
  MaxFaults   \* bound: failed calls

ASSUME TransferAssumption ==
  /\ Kinds \subseteq {"fs", "s3"}
  /\ MaxInt \in Nat /\ MaxTotal \in Nat
  /\ MaxTotal < MaxInt
  /\ ChunkSize \in Nat \ {0} /\ SniffSize \in Nat \ {0}
  /\ MaxFaults \in Nat

VARIABLES
  kind,     \* the backend
  limit,    \* maxContentLength
  total,    \* the bytes the client sends
  up,       \* the Put under way, with its capReader
  blob,     \* the length of what is stored under the key, or Absent
  outcome,  \* of Put
  rd,       \* a download, with its s3ReadSeeker
  got,      \* history: the bytes the download has sent
  faults    \* failures so far

upload == <<kind, limit, total, up, outcome>>
download == <<rd, got>>
vars == <<upload, blob, download, faults>>

Absent == -1
None == -1
MinInt == -MaxInt - 1

\* The Put: copying, at the end of the body or of the limit, with an error, or with
\* an object the store has taken.
UploadState ==
  [pc   : {"start", "copy", "ended", "over", "broken", "taken", "done"},
   n    : 0..MaxTotal,
   left : {MinInt} \cup 0..MaxInt]

\* The download: not begun, opened, ready for its range, sending, and how it ended.
DownloadState ==
  [pc    : {"closed", "opened", "ready", "send", "whole", "cut", "missing"},
   size  : 0..MaxTotal,
   pos   : 0..MaxTotal,
   body  : {None} \cup 0..MaxTotal,   \* the position the open body is at
   start : 0..MaxTotal,               \* the range asked for
   want  : 0..MaxTotal]

Closed == [pc |-> "closed", size |-> 0, pos |-> 0, body |-> None, start |-> 0, want |-> 0]

\* A call that may fail at any time, MaxFaults times in a behaviour.
Fault ==
  /\ faults < MaxFaults
  /\ faults' = faults + 1

\* Mutant of CapLeft: the byte past the limit is not allowed.
CapLeftExact(max) == max

\* newCapReader: one byte more than the limit may be read, and int64 wraps.
CapLeft(max) == IF max = MaxInt THEN MinInt ELSE max + 1

Init ==
  /\ kind \in Kinds
  /\ limit \in 0..MaxInt
  /\ total \in 0..MaxTotal
  /\ up = [pc |-> "start", n |-> 0, left |-> CapLeft(limit)]
  /\ blob = Absent
  /\ outcome = "none"
  /\ rd = Closed /\ got = <<>>
  /\ faults = 0

-----------------------------------------------------------------------------
(* Put *)

\* The file exists from here on; the object store sees nothing yet.
Create ==
  /\ up.pc = "start"
  /\ up' = [up EXCEPT !.pc = "copy"]
  /\ blob' = IF kind = "fs" THEN 0 ELSE Absent
  /\ UNCHANGED <<kind, limit, total, outcome, download, faults>>

CreateFails ==
  /\ up.pc = "start"
  /\ kind = "fs"
  /\ Fault
  /\ up' = [up EXCEPT !.pc = "done"]
  /\ outcome' = "failed"
  /\ UNCHANGED <<kind, limit, total, blob, download>>

\* Mutant of Receive: the buffer is not cut to what is left.
ReceiveUncut ==
  /\ up.pc = "copy"
  /\ up.left > 0
  /\ \E k \in 1..ChunkSize, last \in BOOLEAN :
       /\ up.n + k <= total
       /\ last => up.n + k = total
       /\ up' = [pc |-> IF last THEN "ended" ELSE "copy", n |-> up.n + k, left |-> up.left - k]
       /\ blob' = IF kind = "fs" THEN up.n + k ELSE blob
  /\ UNCHANGED <<kind, limit, total, outcome, download, faults>>

\* capReader.Read passes what is left of the limit.  The end of the body may come
\* with its last bytes.
Receive ==
  /\ up.pc = "copy"
  /\ up.left > 0
  /\ \E k \in 1..ChunkSize, last \in BOOLEAN :
       /\ k <= up.left
       /\ up.n + k <= total
       /\ last => up.n + k = total
       /\ up' = [pc |-> IF last THEN "ended" ELSE "copy", n |-> up.n + k, left |-> up.left - k]
       /\ blob' = IF kind = "fs" THEN up.n + k ELSE blob
  /\ UNCHANGED <<kind, limit, total, outcome, download, faults>>

\* Or on a read of its own.
End ==
  /\ up.pc = "copy"
  /\ up.left > 0
  /\ up.n = total
  /\ up' = [up EXCEPT !.pc = "ended"]
  /\ UNCHANGED <<kind, limit, total, outcome, blob, download, faults>>

\* What a PUT that fails may leave of the bytes that were read.
Leftover == IF kind = "s3" THEN {blob, up.n} ELSE {blob}

\* A read past the limit fails.
Overflow ==
  /\ up.pc = "copy"
  /\ up.left <= 0
  /\ up' = [up EXCEPT !.pc = "over"]
  /\ blob' \in Leftover
  /\ UNCHANGED <<kind, limit, total, outcome, download, faults>>

\* The client goes away, the disk is full, or the store fails, which may have taken
\* the whole object all the same.
Break ==
  /\ up.pc \in {"copy", "ended"}
  /\ Fault
  /\ up' = [up EXCEPT !.pc = "broken"]
  /\ blob' \in IF up.pc = "ended" THEN Leftover ELSE {blob}
  /\ UNCHANGED <<kind, limit, total, outcome, download>>

\* The store answers.
Take ==
  /\ kind = "s3"
  /\ up.pc = "ended"
  /\ up' = [up EXCEPT !.pc = "taken"]
  /\ blob' = up.n
  /\ UNCHANGED <<kind, limit, total, outcome, download, faults>>

\* Every byte has been copied.
Received == up.pc = IF kind = "fs" THEN "ended" ELSE "taken"

\* Errors of a removal are ignored.
Remove == (blob' = Absent /\ UNCHANGED faults) \/ (blob' = blob /\ Fault)

RefuseLarge ==
  /\ up.pc = "over" \/ (Received /\ up.n > limit)
  /\ Remove
  /\ up' = [up EXCEPT !.pc = "done"]
  /\ outcome' = "tooLarge"
  /\ UNCHANGED <<kind, limit, total, download>>

\* Only the filesystem's Put removes what a failure left.
Fail ==
  /\ up.pc = "broken"
  /\ IF kind = "fs" THEN Remove ELSE UNCHANGED <<blob, faults>>
  /\ up' = [up EXCEPT !.pc = "done"]
  /\ outcome' = "failed"
  /\ UNCHANGED <<kind, limit, total, download>>

\* Mutant of Accept: the count is not checked again after the copy.
AcceptUnchecked ==
  /\ Received
  /\ up' = [up EXCEPT !.pc = "done"]
  /\ outcome' = "stored"
  /\ UNCHANGED <<kind, limit, total, blob, download, faults>>

\* The count is within the limit, and the file closes.
Accept ==
  /\ Received
  /\ up.n <= limit
  /\ up' = [up EXCEPT !.pc = "done"]
  /\ outcome' = "stored"
  /\ UNCHANGED <<kind, limit, total, blob, download, faults>>

Put == Create \/ CreateFails \/ Receive \/ End \/ Overflow \/ Break \/ Take \/ RefuseLarge \/ Fail \/ Accept

-----------------------------------------------------------------------------
(* The reader of an object *)

\* Mutant of SeekTo: the open body is kept.
SeekToKept(r, target) == [r EXCEPT !.pos = target]

\* Seek: an open body covers one position only.
SeekTo(r, target) ==
  [r EXCEPT !.pos = target, !.body = IF target # r.pos THEN None ELSE r.body]

\* Where the next bytes come from: the open body, or a GET at the position, which
\* finds nothing once the object is removed.
Sources ==
  IF rd.body # None THEN {rd.body} ELSE IF blob # Absent THEN {rd.pos} ELSE {}

\* Read, with room for k bytes: what the body gives, and whether it ends with that.
\* Past the size there is nothing to read.
Reads(k) ==
  IF rd.pos >= rd.size THEN {[from |-> rd.pos, n |-> 0, then |-> "eof"]}
  ELSE {c \in [from : Sources, n : 0..k, then : {"more", "eof"}] :
          /\ c.from + c.n <= rd.size
          /\ c.then = "eof" => c.from + c.n = rd.size
          /\ c.n = 0 => c.then = "eof"}

\* The reader afterwards; a body that has ended is closed.
After(c) ==
  IF rd.pos >= rd.size THEN rd
  ELSE [rd EXCEPT !.pos = @ + c.n, !.body = IF c.then = "eof" THEN None ELSE c.from + c.n]

\* The bytes of an object from a position on.
Bytes(from, n) == [i \in 1..n |-> from + i - 1]

\* The GET finds nothing.
Gone == rd.pos < rd.size /\ Sources = {}

-----------------------------------------------------------------------------
(* serveFileRecord *)

\* Get describes the object; its reader opens nothing yet.
Open ==
  /\ outcome = "stored" /\ kind = "s3"
  /\ rd.pc = "closed"
  /\ rd' = IF blob = Absent THEN [rd EXCEPT !.pc = "missing"]
           ELSE [rd EXCEPT !.pc = "opened", !.size = blob]
  /\ UNCHANGED <<upload, blob, got, faults>>

\* The stored content type, or that of the name, is used.
TypeKnown ==
  /\ rd.pc = "opened"
  /\ rd' = [rd EXCEPT !.pc = "ready"]
  /\ UNCHANGED <<upload, blob, got, faults>>

\* Without one the first bytes are read, and the reader is wound back.
Sniff ==
  /\ rd.pc = "opened"
  /\ \E c \in Reads(SniffSize) : rd' = [SeekTo(After(c), 0) EXCEPT !.pc = "ready"]
  /\ UNCHANGED <<upload, blob, got, faults>>

\* An error of that read is ignored.
SniffFails ==
  /\ rd.pc = "opened"
  /\ Fault \/ (Gone /\ UNCHANGED faults)
  /\ rd' = [rd EXCEPT !.pc = "ready"]
  /\ UNCHANGED <<upload, blob, got>>

\* http.ServeContent asks for the size, then goes to the range.
Answer ==
  /\ rd.pc = "ready"
  /\ \E start \in 0..rd.size, want \in 0..rd.size :
       /\ start + want <= rd.size
       /\ want = 0 => rd.size = 0
       /\ rd' = [SeekTo(SeekTo(SeekTo(rd, rd.size), 0), start)
                   EXCEPT !.pc = IF want = 0 THEN "whole" ELSE "send", !.start = start, !.want = want]
  /\ UNCHANGED <<upload, blob, got, faults>>

\* io.CopyN sends the next bytes, until it has the range or a read has none.
Send ==
  /\ rd.pc = "send"
  /\ \E k \in 1..ChunkSize :
       /\ Len(got) + k <= rd.want
       /\ \E c \in Reads(k) :
            /\ got' = got \o Bytes(c.from, c.n)
            /\ rd' = [After(c) EXCEPT !.pc = IF Len(got) + c.n = rd.want THEN "whole"
                                            ELSE IF c.n = 0 THEN "cut" ELSE "send"]
  /\ UNCHANGED <<upload, blob, faults>>

\* A GET fails or finds nothing, or the body ends early.
SendFails ==
  /\ rd.pc = "send"
  /\ Fault \/ (Gone /\ UNCHANGED faults)
  /\ rd' = [rd EXCEPT !.pc = "cut"]
  /\ UNCHANGED <<upload, blob, got>>

\* The client asks again.
Close ==
  /\ rd.pc \in {"whole", "cut"}
  /\ rd' = Closed
  /\ got' = <<>>
  /\ UNCHANGED <<upload, blob, faults>>

Download == Open \/ TypeKnown \/ Sniff \/ SniffFails \/ Answer \/ Send \/ SendFails \/ Close

-----------------------------------------------------------------------------

\* The file is deleted, whatever reads it.
Delete ==
  /\ outcome = "stored"
  /\ blob # Absent
  /\ blob' = Absent
  /\ UNCHANGED <<upload, download, faults>>

Next == Put \/ Download \/ Delete

TransferSpec == Init /\ [][Next]_vars

-----------------------------------------------------------------------------
(* Properties *)

\* Every variable stays in its declared range.
TransferTypeOK ==
  /\ kind \in Kinds
  /\ limit \in 0..MaxInt
  /\ total \in 0..MaxTotal
  /\ up \in UploadState
  /\ blob \in {Absent} \cup 0..MaxTotal
  /\ outcome \in {"none", "stored", "tooLarge", "failed"}
  /\ rd \in DownloadState
  /\ got \in Seq(0..MaxTotal)
  /\ faults \in 0..MaxFaults

\* storage.go:80: an upload that is stored was within the limit, whichever read
\* crossed it, and until it is deleted the whole of it is in the store.
StoredIsWhole ==
  outcome = "stored" => total <= limit /\ up.n = total /\ blob \in {total, Absent}

\* Only an upload beyond the limit is refused for its size, where the limit leaves
\* room for the byte beyond it.
RefusedIsLarge ==
  outcome = "tooLarge" /\ limit < MaxInt => total > limit

\* storage_s3.go:233: a response that ends as a complete one has carried the bytes of
\* its range, each once and in order, wherever the reader had been before.
WholeIsRange ==
  rd.pc = "whole" => got = Bytes(rd.start, rd.want)
=============================================================================
