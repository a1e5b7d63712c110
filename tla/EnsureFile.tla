-------------------------------- MODULE EnsureFile -----------------------------
(***************************************************************************)
(* ensure_file and file_sha256 of the Python clients                       *)
(* (client/contree_client/base.py, runtime.py): hash the content, ask for  *)
(* the digest, upload on a miss.  The content is named by the place it     *)
(* starts at in the caller's file, its digest by the same place.           *)
(***************************************************************************)
EXTENDS Naturals

CONSTANTS
    Size,       \* the file's length
    NoDigest    \* file_sha256 of a stream that cannot be read again

ASSUME SizeAssumption == Size \in Nat

VARIABLES
    content,    \* "bytes", "seekable" or "oneshot"
    known,      \* the caller passes the sha256
    fileAt,     \* "unused", "idle", "digest", "probe", "upload", "returned" or "raised"
    start,      \* where the caller left the file
    position,   \* where it is now
    digest,     \* the digest asked for
    stored,     \* the contents that the service keeps
    record      \* the content whose record the caller got

fileVars == << content, known, fileAt, start, position, digest, stored, record >>

Places == 0 .. Size
Digests == Places \cup {NoDigest}

EnsureInit ==
    /\ content \in {"bytes", "seekable", "oneshot"} /\ known \in BOOLEAN
    /\ fileAt = "idle" /\ stored \in SUBSET Places
    /\ start \in Places /\ position = start
    /\ content = "bytes" => start = 0
    /\ digest = NoDigest /\ record = NoDigest

\* Seeded fault: the file is left where the hash ended.
AfterHashEnd == Size

\* A read to the end, and seek(start) behind it.
AfterHash == start

Digest ==
    /\ fileAt = "idle"
    /\ \/ (known \/ content = "bytes") /\ digest' = start /\ UNCHANGED position
       \/ ~ known /\ content = "seekable" /\ digest' = start /\ position' = AfterHash
       \/ ~ known /\ content = "oneshot" /\ digest' = NoDigest /\ UNCHANGED position
    /\ fileAt' = IF digest' = NoDigest THEN "upload" ELSE "probe"
    /\ UNCHANGED << content, known, start, stored, record >>

\* get_file: a NotFoundError leads to the upload, any other error is raised.
Probe ==
    /\ fileAt = "probe"
    /\ \/ digest \in stored /\ fileAt' = "returned" /\ record' = digest
       \/ digest \notin stored /\ fileAt' = "upload" /\ UNCHANGED record
       \/ fileAt' = "raised" /\ UNCHANGED record
    /\ UNCHANGED << content, known, start, position, digest, stored >>

\* upload_file, its retries included: they send the same bytes (SameBytes of
\* PyCall).  A failure may come after the service has stored them.
Upload ==
    /\ fileAt = "upload"
    /\ \/ /\ stored' = stored \cup {position}
          /\ \/ fileAt' = "returned" /\ record' = position
             \/ fileAt' = "raised" /\ UNCHANGED record
          /\ position' = IF content = "bytes" THEN 0 ELSE Size
       \/ /\ fileAt' = "raised"
          /\ position' \in (IF content = "bytes" THEN {0} ELSE position .. Size)
          /\ UNCHANGED << stored, record >>
    /\ UNCHANGED << content, known, start, digest >>

\* The caller calls again, after a failure or with the next part of the file;
\* a sha256 that it passes is the one of what it passes.
Again ==
    /\ fileAt \in {"returned", "raised"}
    /\ fileAt' = "idle" /\ known' \in BOOLEAN
    /\ position' \in (IF content = "seekable" THEN Places ELSE {position})
    /\ start' = position'
    /\ digest' = NoDigest /\ record' = NoDigest
    /\ UNCHANGED << content, stored >>

\* Other callers upload, and the service drops what has expired.
OtherUploads ==
    /\ \E place \in Places : stored' \in {stored \cup {place}, stored \ {place}}
    /\ UNCHANGED << content, known, fileAt, start, position, digest, record >>

EnsureNext == Digest \/ Probe \/ Upload \/ Again \/ OtherUploads

EnsureSpec == EnsureInit /\ [][EnsureNext]_fileVars

-----------------------------------------------------------------------------

\* The record is of the content: whether the service had it or the upload
\* made it, hashed or not, after failed calls and among other callers'
\* uploads, what ensure_file returns is the record of the bytes from the
\* position the caller left the file at.
RecordOfContent == fileAt = "returned" => record = start

=============================================================================
