----------------------------- MODULE Attachments -----------------------------
(***************************************************************************)
(* The attachments of a migration (migrate.copy_files, with the S3 client  *)
(* of s3.py): every file of the old instance's directory or bucket, to the *)
(* deployment's bucket or volume.  Requests are retried or fail, a         *)
(* download may end early without a word, a directory may not be readable, *)
(* and the pod may die; a later attempt meets what this one left, and what *)
(* the target held before.  Migrate has this copy as two steps, with the   *)
(* database around it.                                                     *)
(***************************************************************************)
EXTENDS Naturals, Sequences, FiniteSets

CONSTANTS
  Name,      \* the source's files: their paths, sequences of parts
  Number,    \* the parts that are a number: an event's or an attribute's id
  Level,     \* the parts of MISP.attachments_bucketed, bucket_<n>
  NoName,    \* no file
  ATTEMPTS,  \* tries of an S3 request
  MaxRuns,   \* bound: attempts of the migration
  MaxFaults  \* bound: requests, reads, writes and directories that fail

ASSUME AttachmentsAssumption ==
  /\ \A name \in Name : name \in Seq(STRING)
  /\ NoName \notin Name
  /\ ATTEMPTS \in Nat \ {0} /\ MaxRuns \in Nat /\ MaxFaults \in Nat

VARIABLES
  source, target,  \* "volume" or "bucket"
  pc,        \* the step of the attempt that runs, or "down"
  unlisted,  \* names that the listing has still to return
  page,      \* names of the listed page that are still to copy
  answer,    \* what the last page's answer said of the next: its flag and its token
  at,        \* the name in work
  tries,     \* failed tries of the request in work
  spool,     \* the file through which an object goes from bucket to bucket
  spooled,   \* an object went that way
  copied, failed,  \* the two counts, as the sets of what they count
  object,    \* object[key]: the file of that key at the target
  images,    \* the org logos and custom images at the target: "none", "part", "copied"
  filesRun,  \* the row misp_docker.runs.migrate-files: its latest time
  exit,      \* the exit code of the last attempt, or "none"
  runs, faults,
  unread     \* history: names that the last attempt's listing kept back

reading == <<unlisted, page, answer>>
counts == <<copied, failed, spooled>>
ends == <<filesRun, exit, runs>>
vars == <<source, target, pc, reading, at, tries, spool, counts, object, images, ends,
          faults, unread>>

-----------------------------------------------------------------------------
(* Keys and files *)

(* MISP's key for a file: without the bucket level, and NoName for a file   *)
(* that is no attachment.                                                   *)
AttachmentKey(name) ==
  LET shadow == IF name[1] = "shadow" THEN <<"shadow">> ELSE <<>>
      rest == SubSeq(name, Len(shadow) + 1, Len(name))
      parts == IF rest # <<>> /\ rest[1] \in Level THEN Tail(rest) ELSE rest
  IN  IF Len(parts) < 2 \/ parts[1] \notin Number THEN NoName ELSE shadow \o parts

Attachment == {name \in Name : AttachmentKey(name) # NoName}
Key == {AttachmentKey(name) : name \in Attachment}

(* MISP keeps an attachment in one place: below its bucket level, or not.   *)
ASSUME OnePlace ==
  \A name, other \in Attachment : AttachmentKey(name) = AttachmentKey(other) => name = other

(* What a file holds: the first part of a source's file while it is written *)
(* or after that failed, all of it, or what a download that ended early     *)
(* without an error left; or a file of an instance before, of the source    *)
(* file's size or of another.                                               *)
NoFile == [of |-> NoName, is |-> "none"]
Part(name) == [of |-> name, is |-> "part"]
All(name) == [of |-> name, is |-> "all"]
Short(name) == [of |-> name, is |-> "short"]
Before == {[of |-> NoName, is |-> "sameSize"], [of |-> NoName, is |-> "otherSize"]}
File == {NoFile} \union Before \union [of : Name, is : {"part", "all", "short"}]

(* The answer to a request for a page: IsTruncated is "true", and there is  *)
(* a NextContinuationToken.  keys asks for another page after both.         *)
Answer == [truncated : BOOLEAN, token : BOOLEAN]
LastPage == [truncated |-> FALSE, token |-> FALSE]
More == answer.truncated /\ answer.token

SameSize(file) == file.is \in {"all", "sameSize"}

Init ==
  /\ source \in {"volume", "bucket"} /\ target \in {"volume", "bucket"}
  /\ object \in [Key -> {NoFile} \union Before]
  /\ pc = "down" /\ unlisted = {} /\ page = {} /\ answer = LastPage
  /\ at = NoName /\ tries = 0
  /\ spool = NoFile /\ spooled = FALSE /\ copied = {} /\ failed = {}
  /\ images = "none" /\ filesRun = "none" /\ exit = "none"
  /\ runs = 0 /\ faults = 0 /\ unread = {}

Fault == faults < MaxFaults /\ faults' = faults + 1

(* After a new copy of the database, which dropped the row, or on a copy    *)
(* that is kept, when the last copy of the files failed.                    *)
Start ==
  /\ pc = "down" /\ runs < MaxRuns
  /\ filesRun' \in IF filesRun = "error" THEN {"none", "error"} ELSE {"none"}
  /\ runs' = runs + 1
  /\ pc' = "list"
  /\ unlisted' = Name /\ page' = {} /\ answer' = LastPage /\ at' = NoName /\ tries' = 0
  /\ copied' = {} /\ failed' = {} /\ spooled' = FALSE
  /\ spool' = NoFile
  /\ exit' = "none" /\ unread' = {}
  /\ UNCHANGED <<source, target, object, images, faults>>

-----------------------------------------------------------------------------
(* The S3 client *)

Requests == \/ pc = "list" /\ source = "bucket"
            \/ pc = "get"
            \/ pc = "put" /\ target = "bucket"

(* What a PUT stores: the spool, or a file of the source's volume. *)
Body == IF source = "bucket" THEN spool ELSE All(at)
Stored == [object EXCEPT ![AttachmentKey(at)] = Body]

(* _request: no answer, or an error of RETRY, and another try.  A PUT may   *)
(* have been done all the same.                                             *)
Retry ==
  /\ Requests /\ Fault
  /\ tries < ATTEMPTS - 1
  /\ tries' = tries + 1
  /\ \/ pc = "put" /\ object' = Stored
     \/ UNCHANGED object
  /\ UNCHANGED <<source, target, pc, reading, at, spool, counts, images, ends, unread>>

(* Mutant of Listed: a page without a name is taken as the last. *)
ListedEmptyEnds(names, rest) ==
  /\ page' = names
  /\ IF names = {} THEN answer' = LastPage ELSE answer' \in Answer /\ (rest = {} \/ More')
  /\ unlisted' = rest
  /\ UNCHANGED <<unread, faults>>

(* keys, one page: S3's order is any, and a page has any number of names,   *)
(* none too.  Its answer promises more when names remain, and may when none *)
(* do.  Of a server's answer that should promise more and lacks the flag or *)
(* the token, as of one that does not know list-type 2, the client makes    *)
(* the last page: nobody will name what is left.                            *)
Listed(names, rest) ==
  /\ page' = names
  /\ answer' \in Answer
  /\ IF rest = {} \/ More'
     THEN unlisted' = rest /\ UNCHANGED <<unread, faults>>
     ELSE unlisted' = {} /\ unread' = rest /\ Fault

ListPage ==
  /\ pc = "list" /\ source = "bucket"
  /\ \E names \in SUBSET unlisted : Listed(names, unlisted \ names)
  /\ tries' = 0
  /\ pc' = "next"
  /\ UNCHANGED <<source, target, at, spool, counts, object, images, ends>>

(* An S3Error after the last try, a status that is not retried, or a page   *)
(* that breaks off: the loop ends, and the whole copy has failed.           *)
ListFails ==
  /\ pc = "list" /\ source = "bucket" /\ Fault
  /\ pc' = "failed"
  /\ UNCHANGED <<source, target, reading, at, tries, spool, counts, object, images, ends, unread>>

(* os.walk, which passes over a directory that it cannot read. *)
Walk ==
  /\ pc = "list" /\ source = "volume"
  /\ \E names \in SUBSET unlisted :
       /\ IF names = {} THEN UNCHANGED faults ELSE Fault
       /\ page' = unlisted \ names
       /\ unread' = names
  /\ unlisted' = {}
  /\ pc' = "next"
  /\ UNCHANGED <<source, target, answer, at, tries, spool, counts, object, images, ends>>

-----------------------------------------------------------------------------
(* copy_attachments *)

(* The next file of the page; or, as its answer said, the next page or the  *)
(* end.                                                                     *)
NextFile ==
  /\ pc = "next"
  /\ tries' = 0
  /\ \/ \E name \in page :
          /\ page' = page \ {name}
          /\ at' = name
          /\ pc' = IF AttachmentKey(name) = NoName THEN "next"
                   ELSE IF source = "bucket" THEN "get"
                   ELSE IF target = "bucket" THEN "put" ELSE "copy"
     \/ /\ page = {}
        /\ pc' = IF More THEN "list" ELSE "end"
        /\ UNCHANGED <<page, at>>
  /\ UNCHANGED <<source, target, unlisted, answer, spool, counts, object, images, ends, faults,
                 unread>>

(* Where a file is written in place: the spool, or the target's volume. *)
Write(file) ==
  IF source = "bucket" /\ target = "bucket"
  THEN spool' = file /\ UNCHANGED object
  ELSE object' = [object EXCEPT ![AttachmentKey(at)] = file] /\ UNCHANGED spool

Counted == copied' = copied \union {at} /\ pc' = "next" /\ UNCHANGED failed

(* The answer to the GET, and the file opened, which empties it. *)
Get ==
  /\ pc = "get"
  /\ Write(Part(at))
  /\ tries' = 0
  /\ pc' = "body"
  /\ UNCHANGED <<source, target, reading, at, counts, images, ends, faults, unread>>

(* shutil.copy, unless the target's file has the size of the source's. *)
CopyFile ==
  /\ pc = "copy"
  /\ IF SameSize(object[AttachmentKey(at)])
     THEN Counted /\ UNCHANGED <<object, spool>>
     ELSE Write(Part(at)) /\ pc' = "body" /\ UNCHANGED <<copied, failed>>
  /\ UNCHANGED <<source, target, reading, at, tries, spooled, images, ends, faults, unread>>

(* The rest of the file; a download may end before its length unnoticed. *)
CopyBody ==
  /\ pc = "body"
  /\ \/ Write(All(at)) /\ UNCHANGED faults
     \/ source = "bucket" /\ Fault /\ Write(Short(at))
  /\ IF source = "bucket" /\ target = "bucket"
     THEN pc' = "put" /\ UNCHANGED <<copied, failed>>
     ELSE Counted
  /\ UNCHANGED <<source, target, reading, at, tries, spooled, images, ends, unread>>

(* The PUT is done: the object is replaced as a whole. *)
Put ==
  /\ pc = "put"
  /\ object' = Stored
  /\ spooled' = (source = "bucket")
  /\ tries' = 0
  /\ Counted
  /\ UNCHANGED <<source, target, reading, at, spool, images, ends, faults, unread>>

(* Mutant of FileFails: an object whose download failed is uploaded. *)
FileFailsGoesOn ==
  /\ pc \in {"get", "body", "put", "copy"} /\ Fault
  /\ failed' = failed \union {at}
  /\ pc' = IF pc = "body" /\ source = "bucket" /\ target = "bucket" THEN "put" ELSE "next"
  /\ UNCHANGED <<source, target, reading, at, tries, spool, copied, spooled, object, images, ends, unread>>

(* An S3Error or an OSError is the file's alone, and the copy goes on.  A   *)
(* PUT without an answer, and a copy whose mode could not be set, may have  *)
(* done their work.                                                         *)
FileFails ==
  /\ pc \in {"get", "body", "put", "copy"} /\ Fault
  /\ failed' = failed \union {at}
  /\ pc' = "next"
  /\ \/ pc = "put" /\ object' = Stored
     \/ pc = "body" /\ source = "volume" /\ object' = [object EXCEPT ![AttachmentKey(at)] = All(at)]
     \/ UNCHANGED object
  /\ UNCHANGED <<source, target, reading, at, tries, spool, copied, spooled, images, ends, unread>>

(* What failed is told at the end; the images go from volume to volume. *)
End ==
  /\ pc = "end"
  /\ spool' = IF spooled THEN NoFile ELSE spool
  /\ pc' = IF failed # {} THEN "failed"
           ELSE IF source = "volume" /\ target = "volume" THEN "images" ELSE "copied"
  /\ UNCHANGED <<source, target, reading, at, tries, counts, object, images, ends, faults, unread>>

-----------------------------------------------------------------------------
(* copy_files *)

(* copy_images: all of them, or an error after some. *)
CopyImages ==
  /\ pc = "images"
  /\ \/ images' = "copied" /\ pc' = "copied" /\ UNCHANGED faults
     \/ /\ Fault
        /\ images' = IF images = "none" THEN "part" ELSE images
        /\ pc' = "failed"
  /\ UNCHANGED <<source, target, reading, at, tries, spool, counts, object, ends, unread>>

(* record: its own failure is logged. *)
Record ==
  /\ pc \in {"copied", "failed"}
  /\ \/ filesRun' = (IF pc = "copied" THEN "success" ELSE "error") /\ UNCHANGED faults
     \/ Fault /\ UNCHANGED filesRun
  /\ exit' = (IF pc = "copied" THEN "success" ELSE "failure")
  /\ pc' = "down"
  /\ UNCHANGED <<source, target, reading, at, tries, spool, counts, object, images, runs, unread>>

(* An answer that breaks off in a way http.client has an exception of its   *)
(* own for, or a page that is not XML: neither S3Error nor OSError, and the *)
(* attempt ends without a record.                                           *)
Uncaught ==
  /\ Requests \/ (pc = "body" /\ source = "bucket")
  /\ Fault
  /\ exit' = "failure"
  /\ pc' = "down"
  /\ UNCHANGED <<source, target, reading, at, tries, spool, counts, object, images, filesRun, runs, unread>>

(* The pod is killed. *)
Die ==
  /\ pc # "down" /\ Fault
  /\ exit' = "failure"
  /\ pc' = "down"
  /\ UNCHANGED <<source, target, reading, at, tries, spool, counts, object, images, filesRun, runs, unread>>

Next ==
  \/ Start \/ Retry \/ ListPage \/ ListFails \/ Walk \/ NextFile \/ Get \/ CopyFile
  \/ CopyBody \/ Put \/ FileFails \/ End \/ CopyImages \/ Record \/ Uncaught \/ Die

Spec == Init /\ [][Next]_vars

-----------------------------------------------------------------------------
(* Safety *)

TypeOK ==
  /\ source \in {"volume", "bucket"} /\ target \in {"volume", "bucket"}
  /\ pc \in {"down", "list", "next", "get", "body", "put", "copy", "end", "images", "copied", "failed"}
  /\ unlisted \subseteq Name /\ page \subseteq Name /\ answer \in Answer /\ at \in Name \union {NoName}
  /\ tries \in 0 .. ATTEMPTS - 1
  /\ spool \in File /\ spooled \in BOOLEAN
  /\ copied \subseteq Attachment /\ failed \subseteq Attachment
  /\ object \in [Key -> File]
  /\ images \in {"none", "part", "copied"} /\ filesRun \in {"none", "success", "error"}
  /\ exit \in {"none", "success", "failure"}
  /\ runs \in 0 .. MaxRuns /\ faults \in 0 .. MaxFaults
  /\ unread \subseteq Name

(* The file of name has arrived, but for what the copy cannot know: a       *)
(* download that ended early, a file of the same size that was there.       *)
Arrived(name) ==
  \/ object[AttachmentKey(name)] \in {All(name), Short(name)}
  \/ source = "volume" /\ target = "volume" /\ object[AttachmentKey(name)].is = "sameSize"

(* An object is the file of its key, or what was there before: a download   *)
(* that fails or breaks off never puts one file's bytes under another's key,*)
(* whatever the one spool file still held, nor half a file into a bucket.   *)
NoMixUp ==
  \A key \in Key :
    LET file == object[key]
    IN  /\ file.of # NoName => AttachmentKey(file.of) = key
        /\ target = "bucket" => file.is # "part"

(* What the two counts of the log say: a file that was listed is in one of  *)
(* them once it was tried, and in "copied" only when it has arrived.        *)
CountsTell ==
  /\ copied \intersect failed = {}
  /\ \A name \in copied : Arrived(name)
  /\ pc = "end" => copied \union failed = Attachment \ unread

AttachmentsInv == TypeOK /\ NoMixUp /\ CountsTell

(* "Copy every attachment", "a file that fails is logged, and the copy goes *)
(* on; it raises at the end" (copy_attachments): an attempt that exits 0,   *)
(* and the record of a success that keeps every later attempt from copying  *)
(* again, both mean that every attachment has arrived, the images too,      *)
(* except what the listing kept back: the files of a directory that could   *)
(* not be read, those after an answer that wrongly named no next page.      *)
SuccessWhole ==
  pc = "down" /\ (exit = "success" \/ filesRun = "success") =>
    /\ \A name \in Attachment \ unread : Arrived(name)
    /\ source = "volume" /\ target = "volume" => images = "copied"
=============================================================================
