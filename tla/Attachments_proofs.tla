------------------------- MODULE Attachments_proofs -------------------------
(***************************************************************************)
(* The copy of the attachments, for any files, with any faults in any      *)
(* attempt: every file that was listed is still to come, at hand or        *)
(* counted (FilesInOrder), and what is uploaded is all that came of its    *)
(* file (ObjectsInOrder).                                                  *)
(***************************************************************************)
EXTENDS Attachments, TLAPS

Working == {"get", "body", "put", "copy"}
Tried == copied \union failed
ToCome == page \union unlisted

(* Each listed file is in one place of the loop: still to come, at hand or  *)
(* counted; and a success is told of a whole copy, and never while one runs.*)
FilesInOrder ==
  /\ page \intersect unlisted = {} /\ Tried \intersect ToCome = {}
  /\ unread \intersect (Tried \union ToCome) = {}
  /\ pc \in Working => at \in Attachment \ (Tried \union ToCome \union unread)
  /\ pc = "list" => page = {} /\ unread = {}
  /\ source = "volume" /\ pc \notin {"list", "down"} => unlisted = {}
  /\ source = "volume" => ~ More
  /\ More => unread = {}
  /\ ~ More /\ pc \notin {"list", "down", "failed"} => unlisted = {}
  /\ pc \notin {"down", "failed"} =>
       Attachment \subseteq Tried \union ToCome \union unread \union {n \in {at} : pc \in Working}
  /\ pc = "end" => ToCome = {}
  /\ pc \in {"images", "copied"} => Attachment \ unread \subseteq copied
  /\ pc = "copied" /\ source = "volume" /\ target = "volume" => images = "copied"
  /\ pc # "down" => exit = "none" /\ filesRun # "success"

(* Which way a file goes, and that what is uploaded is all that came of it. *)
ObjectsInOrder ==
  /\ pc = "get" => source = "bucket"
  /\ pc = "copy" => source = "volume" /\ target = "volume"
  /\ pc = "body" => source = "bucket" \/ target = "volume"
  /\ pc = "put" => target = "bucket"
  /\ pc = "put" /\ source = "bucket" => spool \in {All(at), Short(at)}

(* The inductive invariant. *)
CopyOrderly == AttachmentsInv /\ SuccessWhole /\ FilesInOrder /\ ObjectsInOrder

-----------------------------------------------------------------------------
(* Files and keys *)

LEMMA FilesMade ==
  /\ NoFile \in File /\ Attachment \subseteq Name
  /\ \A name \in Attachment : AttachmentKey(name) \in Key
  /\ \A name \in Name :
       /\ name # NoName /\ {Part(name), All(name), Short(name)} \subseteq File
       /\ Part(name).of = name /\ All(name).of = name /\ Short(name).of = name
       /\ All(name).is = "all" /\ Short(name).is = "short"
<1>1. NoFile \in File /\ Attachment \subseteq Name
  BY DEF File, Attachment
<1>2. \A name \in Attachment : AttachmentKey(name) \in Key
  BY DEF Key
<1>3. ASSUME NEW name \in Name
      PROVE  /\ name # NoName /\ {Part(name), All(name), Short(name)} \subseteq File
             /\ Part(name).of = name /\ All(name).of = name /\ Short(name).of = name
             /\ All(name).is = "all" /\ Short(name).is = "short"
  BY AttachmentsAssumption DEF Part, All, Short, File
<1>4. QED
  BY <1>1, <1>2, <1>3

LEMMA WholeFile ==
  ASSUME NEW file \in File, file.is = "all"
  PROVE  \E name \in Name : file = All(name)
<1>1. NoFile.is # "all"
  BY DEF NoFile
<1>2. \A f \in Before : f.is # "all"
  BY DEF Before
<1>3. file \in [of : Name, is : {"part", "all", "short"}]
  BY <1>1, <1>2 DEF File
<1>4. file = [of |-> file.of, is |-> "all"]
  BY <1>3
<1>5. QED
  BY <1>3, <1>4 DEF All

(* The file at hand is put at its own key, and nothing else is touched. *)
LEMMA OwnKey ==
  ASSUME object \in [Key -> File], at \in Attachment,
         NEW f \in {Part(at), All(at), Short(at)},
         object' = [object EXCEPT ![AttachmentKey(at)] = f]
  PROVE  /\ object' \in [Key -> File] /\ object'[AttachmentKey(at)] = f
         /\ \A key \in Key : key # AttachmentKey(at) => object'[key] = object[key]
         /\ \A name \in Attachment : name # at =>
              object'[AttachmentKey(name)] = object[AttachmentKey(name)]
<1>1. f \in File /\ AttachmentKey(at) \in Key
  BY FilesMade
<1>2. \A name \in Attachment : name # at =>
        AttachmentKey(name) \in Key /\ AttachmentKey(name) # AttachmentKey(at)
  BY FilesMade, OnePlace
<1>3. QED
  BY <1>1, <1>2

(* What a step does at the target. *)
Written ==
  /\ pc \in Working
  /\ \E f \in {Part(at), All(at), Short(at)} :
       /\ f = Part(at) => target = "volume"
       /\ object' = [object EXCEPT ![AttachmentKey(at)] = f]

LEMMA WriteStep ==
  ASSUME TypeOK, ObjectsInOrder, [Next]_vars
  PROVE  UNCHANGED object \/ Written
<1> USE DEF Working, ObjectsInOrder
<1>0. /\ source \in {"volume", "bucket"} /\ target \in {"volume", "bucket"}
      /\ \A n : All(n) # Part(n) /\ Short(n) # Part(n)
  BY DEF TypeOK, All, Part, Short
<1>1. ASSUME pc = "put", object' = Stored
      PROVE  Written
  <2>1. Body \in {All(at), Short(at)}
    BY <1>1 DEF Body
  <2>2. QED
    BY <1>0, <1>1, <2>1 DEF Stored, Written
<1>2. ASSUME NEW f \in {Part(at), All(at), Short(at)}, Write(f), pc \in Working,
             f = Part(at) => source = "bucket" \/ target = "volume"
      PROVE  UNCHANGED object \/ Written
  BY <1>0, <1>2 DEF Write, Written
<1>3. CASE Retry
  BY <1>1, <1>3 DEF Retry
<1>4. CASE Get
  BY <1>2, <1>4 DEF Get
<1>5. CASE CopyFile
  BY <1>2, <1>5 DEF CopyFile
<1>6. CASE CopyBody
  <2>1. pc = "body" /\ (Write(All(at)) \/ Write(Short(at)))
    BY <1>6 DEF CopyBody
  <2>2. QED
    BY <1>0, <1>2, <2>1
<1>7. CASE Put
  BY <1>1, <1>7 DEF Put
<1>8. CASE FileFails
  <2>1. CASE pc = "put" /\ object' = Stored
    BY <1>1, <2>1
  <2>2. CASE pc = "body" /\ object' = [object EXCEPT ![AttachmentKey(at)] = All(at)]
    BY <1>0, <2>2 DEF Written
  <2>3. QED
    BY <1>8, <2>1, <2>2 DEF FileFails
<1>9. CASE \/ Start \/ ListPage \/ ListFails \/ Walk \/ NextFile \/ End \/ CopyImages \/ Record
           \/ Uncaught \/ Die \/ UNCHANGED vars
  BY <1>9 DEF Start, ListPage, ListFails, Walk, NextFile, End, CopyImages, Record, Uncaught, Die, vars
<1>10. QED
  BY <1>3, <1>4, <1>5, <1>6, <1>7, <1>8, <1>9 DEF Next

-----------------------------------------------------------------------------
(* Types *)

LEMMA InitOrderly == Init => CopyOrderly
<1> SUFFICES ASSUME Init PROVE CopyOrderly
  OBVIOUS
<1> USE DEF Init
<1>0. answer \in Answer /\ ~ More
  BY DEF Answer, LastPage, More
<1>1. TypeOK
  <2>1. object \in [Key -> File] /\ spool \in File
    BY FilesMade DEF File
  <2>2. tries \in 0 .. ATTEMPTS - 1 /\ runs \in 0 .. MaxRuns /\ faults \in 0 .. MaxFaults
    BY AttachmentsAssumption
  <2>3. spooled \in BOOLEAN
    OBVIOUS
  <2>4. QED
    BY <1>0, <2>1, <2>2, <2>3 DEF TypeOK
<1>2. NoMixUp
  <2>1. ASSUME NEW key \in Key
        PROVE  object[key].of = NoName /\ object[key].is # "part"
    <3>1. object[key] \in {NoFile} \union Before
      OBVIOUS
    <3>2. \A file \in {NoFile} \union Before : file.of = NoName /\ file.is # "part"
      <4>1. NoFile.of = NoName /\ NoFile.is # "part"
        BY DEF NoFile
      <4>2. \A file \in Before : file.of = NoName /\ file.is # "part"
        BY DEF Before
      <4>3. QED
        BY <4>1, <4>2
    <3>3. QED
      BY <3>1, <3>2
  <2>2. QED
    BY <2>1 DEF NoMixUp
<1>3. CountsTell /\ SuccessWhole
  BY DEF CountsTell, SuccessWhole
<1>4. FilesInOrder /\ ObjectsInOrder
  BY <1>0 DEF FilesInOrder, ObjectsInOrder, Tried, ToCome, Working
<1>5. QED
  BY <1>1, <1>2, <1>3, <1>4 DEF CopyOrderly, AttachmentsInv

LEMMA TypeStep == TypeOK /\ FilesInOrder /\ ObjectsInOrder /\ [Next]_vars => TypeOK'
<1> SUFFICES ASSUME TypeOK, FilesInOrder, ObjectsInOrder, [Next]_vars PROVE TypeOK'
  OBVIOUS
<1>1. object' \in [Key -> File]
  <2>1. CASE UNCHANGED object
    BY <2>1 DEF TypeOK
  <2>2. CASE Written
    BY <2>2, OwnKey DEF Written, FilesInOrder, TypeOK
  <2>3. QED
    BY <2>1, <2>2, WriteStep
<1>2. /\ ATTEMPTS \in Nat \ {0} /\ MaxRuns \in Nat /\ MaxFaults \in Nat
      /\ tries \in 0 .. ATTEMPTS - 1 /\ runs \in 0 .. MaxRuns /\ faults \in 0 .. MaxFaults
  BY AttachmentsAssumption DEF TypeOK
<1>3. Fault => faults' \in 0 .. MaxFaults
  BY <1>2 DEF Fault
<1>4. 0 \in 0 .. ATTEMPTS - 1
  BY <1>2
<1>5. pc \in Working => at \in Attachment /\ at \in Name
  BY FilesMade DEF FilesInOrder
<1>6. ASSUME NEW f \in {Part(at), All(at), Short(at)}, Write(f), pc \in Working
      PROVE  spool' \in File
  BY <1>5, <1>6, FilesMade DEF Write, TypeOK
<1> USE <1>1 DEF TypeOK, reading, counts, ends
<1>7. CASE Start
  <2>1. /\ pc' = "list" /\ runs' = runs + 1 /\ runs < MaxRuns /\ spool' = NoFile
        /\ filesRun' \in {"none", "error"} /\ exit' = "none" /\ tries' = 0 /\ at' = NoName
        /\ unlisted' = Name /\ page' = {} /\ copied' = {} /\ failed' = {} /\ unread' = {}
        /\ UNCHANGED <<source, target, object, images, faults>>
    BY <1>7 DEF Start
  <2>2. runs' \in 0 .. MaxRuns /\ tries' \in 0 .. ATTEMPTS - 1
    BY <1>2, <1>4, <2>1
  <2>3. spooled' \in BOOLEAN
    BY <1>7 DEF Start
  <2>4. spool' \in File
    BY <2>1, FilesMade
  <2>5. answer' \in Answer
    BY <1>7 DEF Start, Answer, LastPage
  <2>6. QED
    BY <2>1, <2>2, <2>3, <2>4, <2>5
<1>8. CASE Retry
  <2>1. tries' \in 0 .. ATTEMPTS - 1 /\ faults' \in 0 .. MaxFaults
    BY <1>2, <1>3, <1>8 DEF Retry
  <2>2. QED
    BY <1>8, <2>1 DEF Retry, Requests
<1>9. CASE ListPage
  <2>1. PICK names \in SUBSET unlisted : Listed(names, unlisted \ names)
    BY <1>9 DEF ListPage
  <2>2. unlisted' \subseteq Name /\ page' \subseteq Name /\ unread' \subseteq Name /\ answer' \in Answer
    BY <2>1 DEF Listed
  <2>3. faults' \in 0 .. MaxFaults
    BY <1>2, <1>3, <2>1 DEF Listed
  <2>4. QED
    BY <1>4, <1>9, <2>2, <2>3 DEF ListPage
<1>10. CASE ListFails
  BY <1>3, <1>10 DEF ListFails
<1>11. CASE Walk
  <2>1. PICK names \in SUBSET unlisted :
          /\ IF names = {} THEN UNCHANGED faults ELSE Fault
          /\ page' = unlisted \ names
          /\ unread' = names
    BY <1>11 DEF Walk
  <2>2. faults' \in 0 .. MaxFaults
    BY <1>2, <1>3, <2>1
  <2>3. QED
    BY <1>11, <2>1, <2>2 DEF Walk
<1>12. CASE NextFile
  <2>1. /\ page' \subseteq Name /\ at' \in Name \union {NoName}
        /\ pc' \in {"next", "get", "put", "copy", "end", "list"} /\ tries' = 0
    BY <1>12 DEF NextFile
  <2>2. QED
    BY <1>4, <1>12, <2>1 DEF NextFile
<1>13. CASE Get
  <2>1. spool' \in File
    BY <1>6, <1>13 DEF Get, Working
  <2>2. QED
    BY <1>4, <1>13, <2>1 DEF Get
<1>14. CASE CopyFile
  <2>1. spool' \in File /\ copied' \subseteq Attachment
    BY <1>5, <1>6, <1>14 DEF CopyFile, Counted, Working
  <2>2. failed' = failed /\ pc' \in {"next", "body"}
    BY <1>14 DEF CopyFile, Counted
  <2>3. QED
    BY <1>14, <2>1, <2>2 DEF CopyFile
<1>15. CASE CopyBody
  <2>1. spool' \in File /\ copied' \subseteq Attachment
    BY <1>5, <1>6, <1>15 DEF CopyBody, Counted, Working
  <2>2. failed' = failed /\ pc' \in {"next", "put"}
    BY <1>15 DEF CopyBody, Counted
  <2>3. faults' \in 0 .. MaxFaults
    BY <1>3, <1>15 DEF CopyBody
  <2>4. QED
    BY <1>15, <2>1, <2>2, <2>3 DEF CopyBody
<1>16. CASE Put
  <2>1. copied' \subseteq Attachment /\ spooled' \in BOOLEAN
    BY <1>5, <1>16 DEF Put, Counted, Working
  <2>2. failed' = failed /\ pc' = "next"
    BY <1>16 DEF Put, Counted
  <2>3. QED
    BY <1>4, <1>16, <2>1, <2>2 DEF Put
<1>17. CASE FileFails
  <2>1. failed' \subseteq Attachment
    BY <1>5, <1>17 DEF FileFails, Working
  <2>2. QED
    BY <1>3, <1>17, <2>1 DEF FileFails
<1>18. CASE End
  BY <1>18, FilesMade DEF End
<1>19. CASE CopyImages
  BY <1>3, <1>19 DEF CopyImages
<1>20. CASE Record
  BY <1>3, <1>20 DEF Record
<1>21. CASE Uncaught \/ Die
  BY <1>3, <1>21 DEF Uncaught, Die
<1>22. CASE UNCHANGED vars
  BY <1>22 DEF vars
<1>23. QED
  BY <1>7, <1>8, <1>9, <1>10, <1>11, <1>12, <1>13, <1>14, <1>15, <1>16, <1>17, <1>18, <1>19,
     <1>20, <1>21, <1>22 DEF Next

-----------------------------------------------------------------------------
(* Where the files are *)

LEMMA FilesStep == TypeOK /\ FilesInOrder /\ [Next]_vars => FilesInOrder'
<1> SUFFICES ASSUME TypeOK, FilesInOrder, [Next]_vars PROVE FilesInOrder'
  OBVIOUS
<1>0. source \in {"volume", "bucket"} /\ Attachment \subseteq Name
  BY FilesMade DEF TypeOK
<1>b. ASSUME UNCHANGED answer
      PROVE  (More => More') /\ (More' => More)
  BY <1>b DEF More
<1> USE <1>b DEF FilesInOrder, Tried, ToCome, Working, reading, counts, ends
<1>1. CASE Start
  <2>1. filesRun' # "success"
    BY <1>1 DEF Start
  <2>2. ~ More'
    BY <1>1 DEF Start, More, LastPage
  <2>3. QED
    BY <1>0, <1>1, <2>1, <2>2 DEF Start
<1>2. CASE Retry
  BY <1>2 DEF Retry, Requests
<1>3. CASE ListPage
  <2>1. PICK names \in SUBSET unlisted : Listed(names, unlisted \ names)
    BY <1>3 DEF ListPage
  <2>2. /\ page' = names
        /\ \/ unlisted' = unlisted \ names /\ UNCHANGED unread /\ (unlisted \ names = {} \/ More')
           \/ unlisted' = {} /\ unread' = unlisted \ names /\ ~ More'
    BY <2>1 DEF Listed
  <2>3. /\ pc = "list" /\ source = "bucket" /\ pc' = "next"
        /\ UNCHANGED <<source, target, at, copied, failed, images, exit, filesRun>>
    BY <1>3 DEF ListPage
  <2>4. QED
    BY <1>0, <2>2, <2>3
<1>4. CASE ListFails
  BY <1>4 DEF ListFails
<1>5. CASE Walk
  BY <1>5 DEF Walk
<1>6. CASE NextFile
  <2>1. pc = "next" /\ UNCHANGED <<source, target, unlisted, answer, copied, failed, unread, images, exit, filesRun>>
    BY <1>6 DEF NextFile
  <2>2. ASSUME NEW name \in page, page' = page \ {name}, at' = name,
               pc' = IF AttachmentKey(name) = NoName THEN "next"
                     ELSE IF source = "bucket" THEN "get"
                     ELSE IF target = "bucket" THEN "put" ELSE "copy"
        PROVE  FilesInOrder'
    <3>1. name \in Name
      BY DEF TypeOK
    <3>2. CASE AttachmentKey(name) = NoName
      <4>1. pc' = "next" /\ name \notin Attachment
        BY <2>2, <3>2 DEF Attachment
      <4>2. QED
        BY <2>1, <2>2, <4>1
    <3>3. CASE AttachmentKey(name) # NoName
      <4>1. pc' \in {"get", "put", "copy"}
        BY <2>2, <3>3
      <4>2. name \in Attachment
        BY <3>1, <3>3 DEF Attachment
      <4>3. QED
        BY <2>1, <2>2, <4>1, <4>2
    <3>4. QED
      BY <3>2, <3>3
  <2>3. CASE /\ page = {} /\ pc' = (IF More THEN "list" ELSE "end")
             /\ UNCHANGED <<page, at>>
    BY <1>0, <2>1, <2>3
  <2>4. QED
    BY <1>6, <2>2, <2>3 DEF NextFile
<1>7. CASE Get
  BY <1>7 DEF Get
<1>8. CASE CopyFile
  BY <1>8 DEF CopyFile, Counted
<1>9. CASE CopyBody
  BY <1>9 DEF CopyBody, Counted
<1>10. CASE Put
  BY <1>10 DEF Put, Counted
<1>11. CASE FileFails
  BY <1>11 DEF FileFails
<1>12. CASE End
  BY <1>12 DEF End
<1>13. CASE CopyImages
  BY <1>13 DEF CopyImages
<1>14. CASE Record
  BY <1>14 DEF Record
<1>15. CASE Uncaught \/ Die
  BY <1>15 DEF Uncaught, Die
<1>16. CASE UNCHANGED vars
  BY <1>16 DEF vars
<1>17. QED
  BY <1>1, <1>2, <1>3, <1>4, <1>5, <1>6, <1>7, <1>8, <1>9, <1>10, <1>11, <1>12, <1>13, <1>14,
     <1>15, <1>16 DEF Next

LEMMA ObjectsStep == TypeOK /\ ObjectsInOrder /\ [Next]_vars => ObjectsInOrder'
<1> SUFFICES ASSUME TypeOK, ObjectsInOrder, [Next]_vars PROVE ObjectsInOrder'
  OBVIOUS
<1>0. source \in {"volume", "bucket"} /\ target \in {"volume", "bucket"}
  BY DEF TypeOK
<1> USE <1>0 DEF ObjectsInOrder
<1>1. CASE NextFile
  BY <1>1 DEF NextFile
<1>2. CASE CopyBody
  BY <1>2 DEF CopyBody, Counted, Write
<1>3. CASE CopyFile \/ Get \/ Put \/ Retry \/ FileFails
  BY <1>3 DEF CopyFile, Get, Put, Retry, FileFails, Counted, Write
<1>4. CASE Start \/ ListPage \/ ListFails \/ Walk
  BY <1>4 DEF Start, ListPage, ListFails, Walk
<1>5. CASE End \/ CopyImages \/ Record \/ Uncaught \/ Die
  BY <1>5 DEF End, CopyImages, Record, Uncaught, Die
<1>6. CASE UNCHANGED vars
  BY <1>6 DEF vars
<1>7. QED
  BY <1>1, <1>2, <1>3, <1>4, <1>5, <1>6 DEF Next

-----------------------------------------------------------------------------
(* What is at the target *)

LEMMA MixUpStep ==
  TypeOK /\ FilesInOrder /\ ObjectsInOrder /\ NoMixUp /\ [Next]_vars => NoMixUp'
<1> SUFFICES ASSUME TypeOK, FilesInOrder, ObjectsInOrder, NoMixUp, [Next]_vars PROVE NoMixUp'
  OBVIOUS
<1>1. UNCHANGED target
  BY DEF Next, vars, Start, Retry, ListPage, ListFails, Walk, NextFile, Get, CopyFile, CopyBody,
     Put, FileFails, End, CopyImages, Record, Uncaught, Die
<1>2. CASE UNCHANGED object
  BY <1>1, <1>2 DEF NoMixUp
<1>3. CASE Written
  <2>1. PICK f \in {Part(at), All(at), Short(at)} :
          /\ f = Part(at) => target = "volume"
          /\ object' = [object EXCEPT ![AttachmentKey(at)] = f]
    BY <1>3 DEF Written
  <2>2. at \in Attachment /\ at \in Name /\ object \in [Key -> File]
    BY <1>3, FilesMade DEF Written, FilesInOrder, TypeOK
  <2>3. /\ object'[AttachmentKey(at)] = f
        /\ \A key \in Key : key # AttachmentKey(at) => object'[key] = object[key]
    BY <2>1, <2>2, OwnKey
  <2>4. f.of = at /\ (target = "bucket" => f.is # "part")
    BY <2>1, <2>2, FilesMade
  <2>5. QED
    BY <1>1, <2>3, <2>4 DEF NoMixUp
<1>4. QED
  BY <1>2, <1>3, WriteStep

LEMMA CountsStep == CopyOrderly /\ [Next]_vars => CountsTell'
<1> SUFFICES ASSUME CopyOrderly, [Next]_vars PROVE CountsTell'
  OBVIOUS
<1>0. TypeOK /\ FilesInOrder /\ ObjectsInOrder /\ NoMixUp /\ CountsTell
  BY DEF CopyOrderly, AttachmentsInv
<1>1. UNCHANGED <<source, target>>
  BY DEF Next, vars, Start, Retry, ListPage, ListFails, Walk, NextFile, Get, CopyFile, CopyBody,
     Put, FileFails, End, CopyImages, Record, Uncaught, Die
<1>2. copied \subseteq Attachment /\ object \in [Key -> File]
  BY <1>0 DEF TypeOK
<1>a. pc \in Working => at \in Attachment /\ at \in Name /\ at \notin copied /\ at \notin failed
  BY <1>0, FilesMade DEF FilesInOrder, Tried
<1>3. \A name \in copied : Arrived(name)'
  <2>1. CASE UNCHANGED object
    BY <1>0, <1>1, <2>1 DEF CountsTell, Arrived
  <2>2. CASE Written
    <3>1. \A name \in copied : object'[AttachmentKey(name)] = object[AttachmentKey(name)]
      BY <1>2, <1>a, <2>2, OwnKey DEF Written
    <3>2. QED
      BY <1>0, <1>1, <3>1 DEF CountsTell, Arrived
  <2>3. QED
    BY <1>0, <2>1, <2>2, WriteStep
<1>b. PICK file : file = at
  OBVIOUS
<1>4. \/ UNCHANGED <<copied, failed>>
      \/ copied' = {} /\ failed' = {}
      \/ copied' = copied \union {file} /\ UNCHANGED failed /\ pc \in Working /\ Arrived(file)'
      \/ UNCHANGED copied /\ failed' = failed \union {file} /\ pc \in Working
  <2> USE DEF Working
  <2>1. CASE CopyFile
    <3>1. CASE SameSize(object[AttachmentKey(at)])
      <4>1. /\ pc = "copy" /\ copied' = copied \union {at}
            /\ UNCHANGED <<failed, object>>
        BY <2>1, <3>1 DEF CopyFile, Counted
      <4>2. source = "volume" /\ target = "volume" /\ AttachmentKey(at) \in Key
        BY <1>0, <1>a, <4>1, FilesMade DEF ObjectsInOrder
      <4>3. object[AttachmentKey(at)] \in File
        BY <1>2, <4>2
      <4>4. CASE object[AttachmentKey(at)].is = "all"
        <5>1. PICK name \in Name : object[AttachmentKey(at)] = All(name)
          BY <4>3, <4>4, WholeFile
        <5>2. name # NoName /\ All(name).of = name
          BY FilesMade
        <5>3. AttachmentKey(name) = AttachmentKey(at)
          BY <1>0, <4>2, <5>1, <5>2 DEF NoMixUp
        <5>4. name \in Attachment
          BY <1>a, <4>1, <5>3 DEF Attachment
        <5>5. name = at
          BY <1>a, <4>1, <5>3, <5>4, OnePlace
        <5>6. QED
          BY <1>b, <4>1, <5>1, <5>5 DEF Arrived
      <4>5. CASE object[AttachmentKey(at)].is = "sameSize"
        BY <1>b, <1>1, <4>1, <4>2, <4>5 DEF Arrived
      <4>6. QED
        BY <3>1, <4>4, <4>5 DEF SameSize
    <3>2. CASE ~ SameSize(object[AttachmentKey(at)])
      BY <2>1, <3>2 DEF CopyFile, counts
    <3>3. QED
      BY <3>1, <3>2
  <2>2. CASE CopyBody
    <3>1. CASE source = "bucket" /\ target = "bucket"
      BY <2>2, <3>1 DEF CopyBody
    <3>2. CASE ~ (source = "bucket" /\ target = "bucket")
      <4>1. pc = "body" /\ copied' = copied \union {at} /\ UNCHANGED failed
        BY <2>2, <3>2 DEF CopyBody, Counted
      <4>2. PICK f \in {All(at), Short(at)} : object' = [object EXCEPT ![AttachmentKey(at)] = f]
        BY <2>2, <3>2 DEF CopyBody, Write
      <4>3. object'[AttachmentKey(at)] = f
        BY <1>2, <1>a, <4>1, <4>2, OwnKey
      <4>4. QED
        BY <1>b, <4>1, <4>2, <4>3 DEF Arrived
    <3>3. QED
      BY <3>1, <3>2
  <2>3. CASE Put
    <3>1. pc = "put" /\ copied' = copied \union {at} /\ UNCHANGED failed /\ object' = Stored
      BY <2>3 DEF Put, Counted
    <3>2. Body \in {All(at), Short(at)}
      BY <1>0, <3>1 DEF Body, ObjectsInOrder
    <3>3. object'[AttachmentKey(at)] = Body
      BY <1>2, <1>a, <3>1, <3>2, OwnKey DEF Stored
    <3>4. QED
      BY <1>b, <3>1, <3>2, <3>3 DEF Arrived
  <2>4. CASE FileFails
    BY <1>b, <2>4 DEF FileFails
  <2>5. CASE Start
    BY <2>5 DEF Start
  <2>6. CASE Retry \/ ListPage \/ ListFails \/ Walk \/ NextFile \/ Get
    BY <2>6 DEF Retry, ListPage, ListFails, Walk, NextFile, Get, counts
  <2>7. CASE End \/ CopyImages \/ Record \/ Uncaught \/ Die \/ UNCHANGED vars
    BY <2>7 DEF End, CopyImages, Record, Uncaught, Die, vars, counts
  <2>8. QED
    BY <2>1, <2>2, <2>3, <2>4, <2>5, <2>6, <2>7 DEF Next
<1>5. copied' \intersect failed' = {}
  BY <1>0, <1>4, <1>a, <1>b DEF CountsTell
<1>6. \A name \in copied' : Arrived(name)'
  BY <1>3, <1>4
<1>7. pc' = "end" => copied' \union failed' = Attachment \ unread'
  <2>1. FilesInOrder' /\ copied' \subseteq Attachment /\ failed' \subseteq Attachment
    BY <1>0, FilesStep, TypeStep DEF TypeOK
  <2>2. QED
    BY <2>1 DEF FilesInOrder, Tried, ToCome, Working
<1>8. QED
  BY <1>5, <1>6, <1>7 DEF CountsTell

LEMMA SuccessStep == CopyOrderly /\ [Next]_vars => SuccessWhole'
<1> SUFFICES ASSUME CopyOrderly, [Next]_vars PROVE SuccessWhole'
  OBVIOUS
<1>0. FilesInOrder /\ CountsTell /\ SuccessWhole
  BY DEF CopyOrderly, AttachmentsInv
<1> USE DEF ends
<1>1. CASE Record
  <2>1. /\ pc \in {"copied", "failed"} /\ exit' = (IF pc = "copied" THEN "success" ELSE "failure")
        /\ UNCHANGED <<source, target, object, images, unread>>
        /\ filesRun' = (IF pc = "copied" THEN "success" ELSE "error") \/ UNCHANGED filesRun
    BY <1>1 DEF Record
  <2>2. CASE pc = "copied"
    <3>1. Attachment \ unread \subseteq copied
      BY <1>0, <2>2 DEF FilesInOrder
    <3>2. \A name \in Attachment \ unread : Arrived(name)'
      BY <1>0, <2>1, <3>1 DEF CountsTell, Arrived
    <3>3. source = "volume" /\ target = "volume" => images = "copied"
      BY <1>0, <2>2 DEF FilesInOrder
    <3>4. QED
      BY <2>1, <3>2, <3>3 DEF SuccessWhole
  <2>3. CASE pc = "failed"
    <3>1. filesRun' # "success" /\ exit' # "success"
      BY <1>0, <2>1, <2>3 DEF FilesInOrder
    <3>2. QED
      BY <3>1 DEF SuccessWhole
  <2>4. QED
    BY <2>1, <2>2, <2>3
<1>2. CASE Uncaught \/ Die
  <2>1. exit' = "failure" /\ UNCHANGED filesRun /\ pc # "down"
    BY <1>2 DEF Uncaught, Die, Requests
  <2>2. QED
    BY <1>0, <2>1 DEF SuccessWhole, FilesInOrder
<1>3. CASE \/ Start \/ Retry \/ ListPage \/ ListFails \/ Walk \/ NextFile \/ Get \/ CopyFile
           \/ CopyBody \/ Put \/ FileFails \/ End \/ CopyImages
  <2>1. pc' # "down"
    BY <1>3 DEF Start, Retry, Requests, ListPage, ListFails, Walk, NextFile, Get, CopyFile, CopyBody,
       Counted, Put, FileFails, End, CopyImages
  <2>2. QED
    BY <2>1 DEF SuccessWhole
<1>4. CASE UNCHANGED vars
  BY <1>0, <1>4 DEF vars, SuccessWhole, Arrived
<1>5. QED
  BY <1>1, <1>2, <1>3, <1>4 DEF Next

-----------------------------------------------------------------------------
(* What follows *)

LEMMA CopiesOrderly == Spec => []CopyOrderly
<1>1. CopyOrderly /\ [Next]_vars => CopyOrderly'
  BY TypeStep, FilesStep, ObjectsStep, MixUpStep, CountsStep, SuccessStep
  DEF CopyOrderly, AttachmentsInv
<1>2. QED
  BY InitOrderly, <1>1, PTL DEF Spec

(* For any files of any instance, at any faults in any attempt, the copy    *)
(* puts no file's bytes under another's key and no half of one into a       *)
(* bucket, and counts as copied only what has arrived (copy_attachments).   *)
THEOREM AttachmentsInvariant == Spec => []AttachmentsInv
<1>1. CopyOrderly => AttachmentsInv
  BY DEF CopyOrderly
<1>2. QED
  BY CopiesOrderly, <1>1, PTL

(* A copy that exits 0, and a record of success that keeps later attempts   *)
(* from copying again, mean that every attachment that could be listed has  *)
(* arrived, whatever earlier attempts left at the target (copy_files).      *)
THEOREM SuccessIsWhole == Spec => []SuccessWhole
<1>1. CopyOrderly => SuccessWhole
  BY DEF CopyOrderly
<1>2. QED
  BY CopiesOrderly, <1>1, PTL
=============================================================================
