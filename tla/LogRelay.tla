------------------------------ MODULE LogRelay ------------------------------
(***************************************************************************)
(* The log relay of a worker pod (logrelay.Relay): it follows a file that  *)
(* MISP appends to, writes each complete line to stdout, empties the file  *)
(* once it has read more than max_bytes of it, and keeps its offset on the *)
(* pod's volume for the next relay after a restart.                        *)
(*                                                                         *)
(* The relay's files are independent of each other except for the one save *)
(* at the end of a poll, so the model has one of them.  A line is two      *)
(* bytes, numbered in the order MISP writes them: line n is 2n - 1, 2n,    *)
(* and an even byte ends its line.  A byte stands for a part of the line   *)
(* that an append or a poll does not divide; where it divides a wide line, *)
(* it divides a character that is longer than one byte.                    *)
(***************************************************************************)
EXTENDS Integers, Sequences, FiniteSets, SequencesExt

CONSTANTS
  Lines,      \* bound: the lines that MISP writes
  Wide,       \* the lines with a character that begins in the one byte and ends in
              \* the other
  MaxBytes,   \* MAX_BYTES
  MaxDowns,   \* bound: how often the relay ends
  MaxEmptied  \* bound: how often someone else empties the file

ASSUME RelayAssumption ==
  /\ Lines \in Nat /\ Wide \subseteq 1..Lines /\ MaxBytes \in Nat \ {0}
  /\ MaxDowns \in Nat /\ MaxEmptied \in Nat

VARIABLES
  file,      \* what the file holds; a file that is missing holds nothing
  written,   \* the bytes that MISP has written so far
  at,        \* the relay: "sleep" between polls, "read", "truncate", "save", or "down"
  sigterm,   \* SIGTERM: "no", "asked", or "last" in the poll that follows it
  size,      \* st_size, as the poll read it
  offset,    \* self.offsets, in memory
  partial,   \* self.partial: a line whose end has not been read
  saved,     \* the offsets file
  stdout,    \* the lines relayed, each a sequence of bytes
  garbled,   \* the bytes of partial and stdout that stand there as replacement characters
  halved,    \* history: the wide lines of which a poll read the first byte only
  downs, emptied,  \* count the bounded actions
  replayed,  \* history: a relay died between relaying lines and saving its offset
  strayed,   \* history: an offset on the volume or in memory is of an earlier content
  dropped,   \* history: bytes appended between a read and its truncate
  cut        \* history: bytes that only the memory of a relay that ended had

relay == <<at, sigterm, size, offset, partial, saved>>
relayHistory == <<downs, emptied, replayed, strayed, dropped, cut>>
decoded == <<garbled, halved>>
relayVars == <<file, written, relay, stdout, decoded, relayHistory>>

Ends(text) == {i \in DOMAIN text : text[i] % 2 = 0}
LastEnd(text) == CHOOSE i \in Ends(text) \union {0} : \A k \in Ends(text) : k <= i

(* The place of the n-th line end, with n - 1 before it. *)
NthEnd(text, n) == CHOOSE i \in Ends(text) : Cardinality({k \in Ends(text) : k <= i}) = n

(* text.split("\n"), without the part after the last line end. *)
CompleteLines(text) ==
  [n \in 1..Cardinality(Ends(text)) |->
     SubSeq(text, IF n = 1 THEN 1 ELSE NthEnd(text, n - 1) + 1, NthEnd(text, n))]

Rest(from) == SubSeq(file, from + 1, Len(file))

RelayInit ==
  /\ file = <<>> /\ written = 0
  /\ at = "sleep" /\ sigterm = "no"
  /\ size = 0 /\ offset = 0 /\ partial = <<>> /\ saved = 0
  /\ stdout = <<>> /\ garbled = {} /\ halved = {}
  /\ downs = 0 /\ emptied = 0
  /\ replayed = FALSE /\ strayed = FALSE
  /\ dropped = {} /\ cut = {}

-----------------------------------------------------------------------------
(* MISP appends, and the file may be emptied or removed by someone else. *)
Append1 ==
  /\ written < 2 * Lines
  /\ written' = written + 1
  /\ file' = Append(file, written + 1)
  /\ UNCHANGED <<relay, stdout, decoded, relayHistory>>

Empty ==
  /\ emptied < MaxEmptied
  /\ file # <<>>
  /\ file' = <<>>
  /\ emptied' = emptied + 1
  /\ strayed' = TRUE
  /\ UNCHANGED <<written, relay, stdout, decoded, downs, replayed, dropped, cut>>

-----------------------------------------------------------------------------
(* Relay.run *)

AskedToStop ==
  /\ sigterm = "no" /\ at # "down" /\ downs < MaxDowns
  /\ sigterm' = "asked"
  /\ UNCHANGED <<file, written, at, size, offset, partial, saved, stdout, decoded,
                 relayHistory>>

(* A poll begins: the size, and a new start on a file that shrank.  The     *)
(* partial line stays.                                                      *)
Stat ==
  /\ at = "sleep"
  /\ sigterm' = IF sigterm = "asked" THEN "last" ELSE sigterm
  /\ size' = Len(file)
  /\ offset' = IF Len(file) < offset THEN 0 ELSE offset
  /\ at' = IF Len(file) > offset' THEN "read" ELSE "save"
  /\ UNCHANGED <<file, written, partial, saved, stdout, decoded, relayHistory>>

(* f.seek(offset); f.read(size - offset), of a file that may have shrunk. *)
Gained == SubSeq(file, offset + 1, IF size < Len(file) THEN size ELSE Len(file))

(* data.decode("utf-8", errors="replace"), of what one poll read: the part  *)
(* of a character whose other part is not in it becomes U+FFFD.             *)
Decode(data) ==
  LET got == ToSet(data) IN
  /\ garbled' = (garbled \ got) \union {b \in got : \E n \in Wide : {2 * n - 1, 2 * n} \cap got = {b}}
  /\ halved' = halved \union {n \in Wide : 2 * n - 1 \in got /\ 2 * n \notin got}

(* Mutants of Read: a line that two polls read is not put together again,   *)
(* and nothing is ever emptied.                                             *)
ReadForgetsPartial ==
  /\ at = "read"
  /\ LET data == Gained IN
     /\ Decode(data)
     /\ offset' = offset + Len(data)
     /\ stdout' = stdout \o CompleteLines(data)
     /\ partial' = SubSeq(data, LastEnd(data) + 1, Len(data))
  /\ at' = IF offset' > MaxBytes THEN "truncate" ELSE "save"
  /\ UNCHANGED <<file, written, sigterm, size, saved, relayHistory>>

ReadNeverEmpties ==
  /\ at = "read"
  /\ LET data == Gained
         text == partial \o data IN
     /\ Decode(data)
     /\ offset' = offset + Len(data)
     /\ stdout' = stdout \o CompleteLines(text)
     /\ partial' = SubSeq(text, LastEnd(text) + 1, Len(text))
  /\ at' = "save"
  /\ UNCHANGED <<file, written, sigterm, size, saved, relayHistory>>

(* What the file gained up to the size, or less if it shrank meanwhile; the *)
(* complete lines go out, the rest waits for its end.  Each poll decodes    *)
(* what it read by itself.                                                  *)
Read ==
  /\ at = "read"
  /\ LET data == Gained
         text == partial \o data IN
     /\ Decode(data)
     /\ offset' = offset + Len(data)
     /\ stdout' = stdout \o CompleteLines(text)
     /\ partial' = SubSeq(text, LastEnd(text) + 1, Len(text))
  /\ at' = IF offset' > MaxBytes THEN "truncate" ELSE "save"
  /\ UNCHANGED <<file, written, sigterm, size, saved, relayHistory>>

(* Mutant of Truncate: the offset is not set back. *)
TruncateKeepsOffset ==
  /\ at = "truncate"
  /\ file' = <<>>
  /\ dropped' = dropped \union ToSet(Rest(offset))
  /\ at' = "save"
  /\ UNCHANGED <<written, sigterm, size, offset, partial, saved, stdout, decoded,
                 downs, emptied, replayed, strayed, cut>>

(* truncate(0).  What MISP appended since the read is lost. *)
Truncate ==
  /\ at = "truncate"
  /\ file' = <<>>
  /\ offset' = 0
  /\ dropped' = dropped \union ToSet(Rest(offset))
  /\ at' = "save"
  /\ UNCHANGED <<written, sigterm, size, partial, saved, stdout, decoded,
                 downs, emptied, replayed, strayed, cut>>

(* Bytes that a relay has read, that no other one will read again. *)
OnlyHere == ToSet(partial) \ ToSet(Rest(saved'))

(* Mutant of Save: only a relay that stops saves its offset. *)
SaveAtTheEnd ==
  /\ at = "save"
  /\ saved' = IF sigterm = "last" THEN offset ELSE saved
  /\ IF sigterm = "last"
     THEN at' = "down" /\ downs' = downs + 1 /\ cut' = cut \union OnlyHere
     ELSE at' = "sleep" /\ UNCHANGED <<downs, cut>>
  /\ UNCHANGED <<file, written, sigterm, size, offset, partial, stdout, decoded,
                 emptied, replayed, strayed, dropped>>

(* _save_offsets, atomic by its rename; the last poll ends the relay. *)
Save ==
  /\ at = "save"
  /\ saved' = offset
  /\ IF sigterm = "last"
     THEN at' = "down" /\ downs' = downs + 1 /\ cut' = cut \union OnlyHere
     ELSE at' = "sleep" /\ UNCHANGED <<downs, cut>>
  /\ UNCHANGED <<file, written, sigterm, size, offset, partial, stdout, decoded,
                 emptied, replayed, strayed, dropped>>

(* The relay is killed, with its pod or by itself. *)
Crash ==
  /\ at # "down" /\ downs < MaxDowns
  /\ at' = "down"
  /\ downs' = downs + 1
  /\ replayed' = (replayed \/ (at \in {"truncate", "save"} /\ offset # saved))
  /\ strayed' = (strayed \/ offset < saved)
  /\ saved' = saved
  /\ cut' = cut \union OnlyHere
  /\ UNCHANGED <<file, written, sigterm, size, offset, partial, stdout, decoded, emptied, dropped>>

(* Mutant of Restart: it follows from the end of the file. *)
RestartAtTheEnd ==
  /\ at = "down"
  /\ at' = "sleep"
  /\ sigterm' = "no"
  /\ offset' = Len(file)
  /\ partial' = <<>>
  /\ size' = 0
  /\ UNCHANGED <<file, written, saved, stdout, decoded, relayHistory>>

(* The supervisor or the kubelet starts it again: _load_offsets. *)
Restart ==
  /\ at = "down"
  /\ at' = "sleep"
  /\ sigterm' = "no"
  /\ offset' = saved
  /\ partial' = <<>>
  /\ size' = 0
  /\ UNCHANGED <<file, written, saved, stdout, decoded, relayHistory>>

Poll == Stat \/ Read \/ Truncate \/ Save

RelayNext == Append1 \/ Empty \/ AskedToStop \/ Poll \/ Crash \/ Restart

(* The relay polls in a loop, and what ended is started again. *)
RelaySpec == RelayInit /\ [][RelayNext]_relayVars /\ WF_relayVars(Poll) /\ WF_relayVars(Restart)

-----------------------------------------------------------------------------
(* Properties *)

Bytes == 1..(2 * Lines)
Whole(line) == Len(line) = 2 /\ line[1] % 2 = 1 /\ line[2] = line[1] + 1
Relayed == UNION {ToSet(stdout[i]) : i \in DOMAIN stdout}

RelayTypeOK ==
  /\ file \in Seq(Bytes) /\ written \in 0..(2 * Lines)
  /\ at \in {"sleep", "read", "truncate", "save", "down"}
  /\ sigterm \in {"no", "asked", "last"}
  /\ size \in Nat /\ offset \in Nat /\ saved \in Nat
  /\ partial \in Seq(Bytes) /\ stdout \in Seq(Seq(Bytes))
  /\ dropped \subseteq Bytes /\ cut \subseteq Bytes
  /\ garbled \subseteq Bytes /\ halved \subseteq Wide

(* A line comes out whole, unless one of its bytes, or the byte before it,  *)
(* was dropped by a truncate or was in the memory of a relay that ended.  A *)
(* whole line is as MISP wrote it, unless a poll came between the two parts *)
(* of one of its characters.                                                *)
LinesWhole ==
  ~strayed /\ ~replayed => \A i \in DOMAIN stdout :
    LET line == stdout[i] IN
    \/ /\ Whole(line)
       /\ ToSet(line) \cap garbled = {} \/ \E n \in halved : Last(line) = 2 * n
    \/ \E n \in cut \union dropped : line[1] - 1 <= n /\ n <= Last(line)

(* The types; what the volume knows between two polls: the place where the  *)
(* next relay would have to go on, in a file within its limit; and the      *)
(* lines of stdout are whole, and as MISP wrote them.                       *)
RelayInv ==
  /\ RelayTypeOK
  /\ at = "sleep" => offset = saved
  /\ saved <= MaxBytes
  /\ LinesWhole

(* "A restart of the container relays no line twice" (logrelay.py): no byte *)
(* goes to stdout twice or out of order, over any number of restarts, except*)
(* after a relay that died between its lines and its save.                  *)
OnceInOrder ==
  ~replayed => \A i, k \in DOMAIN stdout : \A a \in DOMAIN stdout[i], b \in DOMAIN stdout[k] :
    i < k \/ (i = k /\ a < b) => stdout[i][a] < stdout[k][b]

(* No line is lost in silence: the end of every line that MISP wrote is on  *)
(* stdout or still to be read, unless it was appended in the moment before a*)
(* truncate, or the relay has lost its place in the file: by someone who    *)
(* empties it, or by dying between a truncate and the save.                 *)
NothingLost ==
  ~strayed => \A n \in 1..written :
    n % 2 = 0 => n \in Relayed \/ n \in dropped
                   \/ n \in ToSet(Rest(IF at = "down" THEN saved ELSE offset))

(* Every line reaches stdout in the end, however the relay is restarted.    *)
EventuallyRelayed ==
  \A n \in 1..Lines : (written >= 2 * n) ~> (2 * n \in Relayed \union dropped \/ strayed)

(* The file does not fill the volume: it falls back to its limit again and  *)
(* again.                                                                   *)
KeptSmall == []<>(Len(file) <= MaxBytes)
=============================================================================
