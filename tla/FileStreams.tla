----------------------------- MODULE FileStreams -----------------------------
(***************************************************************************)
(* The native module fs (modules/fs/fs.cpp): the functions on paths, and   *)
(* the functions on File values, each of which shares a std::fstream with  *)
(* its copies.                                                             *)
(*                                                                         *)
(* disk[n] is what the name n stands for: nothing, a directory or a file   *)
(* with an identity; inode[i] is the text of file i, made of characters    *)
(* "x" and newlines "nl".  A stream holds its position, what was written   *)
(* and not yet flushed, its state bits (bad and fail are one, fail), and   *)
(* the members readable and writable of the File values that share it.     *)
(* files[h] is the stream the File value h refers to.  said is what the    *)
(* last call yielded; only charCount's number is kept.                     *)
(***************************************************************************)
EXTENDS Integers, Sequences, FiniteSets, SequencesExt

CONSTANTS
  FileNames,  \* paths
  Modes,      \* the mode strings tried, as sequences of characters
  Files,      \* File values at one time (bound)
  Inodes,     \* files that ever exist at one time (bound)
  Slots,      \* numbers above 0: streams at one time (bound)
  MaxLength   \* characters of one file (bound)

ASSUME StreamsAssumption == MaxLength \in Nat /\ Slots \subseteq Nat \ {0}

VARIABLES disk, inode, streams, files, said

streamsVars == <<disk, inode, streams, files, said>>

None   == "none"     \* no such path
Dir    == "dir"
NoFile == -1         \* no File value
NoData == 0          \* a File made by the constructor of the structure

Crash == "undefined" \* the null pointer of a File without stream is read
Threw == "threw"     \* an exception nothing catches
Error == "error"
Value == "value"     \* any value but a count, None included

IsFile(n) == disk[n] \in Inodes
Say(r)      == said' = [what |-> r, number |-> 0]
SayCount(n) == said' = [what |-> "count", number |-> n]

-----------------------------------------------------------------------------
(* std::fstream of the C++ library *)

Good(s) == ~s.eof /\ ~s.fail

Gap(n) == [i \in 1..n |-> "gap"]

\* The text with the pending characters written over it at the position.
Flushed(s, t) ==
  LET before == IF s.pos <= Len(t) THEN SubSeq(t, 1, s.pos) ELSE t \o Gap(s.pos - Len(t))
      after  == SubSeq(t, s.pos + Len(s.pending) + 1, Len(t))
  IN IF s.pending = <<>> THEN t ELSE before \o s.pending \o after

AfterFlush(s) == [s EXCEPT !.pos = @ + Len(s.pending), !.pending = <<>>]
Text(s)       == inode[s.inode]
FullText(s)   == Flushed(s, Text(s))

\* Whether the flags make a mode, and what the file must be for it.
FileMode(flags) == flags \cap {"in", "out", "trunc"}
Opens(flags, n) ==
  CASE FileMode(flags) \in {{"in"}}                -> disk[n] # None
    [] FileMode(flags) \in {{"in", "out"}}         -> IsFile(n)
    [] FileMode(flags) \in {{"out"}, {"out", "trunc"}, {"in", "out", "trunc"}}
                                                   -> disk[n] # Dir
    [] OTHER -> FALSE
Truncates(flags) == FileMode(flags) \notin {{"in"}, {"in", "out"}}

Failed(s)  == [s EXCEPT !.fail = TRUE]
AtEnd(s)   == Failed([s EXCEPT !.eof = TRUE])

\* A read writes out what is pending first; a buffer that is not open for
\* reading is at its end.
Reading(s) == IF s.in THEN AfterFlush(s) ELSE s
Rest(s)    == IF s.in THEN SubSeq(FullText(s), AfterFlush(s).pos + 1, Len(FullText(s))) ELSE <<>>

\* istream::get
GetC(s) == IF ~Good(s) THEN Failed(s)
           ELSE IF Rest(s) = <<>> THEN AtEnd(Reading(s))
           ELSE [Reading(s) EXCEPT !.pos = @ + 1]

\* std::getline stops after a newline, or at the end with eof.
GetL(s) ==
  IF ~Good(s) THEN Failed(s)
  ELSE IF Rest(s) = <<>> THEN AtEnd(Reading(s))
  ELSE IF Contains(Rest(s), "nl")
       THEN [Reading(s) EXCEPT !.pos = @ + SelectInSeq(Rest(s), LAMBDA c : c = "nl")]
       ELSE [Reading(s) EXCEPT !.pos = @ + Len(Rest(s)), !.eof = TRUE]

\* istream::tellg is refused by eof and then fails.
TellG(s)  == IF s.eof THEN Failed(s) ELSE s
Told(s)   == IF TellG(s).fail THEN -1 ELSE s.pos + Len(s.pending)

\* istream::seekg clears eof, not fail.
SeekG(s, to) ==
  LET c == [s EXCEPT !.eof = FALSE]
  IN IF s.fail THEN c
     ELSE IF to < 0 THEN Failed(AfterFlush(c))
     ELSE [AfterFlush(c) EXCEPT !.pos = to]

\* ostream::put: nothing is written by a stream in a bad state.
PutC(s, c) == IF Good(s) /\ s.out THEN [s EXCEPT !.pending = Append(@, c)] ELSE Failed(s)

-----------------------------------------------------------------------------
(* File values *)

LiveFiles == {h \in Files : files[h] # NoFile}
FreeFiles == {h \in Files : files[h] = NoFile}

\* Each function first reads a member, then the data of the structure.
Refused(h, needs) == files[h] # NoData /\ needs # "any" /\ ~streams[files[h]][needs]
Closed(h)         == files[h] # NoData /\ ~streams[files[h]].open

\* Stream i becomes s; if it wrote what was pending, the file has it.
Becomes(i, s) ==
  /\ streams' = [streams EXCEPT ![i] = s]
  /\ inode' = IF s.pending = <<>> THEN [inode EXCEPT ![s.inode] = FullText(streams[i])]
              ELSE inode

\* A closed stream is all alike, but for what its File values say of it.
NoStream == [inode |-> None, in |-> FALSE, out |-> FALSE,
             open |-> FALSE, pos |-> 0, pending |-> <<>>, eof |-> FALSE, fail |-> FALSE,
             readable |-> FALSE, writable |-> FALSE, sought |-> FALSE]

\* close, and the destructor of the stream
Leave(i) ==
  /\ streams' = [streams EXCEPT ![i] = [NoStream EXCEPT !.readable = streams[i].readable,
                                                        !.writable = streams[i].writable]]
  /\ inode' = [inode EXCEPT ![streams[i].inode] = FullText(streams[i])]

\* A call on h of a function that does op to its stream.
On(h, needs, op(_)) ==
  /\ h \in LiveFiles
  /\ \/ /\ Refused(h, needs) \/ Closed(h)
        /\ Say(Error) /\ UNCHANGED <<inode, streams>>
     \/ /\ files[h] = NoData
        /\ Say(Crash) /\ UNCHANGED <<inode, streams>>
     \/ /\ files[h] # NoData /\ ~Refused(h, needs) /\ ~Closed(h)
        /\ op(files[h])
  /\ UNCHANGED <<disk, files>>

Eof(h) == LET op(i) == Say(IF streams[i].eof THEN "end" ELSE Value) /\ UNCHANGED <<inode, streams>>
          IN On(h, "any", op)

\* The character, or its number; at the end an empty value.
GetChar(h) ==
  LET op(i) == LET s == GetC(streams[i])
               IN Becomes(i, s) /\ Say(Value)
  IN On(h, "readable", op)

GetB(h) == GetChar(h)

\* The test is the wrong way round: a line that ends is dropped, an error said.
GetLine(h) ==
  LET op(i) == LET s == GetL(streams[i])
               IN Becomes(i, s) /\ Say(IF s.eof THEN Value ELSE Error)
  IN On(h, "readable", op)

TellAt(h) == LET op(i) == /\ Becomes(i, TellG(streams[i]))
                          /\ Say(Value)
             IN On(h, "any", op)

\* History: the stream was moved while it was at its end or had failed, or to
\* a place before its beginning.
Sought(s, to) == [s EXCEPT !.sought = @ \/ ~Good(s) \/ to < 0]

SeekAt(h, offset, beg) ==
  LET op(i) == LET s == streams[i]
                   base == IF beg THEN 0 ELSE Len(FullText(s))
               IN /\ base + offset <= MaxLength
                  /\ Becomes(i, SeekG(Sought(s, base + offset), base + offset))
                  /\ Say(Value)
  IN On(h, "any", op)

\* Fault: the reader is left at the end.
CharCountStays(h) ==
  LET op(i) == LET s == Sought(streams[i], 0)
                   atEnd == SeekG(TellG(s), Len(FullText(s)))
               IN Becomes(i, TellG(atEnd)) /\ SayCount(Told(atEnd))
  IN On(h, "readable", op)

\* Where the reader stands, the end, and back again.
CharCount(h) ==
  LET op(i) == LET s == Sought(streams[i], 0)
                   atEnd == SeekG(TellG(s), Len(FullText(s)))
               IN /\ Becomes(i, SeekG(TellG(atEnd), Told(s)))
                  /\ SayCount(Told(atEnd))
  IN On(h, "readable", op)

\* Bound: files stay short.
Room(s) == AfterFlush(s).pos < MaxLength

\* Fault: whether the file was opened for writing is not looked at.
WriteAny(h, c) ==
  LET op(i) == /\ Room(streams[i])
               /\ Becomes(i, PutC(streams[i], c)) /\ Say(Value)
  IN On(h, "any", op)

Write(h, c) ==
  LET op(i) == /\ Room(streams[i])
               /\ Becomes(i, PutC(streams[i], c)) /\ Say(Value)
  IN On(h, "writable", op)

Put(h, c) == Write(h, c)

Flush(h) == LET op(i) == Becomes(i, AfterFlush(streams[i])) /\ Say(Value)
            IN On(h, "any", op)

Close(h) == LET op(i) == /\ Leave(i) /\ Say(Value)
            IN On(h, "any", op)

-----------------------------------------------------------------------------
(* Open, copy, forge and drop a File value *)

\* fromChar; the clash of "a" and "t" stands after the returns.
FlagsOf(c) == CASE c = "r" -> {"in"}        [] c = "w" -> {"out"}
                [] c = "+" -> {"in", "out"} [] c = "b" -> {"binary"}
                [] c = "t" -> {"trunc"}     [] c = "a" -> {"ate"}
                [] OTHER -> {Error}

\* checkOpenMode reads the first character even if there is none.
OpenMode(mode) == IF mode = <<>> THEN {Error}
                  ELSE UNION {FlagsOf(mode[i]) : i \in DOMAIN mode}

FreeSlots == Slots \ {files[h] : h \in Files}
InUse(i)  == \E k \in Slots : streams[k].open /\ streams[k].inode = i
FreeInode == {i \in Inodes : ~InUse(i) /\ \A n \in FileNames : disk[n] # i}

\* The stream at the start of the file, or at its end if it asks for ate.
NewStream(i, flags, text) ==
  [inode |-> i, in |-> "in" \in flags, out |-> "out" \in flags, open |-> TRUE,
   pos |-> IF "ate" \in flags THEN Len(text) ELSE 0, pending |-> <<>>,
   eof |-> FALSE, fail |-> FALSE,
   readable |-> "in" \in flags, writable |-> "out" \in flags,
   sought |-> FALSE]

OpenOf(i, n, h, flags) ==
  LET text == IF Truncates(flags) \/ disk[n] = None THEN <<>> ELSE inode[i]
  IN /\ disk' = [disk EXCEPT ![n] = i]
     /\ inode' = [inode EXCEPT ![i] = text]
     /\ \E k \in FreeSlots : /\ streams' = [streams EXCEPT ![k] = NewStream(i, flags, text)]
                             /\ files' = [files EXCEPT ![h] = k]
     /\ Say(Value)

\* Bound: one open stream per file, so that no buffer is stale.
Open(n, mode, h) ==
  LET flags == OpenMode(mode) IN
  /\ h \in FreeFiles /\ FreeSlots # {}
  /\ \/ /\ Error \in flags \/ ~Opens(flags, n)
        /\ Say(Error) /\ UNCHANGED <<disk, inode, streams, files>>
     \/ /\ Error \notin flags /\ Opens(flags, n) /\ disk[n] = Dir
        /\ Say(Threw)            \* the size of a directory is asked for
        /\ UNCHANGED <<disk, inode, streams, files>>
     \/ /\ Error \notin flags /\ Opens(flags, n) /\ disk[n] # Dir
        /\ \E i \in IF disk[n] = None THEN FreeInode ELSE {disk[n]} :
             ~InUse(i) /\ OpenOf(i, n, h, flags)

\* Struct::copy shares the members and the data.
CopyValue(h, g) ==
  /\ h \in LiveFiles /\ g \in FreeFiles
  /\ files' = [files EXCEPT ![g] = files[h]]
  /\ Say(Value)
  /\ UNCHANGED <<disk, inode, streams>>

\* "File" is a structure like any other: a program can make one, without data
\* (of its members only those that pass the checks are tried) ...
Forge(h) ==
  /\ h \in FreeFiles
  /\ files' = [files EXCEPT ![h] = NoData]
  /\ Say("forged")
  /\ UNCHANGED <<disk, inode, streams>>

\* ... and assign the members, which immutable does not prevent.
SetMember(h, member) ==
  /\ h \in LiveFiles /\ files[h] # NoData
  /\ streams' = [streams EXCEPT ![files[h]][member] = TRUE]
  /\ Say(Value)
  /\ UNCHANGED <<disk, inode, files>>

\* The last value of a stream takes the stream with it, which closes its file.
Drop(h) ==
  LET i == files[h] IN
  /\ h \in LiveFiles
  /\ files' = [files EXCEPT ![h] = NoFile]
  /\ Say(Value)
  /\ IF i # NoData /\ streams[i].open /\ \A g \in LiveFiles \ {h} : files[g] # i
     THEN Leave(i)
     ELSE UNCHANGED <<inode, streams>>
  /\ UNCHANGED disk

-----------------------------------------------------------------------------
(* The functions on paths *)

Changed == Say(Value) /\ UNCHANGED <<streams, files>>
Failure == Say(Error) /\ UNCHANGED <<disk, inode, streams, files>>

\* exists always answers; size asks for a file, isFile, isDir, isSymlink and
\* isEmpty for a path that is there.  None of them changes anything.
Ask(n) ==
  /\ \/ Say(Value)
     \/ ~IsFile(n) /\ Say(Error)
     \/ disk[n] = None /\ Say(Error)
  /\ UNCHANGED <<disk, inode, streams, files>>

\* A directory that is there already is an error, with the message "Success".
CreateDirectory(n) ==
  \/ /\ disk[n] = None
     /\ disk' = [disk EXCEPT ![n] = Dir] /\ inode' = inode
     /\ Changed
  \/ disk[n] # None /\ Failure

\* An open stream keeps the file it opened.
RemovePath(n) ==
  \/ /\ disk[n] # None
     /\ disk' = [disk EXCEPT ![n] = None] /\ inode' = inode
     /\ Changed
  \/ disk[n] = None /\ Failure

Rename(n, m) ==
  LET fits == disk[n] # None /\ (disk[m] # None => (disk[n] = Dir <=> disk[m] = Dir)) IN
  \/ /\ fits
     /\ disk' = [disk EXCEPT ![n] = IF n = m \/ disk[n] = disk[m] THEN @ ELSE None,
                             ![m] = disk[n]]
     /\ inode' = inode
     /\ Changed
  \/ ~fits /\ Failure

\* The copy is made of what is on the disk, without what a stream holds back.
CopyTo(n, m, i) ==
  /\ disk' = [disk EXCEPT ![m] = i]
  /\ inode' = [inode EXCEPT ![i] = inode[disk[n]]]
  /\ Changed

CopyFile(n, m) ==
  \/ /\ IsFile(n) /\ disk[m] = None
     /\ \E i \in FreeInode : CopyTo(n, m, i)
  \/ ~(IsFile(n) /\ disk[m] = None) /\ Failure

\* copy replaces a file that is older; a directory takes the copy in.
Copy(n, m) ==
  \/ /\ IsFile(n) /\ disk[m] = None
     /\ \E i \in FreeInode : CopyTo(n, m, i)
  \/ /\ IsFile(n) /\ IsFile(m) /\ disk[n] # disk[m] /\ ~InUse(disk[m])
     /\ CopyTo(n, m, disk[m])
  \/ /\ IsFile(n) /\ IsFile(m) /\ disk[n] # disk[m]
     /\ Changed /\ UNCHANGED <<disk, inode>>
  \/ /\ disk[n] = Dir /\ disk[m] = None
     /\ disk' = [disk EXCEPT ![m] = Dir] /\ inode' = inode /\ Changed
  \/ /\ n # m /\ disk[n] # None /\ disk[m] = Dir
     /\ Changed /\ UNCHANGED <<disk, inode>>
  \/ /\ \/ disk[n] = None \/ n = m
        \/ IsFile(n) /\ disk[n] = disk[m]
        \/ disk[n] = Dir /\ IsFile(m)
     /\ Failure

-----------------------------------------------------------------------------
Characters == {"x", "nl"}

StreamsInit == /\ disk \in [FileNames -> {None, Dir} \cup Inodes]
               /\ \A n, m \in FileNames : n # m /\ IsFile(n) => disk[n] # disk[m]
               /\ inode \in [Inodes -> UNION {[1..k -> Characters] : k \in 0..MaxLength}]
               /\ \A i \in Inodes : (\A n \in FileNames : disk[n] # i) => inode[i] = <<>>
               /\ streams = [k \in Slots |-> NoStream]
               /\ files = [h \in Files |-> NoFile]
               /\ said = [what |-> Value, number |-> 0]

OnStream == \E h \in Files :
  \/ Eof(h) \/ GetChar(h) \/ GetB(h) \/ GetLine(h) \/ TellAt(h) \/ CharCount(h)
  \/ \E offset \in -1..1, beg \in BOOLEAN : SeekAt(h, offset, beg)
  \/ \E c \in Characters : Write(h, c) \/ Put(h, c)
  \/ Flush(h) \/ Close(h)

OnValue == \E h \in Files :
  \/ \E n \in FileNames, mode \in Modes : Open(n, mode, h)
  \/ \E g \in Files : CopyValue(h, g)
  \/ Forge(h) \/ Drop(h)
  \/ \E member \in {"readable", "writable"} : SetMember(h, member)

OnPath == \E n \in FileNames :
  \/ Ask(n) \/ CreateDirectory(n) \/ RemovePath(n)
  \/ \E m \in FileNames : Rename(n, m) \/ Copy(n, m) \/ CopyFile(n, m)

StreamsNext == /\ said.what \notin {Crash, Threw}
               /\ OnStream \/ OnValue \/ OnPath

StreamsSpec == StreamsInit /\ [][StreamsNext]_streamsVars

-----------------------------------------------------------------------------
(* Properties *)

\* A program that reads until eof ends: an open stream whose reads have come
\* to fail says eof, unless it was moved while at its end or failed, or before
\* the beginning of its file (seekg clears eof and leaves fail; charCount does
\* it too), or its members were assigned.
EndIsSeen ==
  \A i \in Slots :
    LET s == streams[i]
    IN (s.open /\ s.fail /\ ~s.eof) => s.sought \/ s.readable # s.in \/ s.writable # s.out

\* charCount tells the number of characters of the file, those not flushed
\* included, and leaves the reader where it was; at its end it tells -1.
CharCountIsHarmless ==
  [][said'.what = "count" =>
       \E i \in Slots :
         LET s == streams[i]
             t == streams'[i]
         IN IF Good(s)
            THEN /\ said'.number = Len(FullText(s)) /\ Text(s)' = FullText(s)
                 /\ AfterFlush(t).pos = AfterFlush(s).pos /\ t.eof = s.eof /\ t.fail = s.fail
            ELSE said'.number = -1]_streamsVars
=============================================================================
