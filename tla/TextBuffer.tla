------------------------------ MODULE TextBuffer ------------------------------
(***************************************************************************)
(* What a line editor promises, without the cursor's arithmetic: a text in *)
(* two halves, before the cursor and behind it, the texts submitted        *)
(* before, and a draft that is kept while they are looked at.              *)
(***************************************************************************)
EXTENDS Integers, Sequences, SequencesExt, FiniteSetsExt

CONSTANTS Alphabet, Blank, Cap

VARIABLES before, behind, past, draft

bufferVars == <<before, behind, past, draft>>
Text == before \o behind

Init == before = <<>> /\ behind = <<>> /\ past = <<>> /\ draft = <<>>

Type ==
  /\ \E c \in Alphabet : before' = Append(before, c)
  /\ UNCHANGED <<behind, past, draft>>

EraseLeft ==
  /\ before # <<>> /\ before' = Front(before)
  /\ UNCHANGED <<behind, past, draft>>

EraseRight ==
  /\ behind # <<>> /\ behind' = Tail(behind)
  /\ UNCHANGED <<before, past, draft>>

\* The word before the cursor is erased, back to the last blank; the blank stays,
\* on either side of the cursor, and so does what is behind it.
EraseWord(right) ==
  /\ before # <<>>
  /\ LET kept == SubSeq(before, 1,
                   Max({i \in 0..Len(before) : i = 0 \/ before[i] = Blank}))
     IN  \/ before' = kept /\ behind' = right
         \/ kept # <<>> /\ before' = Front(kept) /\ behind' = <<Blank>> \o right
  /\ UNCHANGED <<past, draft>>
EraseWordLeft == EraseWord(behind)

\* Erases what is under the cursor and on to the next blank.
EraseWordRight ==
  /\ behind # <<>>
  /\ LET blanks == {i \in 2..Len(behind) : behind[i] = Blank}
     IN  behind' = IF blanks = {} THEN <<>> ELSE SubSeq(behind, Min(blanks), Len(behind))
  /\ UNCHANGED <<before, past, draft>>

\* The cursor moves through the text.
MoveCursor ==
  /\ \E i \in 0..Len(Text) : /\ before' = SubSeq(Text, 1, i)
                             /\ behind' = SubSeq(Text, i + 1, Len(Text))
  /\ UNCHANGED <<past, draft>>

\* A text of the past or the draft is shown, and edited from its end.
Recall ==
  /\ draft' \in {draft, Text}
  /\ before' \in Range(past) \cup {draft'}
  /\ behind' = <<>>
  /\ UNCHANGED past

\* The text is submitted: it joins the past unless it is empty or the newest
\* there, and the oldest leaves when there are too many.
Submit ==
  /\ past' = IF Text = <<>> \/ (past # <<>> /\ Last(past) = Text) THEN past
             ELSE IF Len(past) < Cap THEN Append(past, Text)
             ELSE Tail(Append(past, Text))
  /\ before' = <<>> /\ behind' = <<>>
  /\ UNCHANGED draft

\* A new session starts with the past of the last.
Reload ==
  /\ before' = <<>> /\ behind' = <<>> /\ draft' = <<>>
  /\ UNCHANGED past

Next ==
  \/ Type \/ EraseLeft \/ EraseRight \/ EraseWordLeft \/ EraseWordRight
  \/ MoveCursor \/ Recall \/ Submit \/ Reload

Spec == Init /\ [][Next]_bufferVars
=============================================================================
