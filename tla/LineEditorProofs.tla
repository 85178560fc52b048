-------------------------- MODULE LineEditorProofs --------------------------
(***************************************************************************)
(* Theorems about LineEditor for any characters, commands and lengths.     *)
(***************************************************************************)
EXTENDS LineEditor, SequenceTheorems, TLAPS

InLine(p) == p \in 0 .. Len(line)

(* Without a stale selection both ends of a selection are in the line, and  *)
(* the ordered pair is that selection, or no selection, or still untouched. *)
SelectionInv ==
  ~stale =>
    /\ fate = "up" /\ InLine(cursorPos)
    /\ selectionStart # Npos =>
         /\ InLine(selectionStart) /\ InLine(selectionEnd)
         /\ orderedVars = Ordered(selectionStart, selectionEnd)
    /\ selectionStart = Npos /\ HasSelection =>
         selectionStartOrdered = 0 /\ selectionEndOrdered = 0

IInv == TypeOK /\ SelectionInv
------------------------------------------------------------------------------
(***************************************************************************)
(* Strings.                                                                *)
(***************************************************************************)
LEMMA SubSeqTyped ==
  ASSUME NEW s \in Seq(Chars), NEW m \in Nat \ {0}, NEW n \in Nat, n <= Len(s)
  PROVE  /\ SubSeq(s, m, n) \in Seq(Chars)
         /\ Len(SubSeq(s, m, n)) = IF m <= n THEN n - m + 1 ELSE 0
<1>1. \A i \in m .. n : s[i] \in Chars
  BY LenProperties, ElementOfSeq
<1>. QED
  BY <1>1, SubSeqProperties

LEMMA EraseProperties ==
  ASSUME NEW s \in Seq(Chars), NEW p \in Nat, NEW q \in Nat, p <= Len(s)
  PROVE  Erase(s, p, q) \in Seq(Chars) /\ p <= Len(Erase(s, p, q))
<1>. DEFINE before == SubSeq(s, 1, p)
            after  == SubSeq(s, q + 1, Len(s))
<1>1. Len(s) \in Nat
  BY LenProperties
<1>2. before \in Seq(Chars) /\ Len(before) = p
  BY SubSeqTyped
<1>3. after \in Seq(Chars) /\ Len(after) \in Nat
  BY <1>1, SubSeqTyped, LenProperties
<1>4. Erase(s, p, q) = before \o after
  BY DEF Erase
<1>. HIDE DEF before, after
<1>. QED
  BY <1>2, <1>3, <1>4, ConcatProperties

LEMMA InsertProperties ==
  ASSUME NEW s \in Seq(Chars), NEW p \in Nat, p <= Len(s), NEW new \in Seq(Chars)
  PROVE  /\ Insert(s, p, new) \in Seq(Chars)
         /\ p + Len(new) <= Len(Insert(s, p, new))
<1>. DEFINE before == SubSeq(s, 1, p)
            after  == SubSeq(s, p + 1, Len(s))
<1>1. Len(s) \in Nat /\ Len(new) \in Nat
  BY LenProperties
<1>2. before \in Seq(Chars) /\ Len(before) = p
  BY SubSeqTyped
<1>3. after \in Seq(Chars) /\ Len(after) \in Nat
  BY <1>1, SubSeqTyped, LenProperties
<1>4. Insert(s, p, new) = (before \o new) \o after
  BY DEF Insert
<1>. HIDE DEF before, after
<1>5. before \o new \in Seq(Chars) /\ Len(before \o new) = p + Len(new)
  BY <1>2, ConcatProperties
<1>. QED
  BY <1>1, <1>3, <1>4, <1>5, ConcatProperties
------------------------------------------------------------------------------
(***************************************************************************)
(* Keys that end the selection.                                            *)
(***************************************************************************)
LEMMA RedrawNothing ==
  ASSUME IInv, NoSelection, Redraw
  PROVE  /\ fate' = "up" /\ ~HasSelection'
         /\ {selectionStart, selectionEnd, selectionStartOrdered,
             selectionEndOrdered}' \subseteq Positions
  BY DEF IInv, TypeOK, NoSelection, Redraw, Ordered, HasSelection, Npos,
         Positions

(* What a key has to establish when it ends the selection.                  *)
LEMMA EditKeeps ==
  ASSUME IInv, NoSelection, Redraw,
         UNCHANGED <<commandHistory, stale>>,
         line' \in Seq(Chars), clipboard' \in Seq(Chars),
         cursorPos' \in Positions, InLine(cursorPos)' \/ stale,
         currentCommand' \in -1 .. Len(commandHistory) - 1
  PROVE  IInv'
<1>1. TypeOK'
  BY RedrawNothing DEF IInv, TypeOK
<1>2. SelectionInv'
  BY RedrawNothing DEF IInv, SelectionInv, NoSelection
<1>. QED
  BY <1>1, <1>2 DEF IInv

(* The cursor where the filter lets a key through.                          *)
LEMMA PressedCursor ==
  ASSUME IInv, Pressed
  PROVE  /\ cursorPos \in Nat /\ Len(line) \in Nat
         /\ InLine(cursorPos) \/ stale
  BY LenProperties DEF IInv, TypeOK, SelectionInv, Pressed, FilterThrows,
     Positions, Npos, InLine

LEMMA MovesKeep ==
  ASSUME IInv, CtrlLeft \/ CtrlRight \/ Home \/ End \/ Left \/ Right
  PROVE  IInv'
<1>. USE DEF IInv
<1>1. Move /\ Pressed
  BY DEF CtrlLeft, CtrlRight, Home, End, Left, Right
<1>2. /\ cursorPos \in Nat /\ Len(line) \in Nat
      /\ InLine(cursorPos) \/ stale
  BY <1>1, PressedCursor
<1>3. line' = line /\ clipboard' = clipboard
  BY <1>1 DEF Move
<1>4. cursorPos' \in Positions /\ (InLine(cursorPos)' \/ stale)
  <2>. USE DEF Positions, InLine
  <2>1. CASE CtrlLeft
    BY <1>2, <1>3, <2>1 DEF CtrlLeft
  <2>2. CASE CtrlRight
    BY <1>2, <1>3, <2>2 DEF CtrlRight
  <2>3. CASE Home \/ End
    BY <1>2, <1>3, <2>3 DEF Home, End
  <2>4. CASE Left
    BY <1>2, <1>3, <2>4 DEF Left, TypeOK, SelectionInv
  <2>5. CASE Right
    BY <1>2, <1>3, <2>5 DEF Right, TypeOK, SelectionInv, orderedVars, Ordered,
                           Npos
  <2>. QED
    BY <2>1, <2>2, <2>3, <2>4, <2>5
<1>. QED
  BY <1>1, <1>3, <1>4, EditKeeps DEF Move, histVars, TypeOK

LEMMA HistoryKeeps ==
  ASSUME IInv, Up \/ Down
  PROVE  IInv'
<1>. USE DEF IInv, TypeOK
<1>1. Len(commandHistory) \in Nat
  BY LenProperties
<1>2. currentCommand' \in -1 .. Len(commandHistory) - 1
  BY <1>1 DEF Up, Down
<1>3. line' \in Seq(Chars)
  <2>1. \A i \in 1 .. Len(commandHistory) : commandHistory[i] \in Seq(Chars)
    BY ElementOfSeq
  <2>2. CASE Up
    BY <1>1, <2>1, <2>2 DEF Up
  <2>3. CASE Down
    <3>1. CASE currentCommand > 0
      BY <1>1, <2>1, <2>3, <3>1 DEF Down
    <3>2. CASE ~(currentCommand > 0)
      <4>1. line' = line \/ line' = <<>>
        BY <1>1, <2>3, <3>2 DEF Down
      <4>. QED
        BY <4>1, EmptySeq
    <3>. QED
      BY <3>1, <3>2
  <2>. QED
    BY <2>2, <2>3
<1>4. cursorPos' \in Positions /\ InLine(cursorPos)'
  BY <1>3, LenProperties DEF Up, Down, Positions, InLine
<1>. QED
  BY <1>2, <1>3, <1>4, EditKeeps DEF Up, Down

LEMMA EraseSelectionKeeps ==
  ASSUME IInv, EraseSelection
  PROVE  /\ line' \in Seq(Chars) /\ cursorPos' \in Positions
         /\ InLine(cursorPos)' /\ Selected \in Seq(Chars)
<1>1. /\ line \in Seq(Chars) /\ Len(line) \in Nat
      /\ selectionStartOrdered \in Nat /\ selectionStartOrdered <= Len(line)
      /\ selectionEndOrdered \in Nat
  BY LenProperties DEF IInv, TypeOK, EraseSelection, HasSelection, Outside,
                       Positions, Npos
<1>2. line' \in Seq(Chars) /\ selectionStartOrdered <= Len(line')
  BY <1>1, EraseProperties DEF EraseSelection
<1>3. Selected \in Seq(Chars)
  BY <1>1, SubSeqTyped DEF Selected
<1>. QED
  BY <1>1, <1>2, <1>3, LenProperties DEF EraseSelection, Positions, InLine

LEMMA EditsKeep ==
  ASSUME IInv, \/ Backspace \/ Delete \/ CtrlBackspace \/ CtrlDelete
               \/ (\E ch \in Chars : Type(ch)) \/ OtherKey
  PROVE  IInv'
<1>. USE DEF IInv, TypeOK
<1>1. Edit /\ clipboard' = clipboard
  BY DEF Backspace, Delete, CtrlBackspace, CtrlDelete, Type, OtherKey
<1>2. Len(line) \in Nat
  BY LenProperties
<1>3. /\ line' \in Seq(Chars) /\ cursorPos' \in Positions
      /\ InLine(cursorPos)' \/ stale
  <2>. USE DEF InLine, Positions, Npos
  <2>1. CASE Backspace
    <3>1. CASE EraseSelection
      BY <3>1, EraseSelectionKeeps
    <3>2. CASE /\ ~HasSelection /\ cursorPos > 0 /\ ~Outside(cursorPos - 1)
               /\ line' = Erase(line, cursorPos - 1, cursorPos)
               /\ cursorPos' = cursorPos - 1
      <4>1. cursorPos - 1 \in Nat /\ cursorPos - 1 <= Len(line)
        BY <1>2, <3>2 DEF Outside
      <4>2. line' \in Seq(Chars) /\ cursorPos - 1 <= Len(line')
        BY <3>2, <4>1, EraseProperties
      <4>. QED
        BY <3>2, <4>1, <4>2, LenProperties
    <3>3. CASE ~HasSelection /\ cursorPos = 0 /\ UNCHANGED textVars
      BY <1>2, <3>3 DEF textVars
    <3>. QED
      BY <2>1, <3>1, <3>2, <3>3 DEF Backspace
  <2>2. CASE Delete
    <3>1. CASE EraseSelection
      BY <3>1, EraseSelectionKeeps
    <3>2. cursorPos \in Nat /\ (InLine(cursorPos) \/ stale)
      BY <2>2, PressedCursor DEF Delete
    <3>3. CASE /\ UNCHANGED cursorPos
               /\ line' = IF cursorPos < Len(line)
                          THEN Erase(line, cursorPos, cursorPos + 1) ELSE line
      <4>1. CASE cursorPos < Len(line)
        <5>1. line' \in Seq(Chars) /\ cursorPos <= Len(line')
          BY <1>2, <3>2, <3>3, <4>1, EraseProperties
        <5>. QED
          BY <3>2, <3>3, <5>1, LenProperties
      <4>2. CASE ~(cursorPos < Len(line))
        BY <1>2, <3>2, <3>3, <4>2
      <4>. QED
        BY <4>1, <4>2
    <3>. QED
      BY <2>2, <3>1, <3>3 DEF Delete
  <2>3. CASE CtrlBackspace
    <3>1. cursorPos \in Nat
      BY <2>3, PressedCursor DEF CtrlBackspace
    <3>2. PICK p \in 0 .. cursorPos :
            /\ cursorPos > 0 => ~Outside(p)
            /\ line' = Erase(line, p, cursorPos)
            /\ cursorPos' = p
      BY <2>3 DEF CtrlBackspace
    <3>3. p \in Nat /\ p <= Len(line)
      BY <1>2, <3>1, <3>2 DEF Outside
    <3>4. line' \in Seq(Chars) /\ p <= Len(line')
      BY <3>1, <3>2, <3>3, EraseProperties
    <3>. QED
      BY <3>2, <3>3, <3>4, LenProperties
  <2>4. CASE CtrlDelete
    <3>1. cursorPos \in Nat /\ (InLine(cursorPos) \/ stale)
      BY <2>4, PressedCursor DEF CtrlDelete
    <3>2. CASE UNCHANGED line
      BY <1>2, <2>4, <3>1, <3>2 DEF CtrlDelete
    <3>3. ASSUME NEW p \in cursorPos + 1 .. Len(line),
                 line' = Erase(line, cursorPos, p)
          PROVE  /\ line' \in Seq(Chars) /\ cursorPos' \in Positions
                 /\ InLine(cursorPos)' \/ stale
      <4>1. line' \in Seq(Chars) /\ cursorPos <= Len(line')
        BY <1>2, <3>1, <3>3, EraseProperties
      <4>. QED
        BY <2>4, <3>1, <4>1, LenProperties DEF CtrlDelete
    <3>. QED
      BY <2>4, <3>2, <3>3 DEF CtrlDelete
  <2>5. CASE \E ch \in Chars : Type(ch)
    <3>1. PICK ch \in Chars : Type(ch)
      BY <2>5
    <3>2. cursorPos \in Nat /\ (InLine(cursorPos) \/ stale)
      BY <3>1, PressedCursor DEF Type
    <3>3. /\ ~Outside(cursorPos)
          /\ line' = Insert(line, cursorPos, <<ch>>)
          /\ cursorPos' = cursorPos + 1
      BY <3>1 DEF Type
    <3>4. <<ch>> \in Seq(Chars) /\ Len(<<ch>>) = 1
      OBVIOUS
    <3>5. cursorPos <= Len(line)
      BY <1>2, <3>2, <3>3 DEF Outside
    <3>6. /\ Insert(line, cursorPos, <<ch>>) \in Seq(Chars)
          /\ cursorPos + Len(<<ch>>) <= Len(Insert(line, cursorPos, <<ch>>))
      BY <3>2, <3>4, <3>5, InsertProperties
    <3>7. line' \in Seq(Chars) /\ cursorPos + 1 <= Len(line')
      BY <3>3, <3>4, <3>6
    <3>. QED
      BY <3>2, <3>3, <3>7, LenProperties
  <2>6. CASE OtherKey
    <3>1. cursorPos \in Nat /\ (InLine(cursorPos) \/ stale)
      BY <2>6, PressedCursor DEF OtherKey
    <3>. QED
      BY <1>2, <2>6, <3>1 DEF OtherKey, textVars
  <2>. QED
    BY <2>1, <2>2, <2>3, <2>4, <2>5, <2>6
<1>. QED
  BY <1>1, <1>3, EditKeeps DEF Edit, histVars
------------------------------------------------------------------------------
(***************************************************************************)
(* Keys that keep, make or use a selection.                                *)
(***************************************************************************)

(* Drawing a selection that lies in the line.                               *)
LEMMA RedrawKeeps ==
  ASSUME IInv, Redraw,
         UNCHANGED <<line, clipboard, histVars>>,
         cursorPos' \in Positions,
         selectionStart' \in Positions, selectionEnd' \in Positions,
         stale' \in BOOLEAN,
         \/ stale'
         \/ /\ ~stale /\ InLine(cursorPos)'
            /\ selectionStart' # Npos =>
                 InLine(selectionStart)' /\ InLine(selectionEnd)'
  PROVE  IInv'
<1>. USE DEF IInv, TypeOK, Redraw, Ordered, Positions, Npos
<1>1. TypeOK'
  BY DEF histVars
<1>2. SelectionInv'
  BY LenProperties DEF SelectionInv, InLine, HasSelection, orderedVars
<1>. QED
  BY <1>1, <1>2

LEMMA UntouchedKeeps ==
  ASSUME IInv, Untouched
  PROVE  IInv'
BY RedrawKeeps
   DEF Untouched, IInv, TypeOK, SelectionInv, textVars, selVars, InLine

LEMMA SelectingKeeps ==
  ASSUME IInv, ShiftLeft \/ ShiftRight \/ CtrlA
  PROVE  IInv'
<1>. USE DEF IInv, TypeOK, SelectionInv, Positions, InLine
<1>1. Pressed /\ Redraw /\ UNCHANGED <<line, clipboard, histVars>>
  BY DEF ShiftLeft, ShiftRight, CtrlA, Select, textVars
<1>2. /\ cursorPos \in Nat /\ Len(line) \in Nat
      /\ InLine(cursorPos) \/ stale
  BY <1>1, PressedCursor
<1>3. CASE CtrlA
  BY <1>1, <1>2, <1>3, RedrawKeeps DEF CtrlA, textVars
<1>4. CASE ShiftLeft
  <2>1. cursorPos' \in Nat /\ selectionStart' \in Positions
          /\ selectionEnd' \in Positions /\ stale' \in BOOLEAN
    BY <1>2, <1>4 DEF ShiftLeft, Select
  <2>2. CASE ~stale'
    <3>1. line' = line /\ ~stale
      BY <1>1, <1>4, <2>2 DEF ShiftLeft, Select
    <3>2. InLine(cursorPos)' /\ InLine(selectionStart)'
      BY <1>2, <1>4, <3>1 DEF ShiftLeft, Select
    <3>3. InLine(selectionEnd)'
      <4>1. CASE cursorPos = 0
        BY <1>4, <2>2, <3>1, <4>1 DEF ShiftLeft, Select
      <4>2. CASE ~(cursorPos = 0)
        BY <1>2, <1>4, <3>1, <4>2 DEF ShiftLeft, Select
      <4>. QED
        BY <4>1, <4>2
    <3>. QED
      BY <1>1, <2>1, <3>1, <3>2, <3>3, RedrawKeeps
  <2>. QED
    BY <1>1, <2>1, <2>2, RedrawKeeps
<1>5. CASE ShiftRight
  <2>1. cursorPos' \in Nat /\ selectionStart' \in Positions
          /\ selectionEnd' \in Positions /\ stale' \in BOOLEAN
    BY <1>2, <1>5 DEF ShiftRight, Select
  <2>2. CASE ~stale'
    <3>1. line' = line /\ ~stale
      BY <1>1, <1>5, <2>2 DEF ShiftRight, Select
    <3>2. InLine(cursorPos)' /\ InLine(selectionStart)'
      BY <1>2, <1>5, <3>1 DEF ShiftRight, Select
    <3>3. InLine(selectionEnd)'
      <4>1. CASE cursorPos >= Len(line)
        BY <1>5, <2>2, <3>1, <4>1 DEF ShiftRight, Select
      <4>2. CASE ~(cursorPos >= Len(line))
        BY <1>2, <1>5, <3>1, <4>2 DEF ShiftRight, Select
      <4>. QED
        BY <4>1, <4>2
    <3>. QED
      BY <1>1, <2>1, <3>1, <3>2, <3>3, RedrawKeeps
  <2>. QED
    BY <1>1, <2>1, <2>2, RedrawKeeps
<1>. QED
  BY <1>3, <1>4, <1>5

LEMMA ClipboardKeeps ==
  ASSUME IInv, CtrlX \/ CtrlC \/ CtrlV
  PROVE  IInv'
<1>. USE DEF IInv, TypeOK
<1>1. CASE Untouched
  BY <1>1, UntouchedKeeps
<1>2. CASE Pressed /\ EraseSelection /\ clipboard' = Selected /\ Edit
  BY <1>2, EraseSelectionKeeps, EditKeeps DEF Edit, histVars
<1>3. CASE /\ Pressed /\ HasSelection /\ ~Outside(selectionStartOrdered)
           /\ clipboard' = Selected
           /\ Edit /\ UNCHANGED textVars
  <2>1. Selected \in Seq(Chars)
    <3>1. /\ selectionStartOrdered \in Nat /\ selectionEndOrdered \in Nat
          /\ Len(line) \in Nat
      BY <1>3, LenProperties DEF HasSelection, Positions, Npos
    <3>. QED
      BY <3>1, SubSeqTyped DEF Selected
  <2>2. cursorPos' \in Positions /\ (InLine(cursorPos)' \/ stale)
    BY <1>3, PressedCursor DEF textVars, InLine
  <2>. QED
    BY <1>3, <2>1, <2>2, EditKeeps DEF Edit, textVars, histVars
<1>4. CASE /\ Pressed /\ ~Outside(cursorPos)
           /\ line' = Insert(line, cursorPos, clipboard)
           /\ cursorPos' = cursorPos + Len(clipboard)
           /\ Edit /\ UNCHANGED clipboard
  <2>1. cursorPos \in Nat /\ cursorPos <= Len(line)
    BY <1>4, PressedCursor DEF Outside
  <2>2. line' \in Seq(Chars) /\ cursorPos + Len(clipboard) <= Len(line')
    BY <1>4, <2>1, InsertProperties
  <2>3. cursorPos' \in Positions /\ InLine(cursorPos)'
    BY <1>4, <2>1, <2>2, LenProperties DEF Positions, InLine
  <2>. QED
    BY <1>4, <2>2, <2>3, EditKeeps DEF Edit, histVars
<1>. QED
  BY <1>1, <1>2, <1>3, <1>4 DEF CtrlX, CtrlC, CtrlV
------------------------------------------------------------------------------
(***************************************************************************)
(* Completion, and the end of a line or of the process.                    *)
(***************************************************************************)
LEMMA LinesTyped == Lines \subseteq Seq(Chars)
<1>1. ASSUME NEW c \in Commands, NEW param \in SecParam[c]
      PROVE  c \o <<Space>> \o param \in Seq(Chars)
  <2>1. c \in Seq(Chars) /\ <<Space>> \in Seq(Chars) /\ param \in Seq(Chars)
    BY EditorAssumption
  <2>2. c \o <<Space>> \in Seq(Chars)
    BY <2>1, ConcatProperties
  <2>. QED
    BY <2>1, <2>2, ConcatProperties
<1>2. CASE HasSpace
  <2>1. ASSUME NEW f \in Lines PROVE f \in Seq(Chars)
    <3>1. PICK c \in Typed : f \in {c \o <<Space>> \o param : param \in SecParam[c]}
      BY <1>2, <2>1 DEF Lines
    <3>. QED
      BY <1>1, <3>1 DEF Typed
  <2>. QED
    BY <2>1
<1>. QED
  BY <1>2, EditorAssumption DEF Lines

LEMMA UnchangedKeeps ==
  ASSUME IInv, UNCHANGED vars
  PROVE  IInv'
BY DEF IInv, TypeOK, SelectionInv, InLine, HasSelection, vars, textVars,
       selVars, orderedVars, histVars

LEMMA TabKeeps ==
  ASSUME IInv, Tab
  PROVE  IInv'
<1>. USE DEF IInv, TypeOK
<1>1. CASE UNCHANGED vars
  BY <1>1, UnchangedKeeps
<1>2. CASE /\ \/ Matches = {} /\ line' = line
              \/ \E f \in Matches : Matches = {f} /\ line' = Append(f, Space)
              \/ line' \in Longest(CommonPrefixes(Matches))
           /\ cursorPos' = Len(line')
           /\ Edit /\ UNCHANGED clipboard
  <2>1. \A f \in Matches : f \in Seq(Chars)
    BY LinesTyped DEF Matches
  <2>2. line' \in Seq(Chars)
    <3>1. ASSUME NEW f \in Matches PROVE Append(f, Space) \in Seq(Chars)
      BY <2>1, AppendProperties, EditorAssumption
    <3>2. ASSUME NEW f \in Matches, NEW n \in 0 .. Len(f)
          PROVE  SubSeq(f, 1, n) \in Seq(Chars)
      BY <2>1, SubSeqTyped, LenProperties
    <3>3. ASSUME NEW prefix \in CommonPrefixes(Matches)
          PROVE  prefix \in Seq(Chars)
      <4>1. PICK f \in Matches : prefix \in Prefixes(f)
        BY <3>3 DEF CommonPrefixes
      <4>. QED
        BY <3>2, <4>1 DEF Prefixes
    <3>. QED
      BY <1>2, <3>1, <3>3 DEF Longest
  <2>3. cursorPos' \in Positions /\ InLine(cursorPos)'
    BY <1>2, <2>2, LenProperties DEF Positions, InLine
  <2>. QED
    BY <1>2, <2>2, <2>3, EditKeeps DEF Edit, histVars
<1>. QED
  BY <1>1, <1>2 DEF Tab

LEMMA EnterKeeps ==
  ASSUME IInv, Enter
  PROVE  IInv'
<1>. USE DEF IInv, TypeOK, Enter, selVars, orderedVars, histVars
<1>1. Len(commandHistory) \in Nat
  BY LenProperties
<1>2. /\ Append(commandHistory, line) \in Seq(Seq(Chars))
      /\ Len(Append(commandHistory, line)) = Len(commandHistory) + 1
  BY AppendProperties
<1>3. line' \in Seq(Chars) /\ Len(line') = 0
  BY EmptySeq
<1>4. /\ commandHistory' \in Seq(Seq(Chars))
      /\ currentCommand' \in -1 .. Len(commandHistory') - 1
  <2>1. CASE line = <<>>
    BY <2>1
  <2>2. CASE line # <<>>
    <3>1. commandHistory' = Append(commandHistory, line) /\ currentCommand' = -1
      BY <2>2
    <3>. QED
      BY <1>1, <1>2, <3>1
  <2>. QED
    BY <2>1, <2>2
<1>5. TypeOK'
  BY <1>3, <1>4 DEF Positions
<1>6. SelectionInv'
  <2>1. CASE stale
    BY <2>1 DEF SelectionInv
  <2>2. CASE ~stale
    <3>1. CASE selectionStart # Npos
      BY <3>1 DEF SelectionInv
    <3>2. CASE selectionStart = Npos
      BY <1>3, <2>2, <3>2 DEF SelectionInv, InLine, HasSelection
    <3>. QED
      BY <3>1, <3>2
  <2>. QED
    BY <2>1, <2>2
<1>. QED
  BY <1>5, <1>6

(* The guard of Throws holds of no state without a stale selection.         *)
LEMMA ThrowsOnlyIfStale ==
  ASSUME IInv, Throws
  PROVE  stale
<1>. SUFFICES ASSUME ~stale PROVE FALSE
  OBVIOUS
<1>1. /\ cursorPos \in Nat /\ Len(line) \in Nat /\ cursorPos <= Len(line)
      /\ HasSelection => selectionStartOrdered \in 0 .. Len(line)
  BY LenProperties DEF IInv, TypeOK, SelectionInv, InLine, HasSelection,
                       orderedVars, Ordered, Npos
<1>. QED
  BY <1>1 DEF Throws, FilterThrows, Outside, Npos

LEMMA ThrowsKeeps ==
  ASSUME IInv, Throws
  PROVE  IInv'
BY ThrowsOnlyIfStale
   DEF IInv, TypeOK, SelectionInv, Throws, textVars, selVars, orderedVars,
       histVars

LEMMA Initially == Init => IInv
<1>. SUFFICES ASSUME Init PROVE IInv
  OBVIOUS
<1>1. /\ line \in Seq(Chars) /\ clipboard \in Seq(Chars) /\ Len(line) = 0
      /\ commandHistory \in Seq(Seq(Chars)) /\ Len(commandHistory) = 0
  BY EmptySeq DEF Init
<1>2. TypeOK
  <2>1. currentCommand \in -1 .. Len(commandHistory) - 1
    BY <1>1 DEF Init
  <2>2. {cursorPos, selectionStart, selectionEnd, selectionStartOrdered,
         selectionEndOrdered} \subseteq Positions
    BY DEF Init, Positions, Npos
  <2>. QED
    BY <1>1, <2>1, <2>2 DEF Init, TypeOK
<1>3. SelectionInv
  BY <1>1 DEF Init, SelectionInv, InLine, Npos
<1>. QED
  BY <1>2, <1>3 DEF IInv

LEMMA Invariance == Spec => []IInv
<1>1. IInv /\ [Next]_vars => IInv'
  BY MovesKeep, HistoryKeeps, EditsKeep, SelectingKeeps, ClipboardKeeps,
     TabKeeps, EnterKeeps, ThrowsKeeps, UnchangedKeeps DEF Next
<1>. QED
  BY <1>1, Initially, PTL DEF Spec

(* Every variable keeps its type; KEY_UP and KEY_DOWN only show entries the *)
(* history has.                                                             *)
THEOREM TypeCorrect == Spec => []TypeOK
<1>1. IInv => TypeOK
  BY DEF IInv
<1>. QED
  BY <1>1, Invariance, PTL

(* No sequence of keys takes the editor outside its line unless a selection *)
(* was begun at the edge of a line or kept when a line was entered.         *)
THEOREM SafeUnlessStale == Spec => []EditorSafe
<1>1. IInv => EditorSafe
  BY LenProperties DEF IInv, TypeOK, SelectionInv, EditorSafe, InLine,
     HasSelection, orderedVars, Ordered, Npos
<1>. QED
  BY <1>1, Invariance, PTL
------------------------------------------------------------------------------
(***************************************************************************)
(* What Ctrl+X and Tab do to the line.                                     *)
(***************************************************************************)

(* Whatever is stale, the ordered pair is in order.                         *)
OrderedInv == HasSelection => selectionStartOrdered <= selectionEndOrdered

LEMMA OrderedStep == IInv /\ IInv' /\ OrderedInv /\ [Next]_vars => OrderedInv'
<1>. SUFFICES ASSUME IInv, IInv', OrderedInv, [Next]_vars PROVE OrderedInv'
  OBVIOUS
<1>1. Redraw \/ UNCHANGED orderedVars
  BY DEF Next, CtrlLeft, CtrlRight, Home, End, Left, Right, Up, Down, ShiftLeft,
         ShiftRight, Select, CtrlA, CtrlX, CtrlC, CtrlV, Backspace, Delete,
         CtrlBackspace, CtrlDelete, Type, OtherKey, Tab, Enter, Throws, Untouched, Move, Edit,
         vars, orderedVars
<1>2. CASE UNCHANGED orderedVars
  BY <1>2 DEF orderedVars, OrderedInv, HasSelection
<1>3. CASE Redraw
  BY <1>3 DEF IInv, TypeOK, Redraw, Ordered, OrderedInv, HasSelection, Positions, Npos
<1>. QED
  BY <1>1, <1>2, <1>3

LEMMA OrderedInvariance == Spec => []OrderedInv
<1>1. Init => OrderedInv
  BY DEF Init, OrderedInv
<1>. QED
  BY <1>1, OrderedStep, Invariance, PTL DEF Spec

LEMMA ConcatParts ==
  ASSUME NEW s \in Seq(Chars), NEW t \in Seq(Chars)
  PROVE  /\ SubSeq(s \o t, 1, Len(s)) = s
         /\ SubSeq(s \o t, Len(s) + 1, Len(s \o t)) = t
<1>. DEFINE u == s \o t  m == Len(s)  n == Len(t)
<1>1. m \in Nat /\ n \in Nat
  BY LenProperties
<1>2. /\ u \in Seq(Chars) /\ Len(u) = m + n
      /\ \A i \in 1 .. m + n : u[i] = IF i <= m THEN s[i] ELSE t[i - m]
  BY ConcatProperties
<1>3. \A i \in 1 .. m + n : u[i] \in Chars
  BY <1>2, ElementOfSeq
<1>. HIDE DEF u
<1>4. SubSeq(u, 1, m) = s
  <2>1. \A i \in 1 .. m : u[i] \in Chars /\ u[i] = s[i]
    BY <1>1, <1>2, <1>3
  <2>2. /\ SubSeq(u, 1, m) \in Seq(Chars) /\ Len(SubSeq(u, 1, m)) = m
        /\ \A i \in 1 .. m : SubSeq(u, 1, m)[i] = u[1 + i - 1]
    <3>1. /\ SubSeq(u, 1, m) \in Seq(Chars)
          /\ Len(SubSeq(u, 1, m)) = IF 1 <= m THEN m - 1 + 1 ELSE 0
          /\ \A i \in 1 .. m - 1 + 1 : SubSeq(u, 1, m)[i] = u[1 + i - 1]
      BY <1>1, <2>1, SubSeqProperties
    <3>. QED
      BY <1>1, <3>1
  <2>3. \A i \in 1 .. m : SubSeq(u, 1, m)[i] = s[i]
    BY <1>1, <2>1, <2>2
  <2>. QED
    BY <2>2, <2>3, SeqEqual
<1>5. SubSeq(u, m + 1, m + n) = t
  <2>1. \A i \in m + 1 .. m + n : u[i] \in Chars
    BY <1>1, <1>3
  <2>2. /\ SubSeq(u, m + 1, m + n) \in Seq(Chars)
        /\ Len(SubSeq(u, m + 1, m + n)) = n
        /\ \A i \in 1 .. n : SubSeq(u, m + 1, m + n)[i] = u[(m + 1) + i - 1]
    <3>1. /\ SubSeq(u, m + 1, m + n) \in Seq(Chars)
          /\ Len(SubSeq(u, m + 1, m + n)) =
               IF m + 1 <= m + n THEN (m + n) - (m + 1) + 1 ELSE 0
          /\ \A i \in 1 .. (m + n) - (m + 1) + 1 :
               SubSeq(u, m + 1, m + n)[i] = u[(m + 1) + i - 1]
      BY <1>1, <2>1, SubSeqProperties
    <3>. QED
      BY <1>1, <3>1
  <2>3. ASSUME NEW i \in 1 .. n PROVE SubSeq(u, m + 1, m + n)[i] = t[i]
    <3>1. /\ (m + 1) + i - 1 = m + i /\ m + i \in 1 .. m + n
          /\ ~(m + i <= m) /\ (m + i) - m = i
      BY <1>1
    <3>. QED
      BY <1>2, <2>2, <3>1
  <2>. QED
    BY <2>2, <2>3, SeqEqual
<1>. QED
  BY <1>2, <1>4, <1>5 DEF u

(* Putting back at p what was taken out from p to q.                        *)
LEMMA InsertErased ==
  ASSUME NEW s \in Seq(Chars), NEW p \in Nat, NEW q \in Nat, p <= q, p <= Len(s)
  PROVE  Insert(Erase(s, p, q), p,
                SubSeq(s, p + 1, IF q < Len(s) THEN q ELSE Len(s))) = s
<1>. DEFINE n == Len(s)  e == IF q < n THEN q ELSE n
            before == SubSeq(s, 1, p)  cut == SubSeq(s, p + 1, e)
            after == SubSeq(s, e + 1, n)
<1>1. n \in Nat /\ e \in Nat /\ p <= e /\ e <= n
  BY LenProperties
<1>2. SubSeq(s, q + 1, n) = after
  <2>1. CASE q < n
    BY <2>1
  <2>2. CASE ~(q < n)
    BY <1>1, <2>2, SubSeqEmpty
  <2>. QED
    BY <2>1, <2>2
<1>3. before \in Seq(Chars) /\ Len(before) = p
  BY <1>1, SubSeqTyped
<1>4. after \in Seq(Chars) /\ cut \in Seq(Chars)
  BY <1>1, SubSeqTyped
<1>5. before \o cut = SubSeq(s, 1, e)
  <2>1. 1 \in 1 .. n + 1 /\ p \in 1 - 1 .. n /\ e \in p .. n
    BY <1>1
  <2>. QED
    BY <2>1, ConcatAdjacentSubSeq
<1>6. SubSeq(s, 1, e) \o after = s
  <2>1. 1 \in 1 .. n + 1 /\ e \in 1 - 1 .. n /\ n \in e .. n
    BY <1>1
  <2>2. SubSeq(s, 1, e) \o after = SubSeq(s, 1, n)
    BY <2>1, ConcatAdjacentSubSeq
  <2>. QED
    BY <2>2, SubSeqFull
<1>7. Erase(s, p, q) = before \o after
  BY <1>2 DEF Erase
<1>. HIDE DEF before, cut, after, e, n
<1>8. /\ SubSeq(before \o after, 1, p) = before
      /\ SubSeq(before \o after, p + 1, Len(before \o after)) = after
  BY <1>3, <1>4, ConcatParts
<1>9. Insert(before \o after, p, cut) = (before \o cut) \o after
  BY <1>8 DEF Insert
<1>10. Insert(Erase(s, p, q), p, cut) = s
  BY <1>5, <1>6, <1>7, <1>9
<1>. QED
  BY <1>10 DEF cut, e, n

(* CutThenPasteRestores holds, for any line and any selection.              *)
THEOREM CutAndPaste == Spec => CutThenPasteRestores
<1>1. ASSUME IInv, OrderedInv, line' # line, CtrlX
      PROVE  Insert(line', cursorPos', clipboard') = line
  <2>1. EraseSelection /\ clipboard' = Selected
    BY <1>1 DEF CtrlX, Untouched, textVars
  <2>2. /\ line \in Seq(Chars) /\ Len(line) \in Nat
        /\ selectionStartOrdered \in Nat /\ selectionEndOrdered \in Nat
        /\ selectionStartOrdered <= selectionEndOrdered
        /\ selectionStartOrdered <= Len(line)
    BY <1>1, <2>1, LenProperties
       DEF IInv, TypeOK, OrderedInv, EraseSelection, HasSelection, Outside, Positions, Npos
  <2>. QED
    BY <2>1, <2>2, InsertErased DEF EraseSelection, Selected
<1>. QED
  BY <1>1, OrderedInvariance, Invariance, PTL DEF Spec, CutThenPasteRestores

LEMMA PrefixElements ==
  ASSUME NEW s \in Seq(Chars), NEW t \in Seq(Chars)
  PROVE  IsPrefix(s, t) <=> Len(s) <= Len(t) /\ \A i \in 1 .. Len(s) : s[i] = t[i]
<1>. DEFINE m == Len(s)
<1>1. m \in Nat /\ Len(t) \in Nat
  BY LenProperties
<1>2. SubSeq(s, 1, m) = s
  BY SubSeqFull
<1>3. ASSUME m <= Len(t)
      PROVE  SubSeq(t, 1, m) = s <=> \A i \in 1 .. m : s[i] = t[i]
  <2>1. \A i \in 1 .. m : t[i] \in Chars
    BY <1>1, <1>3, ElementOfSeq
  <2>2. /\ SubSeq(t, 1, m) \in Seq(Chars)
        /\ Len(SubSeq(t, 1, m)) = IF 1 <= m THEN m - 1 + 1 ELSE 0
        /\ \A i \in 1 .. m - 1 + 1 : SubSeq(t, 1, m)[i] = t[1 + i - 1]
    BY <1>1, <2>1, SubSeqProperties
  <2>3. Len(SubSeq(t, 1, m)) = m /\ \A i \in 1 .. m : SubSeq(t, 1, m)[i] = t[i]
    BY <1>1, <2>2
  <2>4. ASSUME \A i \in 1 .. m : s[i] = t[i] PROVE SubSeq(t, 1, m) = s
    <3>1. \A i \in 1 .. m : SubSeq(t, 1, m)[i] = s[i]
      BY <2>3, <2>4
    <3>. QED
      BY <2>2, <2>3, <3>1, SeqEqual
  <2>. QED
    BY <2>3, <2>4
<1>. QED
  BY <1>2, <1>3 DEF IsPrefix

(* CompletionExtends holds, for any table of commands and parameters.       *)
THEOREM Completion == Spec => CompletionExtends
<1>1. ASSUME IInv, Tab PROVE IsPrefix(line, line')
  <2>1. line \in Seq(Chars) /\ Len(line) \in Nat
    BY <1>1, LenProperties DEF IInv, TypeOK
  <2>0. IInv'
    BY <1>1, TabKeeps
  <2>2. CASE line' = line
    BY <2>1, <2>2 DEF IsPrefix
  <2>3. ASSUME NEW f \in Matches, line' = Append(f, Space) PROVE IsPrefix(line, line')
    <3>1. IsPrefix(line, f) /\ f \in Seq(Chars) /\ Len(f) \in Nat
      BY LinesTyped, LenProperties DEF Matches
    <3>2. IsPrefix(f, line')
      <4>1. /\ Append(f, Space) = f \o <<Space>> /\ <<Space>> \in Seq(Chars)
        BY <3>1, EditorAssumption
      <4>2. SubSeq(f \o <<Space>>, 1, Len(f)) = f /\ Len(f \o <<Space>>) = Len(f) + 1
        BY <3>1, <4>1, ConcatParts, ConcatProperties
      <4>3. SubSeq(f, 1, Len(f)) = f
        BY <3>1, SubSeqFull
      <4>. QED
        BY <2>3, <3>1, <4>1, <4>2, <4>3 DEF IsPrefix
    <3>3. line' \in Seq(Chars)
      BY <2>3, <3>1, AppendProperties, EditorAssumption
    <3>4. /\ Len(line) <= Len(f) /\ \A i \in 1 .. Len(line) : line[i] = f[i]
          /\ Len(f) <= Len(line') /\ \A i \in 1 .. Len(f) : f[i] = line'[i]
      BY <2>1, <3>1, <3>2, <3>3, PrefixElements
    <3>5. Len(line) <= Len(line') /\ \A i \in 1 .. Len(line) : line[i] = line'[i]
      BY <2>1, <3>1, <3>3, <3>4, LenProperties
    <3>. QED
      BY <2>1, <3>3, <3>5, PrefixElements
  <2>4. ASSUME line' \in Longest(CommonPrefixes(Matches)), Matches # {}
        PROVE  IsPrefix(line, line')
    <3>1. PICK f \in Matches : TRUE
      BY <2>4
    <3>2. IsPrefix(line, f) /\ f \in Seq(Chars) /\ Len(f) \in Nat
      BY LinesTyped, LenProperties DEF Matches
    <3>3. line \in CommonPrefixes(Matches)
      <4>1. Len(line) \in 0 .. Len(f) /\ line = SubSeq(f, 1, Len(line))
        BY <2>1, <3>2, SubSeqFull DEF IsPrefix
      <4>2. line \in Prefixes(f)
        BY <4>1 DEF Prefixes
      <4>. QED
        BY <4>2 DEF CommonPrefixes, Matches
    <3>4. Len(line) <= Len(line') /\ line' \in CommonPrefixes(Matches)
      BY <2>4, <3>3 DEF Longest
    <3>5. IsPrefix(line', f)
      BY <3>4 DEF CommonPrefixes
    <3>6. line' \in Seq(Chars)
      BY <1>1, <2>0 DEF IInv, TypeOK
    <3>7. /\ \A i \in 1 .. Len(line) : line[i] = f[i]
          /\ \A i \in 1 .. Len(line') : line'[i] = f[i]
      BY <2>1, <3>2, <3>5, <3>6, PrefixElements
    <3>8. \A i \in 1 .. Len(line) : line[i] = line'[i]
      BY <2>1, <3>4, <3>6, <3>7, LenProperties
    <3>. QED
      BY <2>1, <3>4, <3>6, <3>8, PrefixElements
  <2>. QED
    BY <1>1, <2>2, <2>3, <2>4 DEF Tab, vars, textVars
<1>. QED
  BY <1>1, Invariance, PTL DEF Spec, CompletionExtends
==============================================================================
