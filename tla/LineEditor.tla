----------------------------- MODULE LineEditor -----------------------------
(***************************************************************************)
(* The command line of the admin console: ReadLine, FilterKey and          *)
(* ProcessKey of src/server/control/AdminConsole.cpp, one action per key.  *)
(*                                                                         *)
(* Positions are what they are in the code, 0 before the first character;  *)
(* Npos is std::string::npos.  An access outside the line throws           *)
(* std::out_of_range, which nothing catches: the process ends.             *)
(***************************************************************************)
EXTENDS Integers, SequencesExt

CONSTANTS
  Chars,      (* printable characters                                     *)
  Space,      (* the one that separates words                             *)
  Commands,   (* what the first word can be completed to                  *)
  SecParam,   (* SecParam[c]: what the second word after c can be         *)
  MaxLine,    (* COLS - prompt.size() - 1: typing stops here              *)
  MaxPaste,   (* bound: the longest line a paste makes                    *)
  MaxEntry,   (* bound: the longest line entered                          *)
  MaxHistory  (* bound: how many lines are entered                        *)

ASSUME EditorAssumption ==
  /\ Space \in Chars
  /\ Commands \subseteq Seq(Chars)
  /\ SecParam \in [Commands -> SUBSET Seq(Chars)]
  /\ MaxLine \in Nat /\ MaxPaste \in Nat /\ MaxEntry \in Nat /\ MaxHistory \in Nat

VARIABLES
  fate,           (* "up", or "threw"                                    *)
  line, cursorPos,
  selectionStart, selectionEnd,
  selectionStartOrdered, selectionEndOrdered,
  clipboard,
  commandHistory,
  currentCommand, (* the history entry shown, from the newest; or -1     *)
  stale           (* history: a selection was begun at the edge of the   *)
                  (* line, or was still there when the line was entered  *)

textVars    == <<line, cursorPos>>
selVars     == <<selectionStart, selectionEnd>>
orderedVars == <<selectionStartOrdered, selectionEndOrdered>>
histVars    == <<commandHistory, currentCommand>>
vars == <<fate, textVars, selVars, orderedVars, clipboard, histVars, stale>>

Npos == -1

\* InitVariables leaves the ordered pair at what a static starts with.
Init ==
  /\ fate = "up"
  /\ line = <<>> /\ cursorPos = 0
  /\ selectionStart = Npos /\ selectionEnd = Npos
  /\ selectionStartOrdered = 0 /\ selectionEndOrdered = 0
  /\ clipboard = <<>>
  /\ commandHistory = <<>> /\ currentCommand = -1
  /\ stale = FALSE
------------------------------------------------------------------------------
(***************************************************************************)
(* Strings.                                                                *)
(***************************************************************************)
Insert(text, p, new) == SubSeq(text, 1, p) \o new \o SubSeq(text, p + 1, Len(text))

\* Mutant: erases one character more.
EraseOneMore(text, p, q) == SubSeq(text, 1, p) \o SubSeq(text, q + 2, Len(text))

Erase(text, p, q) == SubSeq(text, 1, p) \o SubSeq(text, q + 1, Len(text))

\* substr, insert and erase throw there.
Outside(p) == p = Npos \/ p > Len(line)

\* From c back over spaces and then over a word one comes to p.
WordBefore(text, c, p) ==
  \E q \in p .. c :
    /\ \A i \in q + 1 .. c : text[i] = Space
    /\ \A i \in p + 1 .. q : text[i] # Space
    /\ q > 0 => text[q] # Space
    /\ p > 0 => text[p] = Space

\* From c on over a word and then over spaces one comes to p.
WordAfter(text, c, p) ==
  \E q \in c .. p :
    /\ \A i \in c + 1 .. q : text[i] # Space
    /\ \A i \in q + 1 .. p : text[i] = Space
    /\ q < Len(text) => text[q + 1] = Space
    /\ p < Len(text) => text[p + 1] # Space
------------------------------------------------------------------------------
(***************************************************************************)
(* What every key does first and last.                                     *)
(***************************************************************************)

\* FilterKey looks at the three characters before the cursor.
FilterThrows == cursorPos = Npos \/ cursorPos > Len(line) + 3

Pressed == fate = "up" /\ ~FilterThrows

HasSelection == selectionStartOrdered # Npos /\ selectionEndOrdered # Npos

\* As size_t, Npos is the greatest.
Ordered(s, e) ==
  IF e # Npos /\ (s = Npos \/ s > e) THEN <<e, s>> ELSE <<s, e>>

Redraw ==
  LET o == Ordered(selectionStart', selectionEnd')
  IN  /\ selectionStartOrdered' = o[1]
      /\ selectionEndOrdered' = o[2]
      /\ fate' = IF o[1] # Npos /\ o[2] # Npos /\ o[2] > Len(line')
                 THEN "threw" ELSE "up"

NoSelection == selectionStart' = Npos /\ UNCHANGED selectionEnd

\* A key that only moves the cursor.
Move == NoSelection /\ UNCHANGED <<line, clipboard, histVars, stale>> /\ Redraw

\* A key that changes the line.
Edit == NoSelection /\ Redraw /\ UNCHANGED <<histVars, stale>>
------------------------------------------------------------------------------
(***************************************************************************)
(* Moving the cursor.                                                      *)
(***************************************************************************)

\* Past the end of the line lies its terminating NUL, then whatever is there.
Readable(text) ==
  IF cursorPos <= Len(text) THEN {text}
  ELSE {text \o <<"NUL">> \o junk :
          junk \in [1 .. cursorPos - Len(text) - 1 -> Chars]}

CtrlLeft ==
  /\ Pressed
  /\ \E text \in Readable(line) : \E p \in 0 .. cursorPos :
       WordBefore(text, cursorPos, p) /\ cursorPos' = p
  /\ Move

CtrlRight ==
  /\ Pressed
  /\ \/ cursorPos >= Len(line) /\ UNCHANGED cursorPos
     \/ \E p \in cursorPos + 1 .. Len(line) :
          WordAfter(line, cursorPos, p) /\ cursorPos' = p
  /\ Move

Home == Pressed /\ cursorPos' = 0 /\ Move

End == Pressed /\ cursorPos' = Len(line) /\ Move

Left ==
  /\ Pressed
  /\ cursorPos' = IF selectionStart # Npos THEN selectionStart
                  ELSE IF cursorPos > 0 THEN cursorPos - 1 ELSE 0
  /\ Move

\* With a selection whose end was never set the cursor becomes Npos.
Right ==
  /\ Pressed
  /\ cursorPos' = IF selectionStart # Npos THEN selectionEndOrdered
                  ELSE IF cursorPos < Len(line) THEN cursorPos + 1 ELSE cursorPos
  /\ Move

\* Mutant: the cursor stays where it was in the line that was shown before.
UpKeepsCursor ==
  /\ Pressed
  /\ \/ /\ currentCommand < Len(commandHistory) - 1
        /\ currentCommand' = currentCommand + 1
        /\ line' = commandHistory[Len(commandHistory) - currentCommand']
     \/ /\ currentCommand >= Len(commandHistory) - 1
        /\ UNCHANGED <<line, currentCommand>>
  /\ NoSelection /\ Redraw
  /\ UNCHANGED <<cursorPos, clipboard, commandHistory, stale>>

Up ==
  /\ Pressed
  /\ \/ /\ currentCommand < Len(commandHistory) - 1
        /\ currentCommand' = currentCommand + 1
        /\ line' = commandHistory[Len(commandHistory) - currentCommand']
     \/ /\ currentCommand >= Len(commandHistory) - 1
        /\ UNCHANGED <<line, currentCommand>>
  /\ cursorPos' = Len(line')
  /\ NoSelection /\ Redraw
  /\ UNCHANGED <<clipboard, commandHistory, stale>>

\* Mutant: the newest entry is not told from no entry.
DownPastNone ==
  /\ Pressed
  /\ currentCommand' = currentCommand - 1
  /\ line' = IF currentCommand' < 0 THEN <<>>
             ELSE commandHistory[Len(commandHistory) - currentCommand']
  /\ cursorPos' = Len(line')
  /\ NoSelection /\ Redraw
  /\ UNCHANGED <<clipboard, commandHistory, stale>>

Down ==
  /\ Pressed
  /\ \/ /\ currentCommand > 0
        /\ currentCommand' = currentCommand - 1
        /\ line' = commandHistory[Len(commandHistory) - currentCommand']
     \/ currentCommand = 0 /\ currentCommand' = -1 /\ line' = <<>>
     \/ currentCommand < 0 /\ UNCHANGED <<line, currentCommand>>
  /\ cursorPos' = Len(line')
  /\ NoSelection /\ Redraw
  /\ UNCHANGED <<clipboard, commandHistory, stale>>
------------------------------------------------------------------------------
(***************************************************************************)
(* Selecting.  At the edge of the line the start is set, the end is not.   *)
(***************************************************************************)
Select(edge, to) ==
  /\ Pressed
  /\ selectionStart' = IF selectionStart = Npos THEN cursorPos ELSE selectionStart
  /\ \/ edge /\ UNCHANGED <<cursorPos, selectionEnd>>
     \/ ~edge /\ cursorPos' = to /\ selectionEnd' = to
  /\ stale' = (stale \/ (edge /\ selectionStart = Npos))
  /\ UNCHANGED <<line, clipboard, histVars>>
  /\ Redraw

ShiftLeft == Select(cursorPos = 0, cursorPos - 1)

ShiftRight == Select(cursorPos >= Len(line), cursorPos + 1)

CtrlA ==
  /\ Pressed
  /\ selectionStart' = 0 /\ selectionEnd' = Len(line)
  /\ UNCHANGED <<textVars, clipboard, histVars, stale>>
  /\ Redraw
------------------------------------------------------------------------------
(***************************************************************************)
(* Editing.                                                                *)
(***************************************************************************)
EraseSelection ==
  /\ HasSelection /\ ~Outside(selectionStartOrdered)
  /\ line' = Erase(line, selectionStartOrdered, selectionEndOrdered)
  /\ cursorPos' = selectionStartOrdered

Selected == SubSeq(line, selectionStartOrdered + 1,
                   IF selectionEndOrdered < Len(line) THEN selectionEndOrdered
                   ELSE Len(line))

Untouched ==
  /\ Pressed /\ UNCHANGED <<textVars, selVars, clipboard, histVars, stale>>
  /\ Redraw

CtrlX ==
  \/ ~HasSelection /\ Untouched
  \/ Pressed /\ EraseSelection /\ clipboard' = Selected /\ Edit

CtrlC ==
  \/ ~HasSelection /\ Untouched
  \/ /\ Pressed /\ HasSelection /\ ~Outside(selectionStartOrdered)
     /\ clipboard' = Selected
     /\ Edit /\ UNCHANGED textVars

CtrlV ==
  \/ clipboard = <<>> /\ Untouched
  \/ /\ Pressed /\ clipboard # <<>> /\ ~Outside(cursorPos)
     /\ Len(line) + Len(clipboard) <= MaxPaste
     /\ line' = Insert(line, cursorPos, clipboard)
     /\ cursorPos' = cursorPos + Len(clipboard)
     /\ Edit /\ UNCHANGED clipboard

\* A terminal that sends 8 or 127 for it bypasses FilterKey.
Backspace ==
  /\ fate = "up"
  /\ \/ EraseSelection
     \/ /\ ~HasSelection /\ cursorPos > 0 /\ ~Outside(cursorPos - 1)
        /\ line' = Erase(line, cursorPos - 1, cursorPos)
        /\ cursorPos' = cursorPos - 1
     \/ ~HasSelection /\ cursorPos = 0 /\ UNCHANGED textVars
  /\ Edit /\ UNCHANGED clipboard

Delete ==
  /\ Pressed
  /\ \/ EraseSelection
     \/ /\ ~HasSelection /\ UNCHANGED cursorPos
        /\ line' = IF cursorPos < Len(line)
                   THEN Erase(line, cursorPos, cursorPos + 1) ELSE line
  /\ Edit /\ UNCHANGED clipboard

CtrlBackspace ==
  /\ Pressed
  /\ \E text \in Readable(line) : \E p \in 0 .. cursorPos :
       /\ WordBefore(text, cursorPos, p)
       /\ cursorPos > 0 => ~Outside(p)
       /\ line' = Erase(line, p, cursorPos)
       /\ cursorPos' = p
  /\ Edit /\ UNCHANGED clipboard

CtrlDelete ==
  /\ Pressed
  /\ \/ cursorPos >= Len(line) /\ UNCHANGED line
     \/ \E p \in cursorPos + 1 .. Len(line) :
          WordAfter(line, cursorPos, p) /\ line' = Erase(line, cursorPos, p)
  /\ Edit /\ UNCHANGED <<cursorPos, clipboard>>

Type(ch) ==
  /\ Pressed
  /\ Len(line) < MaxLine /\ ~Outside(cursorPos)
  /\ line' = Insert(line, cursorPos, <<ch>>)
  /\ cursorPos' = cursorPos + 1
  /\ Edit /\ UNCHANGED clipboard

\* A key that prints nothing, or any on a full line, only ends the selection.
OtherKey == Pressed /\ UNCHANGED <<textVars, clipboard>> /\ Edit
------------------------------------------------------------------------------
(***************************************************************************)
(* Completion.                                                             *)
(***************************************************************************)
Typed == {c \in Commands : IsPrefix(c \o <<Space>>, line)}

HasSpace == \E i \in 1 .. Len(line) : line[i] = Space

Lines ==
  IF HasSpace
  THEN UNION {{c \o <<Space>> \o param : param \in SecParam[c]} : c \in Typed}
  ELSE Commands

Matches == {f \in Lines : IsPrefix(line, f)}

\* Mutant: the common prefix is cut one character short.
CutShort(common) ==
  {p \in common : \E q \in common :
     Len(q) = Len(p) + 1 /\ \A other \in common : Len(other) <= Len(q)}

Longest(common) ==
  {p \in common : \A other \in common : Len(other) <= Len(p)}

\* An unknown first word leaves ProcessKey before the redraw.
Tab ==
  \/ /\ Pressed /\ HasSpace /\ Typed = {}
     /\ UNCHANGED vars
  \/ /\ Pressed /\ (HasSpace => Typed # {})
     /\ \/ Matches = {} /\ line' = line
        \/ \E f \in Matches : Matches = {f} /\ line' = Append(f, Space)
        \/ /\ \E f, g \in Matches : f # g
           /\ line' \in Longest(CommonPrefixes(Matches))
     /\ cursorPos' = Len(line')
     /\ Edit /\ UNCHANGED clipboard
------------------------------------------------------------------------------
(***************************************************************************)
(* The end of a line, and of the process.                                  *)
(***************************************************************************)

\* The selection is kept.
Enter ==
  /\ fate = "up"
  /\ IF line = <<>> THEN UNCHANGED histVars
     ELSE /\ Len(commandHistory) < MaxHistory /\ Len(line) <= MaxEntry
          /\ commandHistory' = Append(commandHistory, line)
          /\ currentCommand' = -1
  /\ line' = <<>> /\ cursorPos' = 0
  /\ stale' = (stale \/ selectionStart # Npos)
  /\ UNCHANGED <<fate, selVars, orderedVars, clipboard>>

\* The accesses that can throw before the redraw, in the order of the keys.
Throws ==
  /\ fate = "up"
  /\ \/ FilterThrows
     \/ /\ cursorPos > 0
        /\ \E text \in Readable(line) : \E p \in 0 .. cursorPos :
             WordBefore(text, cursorPos, p) /\ Outside(p)
     \/ HasSelection /\ Outside(selectionStartOrdered)
     \/ clipboard # <<>> /\ Outside(cursorPos)
     \/ ~HasSelection /\ cursorPos > 0 /\ Outside(cursorPos - 1)
     \/ Len(line) < MaxLine /\ Outside(cursorPos)
  /\ fate' = "threw"
  /\ UNCHANGED <<textVars, selVars, orderedVars, clipboard, histVars, stale>>

Next ==
  \/ CtrlLeft \/ CtrlRight \/ Home \/ End \/ Left \/ Right \/ Up \/ Down
  \/ ShiftLeft \/ ShiftRight \/ CtrlA
  \/ CtrlX \/ CtrlC \/ CtrlV \/ Backspace \/ Delete
  \/ CtrlBackspace \/ CtrlDelete
  \/ (\E ch \in Chars : Type(ch)) \/ OtherKey
  \/ Tab \/ Enter \/ Throws

Spec == Init /\ [][Next]_vars
------------------------------------------------------------------------------
Positions == Nat \cup {Npos}

(* Type invariant; the history entry shown is always one of the history.    *)
TypeOK ==
  /\ fate \in {"up", "threw"}
  /\ line \in Seq(Chars) /\ clipboard \in Seq(Chars)
  /\ {cursorPos, selectionStart, selectionEnd,
      selectionStartOrdered, selectionEndOrdered} \subseteq Positions
  /\ commandHistory \in Seq(Seq(Chars))
  /\ currentCommand \in -1 .. Len(commandHistory) - 1
  /\ stale \in BOOLEAN

(* No sequence of keys throws, or takes the cursor or a selection outside   *)
(* the line, unless a selection was begun at the edge of a line or kept     *)
(* when a line was entered.                                                 *)
EditorSafe ==
  ~stale =>
    /\ fate = "up"
    /\ cursorPos \in 0 .. Len(line)
    /\ HasSelection =>
         selectionStartOrdered <= selectionEndOrdered
           /\ selectionEndOrdered <= Len(line)

(* What Ctrl+X takes out of the line a Ctrl+V right after it puts back.     *)
CutThenPasteRestores ==
  [][line' # line /\ CtrlX => Insert(line', cursorPos', clipboard') = line]_vars

(* Completion only adds to what was typed.                                  *)
CompletionExtends == [][~IsPrefix(line, line') => ~Tab]_vars
==============================================================================
