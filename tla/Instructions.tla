---------------------------- MODULE Instructions ----------------------------
(***************************************************************************)
(* The instruction files that open a conversation, ZXCODE.md of the        *)
(* project and AGENTS.md of the user, with what their @include lines pull  *)
(* in (src/zxcode/instructions.py): from the files of a scope to the text  *)
(* of its message and the issues the user is shown.                        *)
(*                                                                         *)
(* A line is "text", the file it includes, or "refused": an @include of    *)
(* nothing, of an absolute path or of no path at all.  A file is known by  *)
(* where it resolves to.  A text line counts as one, whatever its length.  *)
(***************************************************************************)
EXTENDS Naturals, Sequences, SequencesExt

CONSTANTS
  MaxIncludeDepth, \* MAX_INCLUDE_DEPTH
  MaxContent       \* MAX_CONTENT_CHARS, in lines of text

ASSUME InstructionsAssumption == {MaxIncludeDepth, MaxContent} \subseteq Nat \ {0}

(***************************************************************************)
(* A scope is [main, there, root, lines]: its instruction file, whether    *)
(* there is one, the files within its root, and the lines of those that    *)
(* can be read.  A place is a file and a line number; what is written is   *)
(* known by the places through which it was reached.                       *)
(***************************************************************************)
\* Mutant: only the including file itself is looked for in the stack.
RefusesDirectCycles(scope, above, file, line) ==
  \/ line = "refused"
  \/ line \notin scope.root
  \/ line = file
  \/ Len(above) + 2 > MaxIncludeDepth

\* An @include that _expand refuses: out of the root, a file it is within, or
\* one level too deep.
Refuses(scope, above, file, line) ==
  \/ line = "refused"
  \/ line \notin scope.root
  \/ line = file \/ \E i \in DOMAIN above : above[i][1] = line
  \/ Len(above) + 2 > MaxIncludeDepth

\* _expand of a file that was reached through the places above.
RECURSIVE Expand(_, _, _)
Expand(scope, above, file) ==
  LET lines == scope.lines[file]
      OfLine(k) ==
        LET here == Append(above, <<file, k>>)
        IN  CASE lines[k] = "text" -> [text |-> <<here>>, issues |-> << >>]
              [] lines[k] # "text" /\ Refuses(scope, above, file, lines[k]) ->
                   [text |-> << >>, issues |-> <<here>>]
              [] OTHER -> Expand(scope, here, lines[k])
      parts == [k \in DOMAIN lines |-> OfLine(k)]
  IN  IF file \notin DOMAIN scope.lines THEN [text |-> << >>, issues |-> <<above>>]
      ELSE [text |-> FlattenSeq([k \in DOMAIN lines |-> parts[k].text]),
            issues |-> FlattenSeq([k \in DOMAIN lines |-> parts[k].issues])]

\* load_instructions of a scope: what is too long is cut, which is an issue.
LoadInstruction(scope) ==
  LET all == Expand(scope, << >>, scope.main)
      cut == Len(all.text) > MaxContent
  IN  IF ~scope.there THEN [text |-> << >>, issues |-> << >>, cut |-> FALSE]
      ELSE [text |-> IF cut THEN SubSeq(all.text, 1, MaxContent) ELSE all.text,
            issues |-> all.issues, cut |-> cut]

\* The scopes that make a message; the project's comes first.
Messages(loaded) ==
  SelectSeq(loaded, LAMBDA l : l.text # << >> \/ l.issues # << >> \/ l.cut)

-----------------------------------------------------------------------------
(***************************************************************************)
(* What a scope says, without recursion: the include paths of its files    *)
(***************************************************************************)
Places(scope) == UNION {{f} \X DOMAIN scope.lines[f] : f \in DOMAIN scope.lines}
LineAt(scope, place) == scope.lines[place[1]][place[2]]

\* From the instruction file from one include to the next, within the root,
\* no file twice and no deeper than allowed.
Paths(scope) ==
  {p \in UNION {[1..n -> Places(scope)] : n \in 1..MaxIncludeDepth} :
     /\ p[1][1] = scope.main
     /\ \A i \in 1..(Len(p) - 1) : LineAt(scope, p[i]) = p[i + 1][1] /\ p[i + 1][1] \in scope.root
     /\ \A i, j \in DOMAIN p : p[i][1] = p[j][1] => i = j}

TextPaths(scope, paths) == {p \in paths : LineAt(scope, Last(p)) = "text"}

\* Includes that lead nowhere.
DeadPaths(scope, paths) ==
  LET Leads(p, file) ==
        /\ file \in scope.root \cap DOMAIN scope.lines
        /\ Len(p) < MaxIncludeDepth
        /\ \A i \in DOMAIN p : p[i][1] # file
  IN  {p \in paths : LineAt(scope, Last(p)) # "text" /\ ~Leads(p, LineAt(scope, Last(p)))}

\* The order of reading.
ReadBefore(p, q) ==
  \E i \in DOMAIN p \cap DOMAIN q : SubSeq(p, 1, i - 1) = SubSeq(q, 1, i - 1) /\ p[i][2] < q[i][2]
=============================================================================
