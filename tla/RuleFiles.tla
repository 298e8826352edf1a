------------------------------ MODULE RuleFiles ------------------------------
(***************************************************************************)
(* The files in .zxcode/rules and how they are loaded (src/zxcode/rules/   *)
(* loader.py): the subset of YAML they are written in, what a rule must    *)
(* be, and all files or none.                                              *)
(*                                                                         *)
(* A line (blank lines and comments aside) is its indentation and its      *)
(* form: "item" for a dash alone or with a scalar, "entry" for a dash with *)
(* a key, "key" for a key without a value, "value" for one with, "junk".   *)
(* Scalars that are no scalar make their line junk.                        *)
(***************************************************************************)
EXTENDS Naturals, Sequences, SequencesExt

Dashes == {"item", "entry"}

Indented(lines, k, indent) == k <= Len(lines) /\ lines[k].indent > indent

\* Mutant: a line that is too far in ends the mapping.
EndsLenient(lines, k, indent) ==
  k > Len(lines) \/ lines[k].indent # indent

\* What ends a mapping, and what is an error in it.
Ends(lines, k, indent) == k > Len(lines) \/ lines[k].indent < indent
Misplaced(lines, k, indent) ==
  lines[k].indent # indent \/ lines[k].form \notin {"key", "value"}

\* Where a list or a mapping that begins at line k ends (_parse_lines): the
\* first line it leaves, or 0 for ValueError.
RECURSIVE ListEnd(_, _, _), MappingEnd(_, _, _)

NodeEnd(lines, k) ==
  IF lines[k].form \in Dashes THEN ListEnd(lines, k, lines[k].indent)
  ELSE MappingEnd(lines, k, lines[k].indent)

ListEnd(lines, k, indent) ==
  LET next == IF lines[k].form = "entry" /\ Indented(lines, k + 1, indent)
              THEN NodeEnd(lines, k + 1) ELSE k + 1
  IN  IF k > Len(lines) \/ lines[k].indent # indent \/ lines[k].form \notin Dashes THEN k
      ELSE IF next = 0 THEN 0
      ELSE ListEnd(lines, next, indent)

MappingEnd(lines, k, indent) ==
  LET next == IF lines[k].form = "key" /\ Indented(lines, k + 1, indent)
              THEN NodeEnd(lines, k + 1) ELSE k + 1
  IN  IF Ends(lines, k, indent) THEN k
      ELSE IF Misplaced(lines, k, indent) \/ next = 0 THEN 0
      ELSE MappingEnd(lines, next, indent)

\* _parse_rule: `ill` names the fields that are missing or of the wrong type,
\* those of the actions and conditions among them.
RuleFits(raw) ==
  /\ raw.ill = {}
  /\ raw.reject => raw.event = "pre_tool_use"
  /\ raw.async => raw.event # "pre_tool_use"
  /\ raw.actions > 0 \/ raw.reject

\* parse_rule_file: the text is a mapping with a list of rules; those of one
\* file have different ids.
RuleFileFits(file) ==
  /\ file.lines # << >>
  /\ file.lines[1].form \notin Dashes /\ NodeEnd(file.lines, 1) # 0
  /\ file.listed
  /\ \A k \in DOMAIN file.raws : RuleFits(file.raws[k])
  /\ \A j, k \in DOMAIN file.raws : file.raws[j].id = file.raws[k].id => j = k

\* load_rules, of the files in the order of their names.
LoadRules(files) ==
  IF \A k \in DOMAIN files : RuleFileFits(files[k])
  THEN [ok |-> TRUE, rules |-> FlattenSeq([k \in DOMAIN files |-> files[k].raws])]
  ELSE [ok |-> FALSE, rules |-> << >>]
=============================================================================
