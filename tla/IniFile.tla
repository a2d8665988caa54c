------------------------------ MODULE IniFile ------------------------------
(***************************************************************************)
(* The part of SimpleIni the program runs (CSimpleIniW as IniConfig sets it *)
(* up: no multi-line values, no repeated keys, no quotes, no key without a  *)
(* value).  A file is a sequence of lines, a line a record of what FindEntry *)
(* tells apart; names are compared without case, so names that differ in    *)
(* case are one name here.                                                  *)
(*                                                                         *)
(* A value is the text after '=': the hexadecimal prefix if there is one,   *)
(* the digits, and whether something follows that is not a digit.           *)
(***************************************************************************)
EXTENDS Integers, SequencesExt

\* The name of a section no lookup ever asks for: it contains a line break.
Garbage == "header without bracket"

\* Bound: longer digit strings stand for numbers out of the range of long.
MaxDigits == 8
-----------------------------------------------------------------------------
(* A definition named Bug... is a plausible mistake in the one that follows  *)
(* it; it shows that a property would notice, and nothing else uses it.     *)

\* An entry that is there already keeps its value.
BugAddEntry(data, section, key, text) ==
  [e \in {<<section, key>>} \cup DOMAIN data |->
     IF e \in DOMAIN data THEN data[e] ELSE text]

\* AddEntry, repeated keys not being allowed: the last value replaces the others.
AddEntry(data, section, key, text) ==
  [e \in {<<section, key>>} \cup DOMAIN data |->
     IF e = <<section, key>> THEN text ELSE data[e]]

\* FindEntry on one line.  The section pointer is moved before the
\* closing bracket is looked for, so a header without one opens a section whose
\* name runs on into the lines below it.  A line without '=', an entry without a
\* key, a comment and a blank line are skipped.
FindEntry(st, line) ==
  CASE line.kind = "section" -> [st EXCEPT !.section = line.name]
    [] line.kind = "unclosed" -> [st EXCEPT !.section = Garbage]
    [] line.kind = "entry" /\ line.key # "" ->
         [st EXCEPT !.data = AddEntry(@, st.section, line.key, line.text)]
    [] OTHER -> st

\* LoadFile and LoadData: the entries of a file, by section and key.
LoadData(file) ==
  FoldLeft(FindEntry, [section |-> "", data |-> [k \in {} |-> 0]], file).data

\* GetValue
GetValue(ini, section, key, default) ==
  IF <<section, key>> \in DOMAIN ini THEN ini[<<section, key>>] ELSE default

\* What strtol reads from the digits, if all of the text is a number.
Strtol(digits, base) == FoldLeft(LAMBDA n, d : base * n + d, 0, digits)

\* GetLongValue: base 16 after 0x, base 10 otherwise, leading zeros included; the
\* default for anything else that is not a number of type long.
GetLongValue(ini, section, key, default) ==
  IF <<section, key>> \notin DOMAIN ini THEN default
  ELSE LET text == ini[<<section, key>>]
           base == IF text.hex THEN 16 ELSE 10
           good == /\ text.digits # <<>> /\ ~text.junk
                   /\ \A i \in DOMAIN text.digits : text.digits[i] < base
                   /\ Len(text.digits) =< MaxDigits
       IN IF good THEN (IF text.minus THEN -1 ELSE 1) * Strtol(text.digits, base)
          ELSE default
=============================================================================
