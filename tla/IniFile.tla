------------------------------ MODULE IniFile ------------------------------
(***************************************************************************)
(* helpers/INI_Handler: an ini file is read line by line into sections of  *)
(* tokens, which the program then looks up by name.                        *)
(*                                                                         *)
(* A line is what ProcessLine is given: blanks in front of a line that     *)
(* ends with a newline, and control characters, are gone.  (On a last line *)
(* without a newline the blanks are still there: what looks like a token   *)
(* has another name, and a comment or a header is no well-formed line.)    *)
(***************************************************************************)
EXTENDS Naturals, Sequences

CONSTANTS
    Names,    \* names of sections, besides that of the first, which is ""
    Tokens,   \* names of tokens
    Values,   \* what may stand behind the '='
    Files     \* the files that may be found; <<>> is one that is missing or has no bytes

Comment == [kind |-> "comment"]
Blank   == [kind |-> "blank"]
Bad     == [kind |-> "bad"]      \* a '[' without a ']', or no '=' on the line
Header(s)   == [kind |-> "header", name |-> s]
Token(t, v) == [kind |-> "token", name |-> t, value |-> v]

Lines == {Comment, Blank, Bad} \cup [kind : {"header"}, name : Names \cup {""}]
            \cup [kind : {"token"}, name : Tokens, value : Values]

ASSUME FilesAssumption == Files \subseteq Seq(Lines)

VARIABLES
    file,
    next,       \* the line read next
    sections,   \* m_section_list
    current,    \* m_section_current as a position in sections; 0 is NULL
    load        \* what Load is up to or has returned

iniVars == <<file, next, sections, current, load>>

NoTokens == [t \in {} |-> 0]
Section(s) == [name |-> s, tokens |-> NoTokens]

\* A file that cannot be opened or is empty leaves the handler without a section.
IniInit ==
    /\ file \in Files
    /\ next = 1
    /\ sections = IF file = <<>> THEN <<>> ELSE <<Section("")>>
    /\ current = IF file = <<>> THEN 0 ELSE 1
    /\ load = IF file = <<>> THEN "failed" ELSE "reading"

-----------------------------------------------------------------------------
(* Looking up: the first section of that name, the token of that name in it *)

FindSection(s) == \E i \in DOMAIN sections : sections[i].name = s

IndexOf(s) == CHOOSE i \in DOMAIN sections :
                /\ sections[i].name = s
                /\ \A j \in 1..(i - 1) : sections[j].name # s

\* m_section_current after SetSection: a name that is not there changes nothing.
SetSection(s) ==
    IF current # 0 /\ sections[current].name = s THEN current
    ELSE IF FindSection(s) THEN IndexOf(s) ELSE current

TokenExists(i, t) == t \in DOMAIN sections[i].tokens

\* The three GetToken... give a token that is not there this value.
Value(i, t, absent) == IF TokenExists(i, t) THEN sections[i].tokens[t] ELSE absent

-----------------------------------------------------------------------------
(* Reading: ProcessBuffer and ProcessLine *)

IgnoreLine(line) ==
    /\ line.kind \in {"comment", "blank"}
    /\ UNCHANGED <<sections, current, load>>

OpenSectionKept(line) ==
    /\ line.kind = "header"
    /\ IF FindSection(line.name) THEN UNCHANGED <<sections, current>>
       ELSE /\ sections' = Append(sections, Section(line.name))
            /\ current' = Len(sections) + 1
    /\ UNCHANGED load

\* A section that was there before is gone on with.
OpenSection(line) ==
    /\ line.kind = "header"
    /\ IF FindSection(line.name)
       THEN /\ current' = SetSection(line.name)
            /\ UNCHANGED sections
       ELSE /\ sections' = Append(sections, Section(line.name))
            /\ current' = Len(sections) + 1
    /\ UNCHANGED load

AddToken(line) ==
    /\ line.kind = "token"
    /\ ~TokenExists(current, line.name)
    /\ sections' = [sections EXCEPT ![current].tokens =
                      [t \in DOMAIN @ \cup {line.name} |->
                         IF t = line.name THEN line.value ELSE @[t]]]
    /\ UNCHANGED <<current, load>>

ReadLine ==
    /\ load = "reading"
    /\ next \in DOMAIN file
    /\ LET line == file[next] IN IgnoreLine(line) \/ OpenSection(line) \/ AddToken(line)
    /\ next' = next + 1
    /\ UNCHANGED file

\* A malformed line, or a token the section has already, ends the reading.  What was
\* read so far stays.
RejectLine ==
    /\ load = "reading"
    /\ next \in DOMAIN file
    /\ LET line == file[next]
       IN line.kind = "bad" \/ (line.kind = "token" /\ TokenExists(current, line.name))
    /\ load' = "failed"
    /\ UNCHANGED <<file, next, sections, current>>

EndOfFile ==
    /\ load = "reading"
    /\ next \notin DOMAIN file
    /\ load' = "loaded"
    /\ UNCHANGED <<file, next, sections, current>>

IniNext == ReadLine \/ RejectLine \/ EndOfFile

IniSpec == IniInit /\ [][IniNext]_iniVars

-----------------------------------------------------------------------------
(* What the file says, without reading it line by line *)

IsHeader(n) == file[n].kind = "header"

\* The section a line belongs to: that of the last header up to it, or the first.
Under(n, s) ==
    \/ \E h \in 1..n : file[h] = Header(s) /\ \A k \in (h + 1)..n : ~IsHeader(k)
    \/ s = "" /\ \A k \in 1..n : ~IsHeader(k)

Says(n, s, t) == file[n].kind = "token" /\ file[n].name = t /\ Under(n, s)

\* The lines that count: all of them, or those before the one that was rejected.
Read == 1..(next - 1)

\* Every token is found in the section it was written under, with its value, wherever
\* in the file the pieces of that section are, and no section has a token that was not
\* written there (INI_Handler::ProcessLine and its look-ups).
ReadAsWritten ==
    /\ \A n \in Read : file[n].kind = "token" =>
         \E s \in Names \cup {""} :
            /\ Under(n, s) /\ FindSection(s)
            /\ TokenExists(IndexOf(s), file[n].name)
            /\ Value(IndexOf(s), file[n].name, 0) = file[n].value
    /\ \A i \in DOMAIN sections : \A t \in DOMAIN sections[i].tokens :
         \E n \in Read : Says(n, sections[i].name, t) /\ file[n].value = sections[i].tokens[t]

\* Loading fails for a reason: there is a file, all lines but the rejected one were
\* right, and that one is malformed or says a second time what its section has.
RejectedForAReason ==
    load = "failed" /\ file # <<>> =>
        /\ next \in DOMAIN file
        /\ \/ file[next].kind = "bad"
           \/ \E n \in Read, s \in Names \cup {""} :
                Says(n, s, file[next].name) /\ Under(next, s)
=============================================================================
