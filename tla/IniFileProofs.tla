--------------------------- MODULE IniFileProofs ---------------------------
(***************************************************************************)
(* Proofs about IniFile, for every file: what is found in it is what it    *)
(* says, and what is rejected is rejected for a reason.                    *)
(***************************************************************************)
EXTENDS IniFile, TLAPS

SectionNames == Names \cup {""}

SectionType == [name : SectionNames, tokens : UNION {[T -> Values] : T \in SUBSET Tokens}]

IniTypeOK ==
    /\ file \in Seq(Lines)
    /\ next \in Nat \ {0}
    /\ sections \in Seq(SectionType)
    /\ load \in {"reading", "failed", "loaded"}
    /\ load = "reading" => current \in DOMAIN sections

Distinct == \A i, j \in DOMAIN sections : sections[i].name = sections[j].name => i = j

\* While it is read, the section at hand is the one the last line belongs to.
AtHand == load = "reading" => next <= Len(file) + 1 /\ Under(next - 1, sections[current].name)

\* ReadAsWritten, with the sections by their positions.
Found ==
    \A n \in Read : file[n].kind = "token" =>
        \E i \in DOMAIN sections :
            /\ Under(n, sections[i].name)
            /\ file[n].name \in DOMAIN sections[i].tokens
            /\ sections[i].tokens[file[n].name] = file[n].value

Written ==
    \A i \in DOMAIN sections : \A t \in DOMAIN sections[i].tokens :
        \E n \in Read : Says(n, sections[i].name, t) /\ file[n].value = sections[i].tokens[t]

\* No section is made up.
Announced ==
    \A i \in DOMAIN sections :
        sections[i].name = "" \/ \E n \in Read : file[n] = Header(sections[i].name)

IniInv ==
    IniTypeOK /\ Distinct /\ AtHand /\ Found /\ Written /\ Announced /\ RejectedForAReason

-----------------------------------------------------------------------------
(* Lines and the sections they belong to *)

LEMMA HeaderFields == ASSUME NEW s PROVE Header(s).kind = "header" /\ Header(s).name = s
BY DEF Header

LEMMA LineKinds ==
  ASSUME NEW line \in Lines
  PROVE  /\ line.kind \in {"comment", "blank", "bad", "header", "token"}
         /\ line.kind = "header" => line.name \in SectionNames /\ line = Header(line.name)
         /\ line.kind = "token" => line.name \in Tokens /\ line.value \in Values
<1>1. CASE line \in {Comment, Blank, Bad}
  BY <1>1 DEF Comment, Blank, Bad
<1>2. CASE line \in [kind : {"header"}, name : Names \cup {""}]
  BY <1>2 DEF Header, SectionNames
<1>3. CASE line \in [kind : {"token"}, name : Tokens, value : Values]
  BY <1>3
<1> QED BY <1>1, <1>2, <1>3 DEF Lines

LEMMA UnderItself ==
  ASSUME NEW n \in Nat \ {0}, NEW s, file[n] = Header(s)
  PROVE  Under(n, s)
<1>1. n \in 1..n /\ \A k \in (n + 1)..n : ~IsHeader(k)
  OBVIOUS
<1> QED BY <1>1 DEF Under

LEMMA UnderStays ==
  ASSUME NEW n \in Nat \ {0}, NEW s, ~IsHeader(n), Under(n - 1, s)
  PROVE  Under(n, s)
<1>1. \A k \in 1..n : k \in 1..(n - 1) \/ k = n
  OBVIOUS
<1>2. CASE s = "" /\ \A k \in 1..(n - 1) : ~IsHeader(k)
  BY <1>1, <1>2 DEF Under
<1>3. CASE \E h \in 1..(n - 1) : file[h] = Header(s) /\ \A k \in (h + 1)..(n - 1) : ~IsHeader(k)
  <2>1. PICK h \in 1..(n - 1) : file[h] = Header(s) /\ \A k \in (h + 1)..(n - 1) : ~IsHeader(k)
    BY <1>3
  <2>2. h \in 1..n /\ \A k \in (h + 1)..n : k \in (h + 1)..(n - 1) \/ k = n
    OBVIOUS
  <2>3. \A k \in (h + 1)..n : ~IsHeader(k)
    BY <2>1, <2>2
  <2> QED BY <2>1, <2>2, <2>3 DEF Under
<1> QED BY <1>2, <1>3 DEF Under

\* A line belongs to one section.
LEMMA UnderOne ==
  ASSUME NEW n \in Nat, NEW s, NEW r, Under(n, s), Under(n, r)
  PROVE  s = r
<1>1. ASSUME NEW h \in 1..n, NEW x, file[h] = Header(x) PROVE IsHeader(h)
  BY <1>1, HeaderFields DEF IsHeader
<1>2. CASE \A k \in 1..n : ~IsHeader(k)
  BY <1>1, <1>2 DEF Under
<1>3. CASE ~\A k \in 1..n : ~IsHeader(k)
  <2>1. PICK h \in 1..n : file[h] = Header(s) /\ \A k \in (h + 1)..n : ~IsHeader(k)
    BY <1>3 DEF Under
  <2>2. PICK g \in 1..n : file[g] = Header(r) /\ \A k \in (g + 1)..n : ~IsHeader(k)
    BY <1>3 DEF Under
  <2>3. IsHeader(h) /\ IsHeader(g)
    BY <1>1, <2>1, <2>2
  <2>4. h = g
    BY <2>1, <2>2, <2>3
  <2>5. Header(s).name = Header(r).name
    BY <2>1, <2>2, <2>4
  <2> QED BY <2>5, HeaderFields
<1> QED BY <1>2, <1>3

-----------------------------------------------------------------------------
(* Looking up *)

LEMMA LookUp ==
  ASSUME Distinct, NEW i \in DOMAIN sections, IniTypeOK
  PROVE  FindSection(sections[i].name) /\ IndexOf(sections[i].name) = i
<1> DEFINE s == sections[i].name
           P(j) == j \in DOMAIN sections /\ sections[j].name = s
                     /\ \A k \in 1..(j - 1) : sections[k].name # s
<1>1. DOMAIN sections = 1..Len(sections) /\ Len(sections) \in Nat
  BY DEF IniTypeOK
<1>2. P(i)
  BY <1>1 DEF Distinct
<1>3. \A j \in DOMAIN sections : P(j) => j = i
  BY DEF Distinct
<1> QED BY <1>2, <1>3 DEF FindSection, IndexOf

LEMMA SetToIt ==
  ASSUME Distinct, IniTypeOK, NEW s, FindSection(s), current \in DOMAIN sections \cup {0}
  PROVE  SetSection(s) \in DOMAIN sections /\ sections[SetSection(s)].name = s
<1>1. PICK i \in DOMAIN sections : sections[i].name = s
  BY DEF FindSection
<1>2. IndexOf(s) = i
  BY <1>1, LookUp
<1>3. CASE current # 0 /\ sections[current].name = s
  BY <1>3 DEF SetSection
<1>4. CASE ~(current # 0 /\ sections[current].name = s)
  BY <1>1, <1>2, <1>4 DEF SetSection
<1> QED BY <1>3, <1>4

-----------------------------------------------------------------------------
(* The invariant *)

LEMMA IniStart == IniInit => IniInv
<1> SUFFICES ASSUME IniInit PROVE IniInv
  OBVIOUS
<1>0. file \in Seq(Lines) /\ next = 1
  BY FilesAssumption DEF IniInit
<1>1. file \in Seq(Lines) /\ next = 1 /\ Read = {}
  BY <1>0 DEF Read
<1>2. Len(file) \in Nat
  BY <1>1
<1>3. CASE file = <<>>
  <2>1. sections = <<>> /\ load = "failed"
    BY <1>3 DEF IniInit
  <2>2. DOMAIN sections = {} /\ sections \in Seq(SectionType)
    BY <2>1
  <2>3. IniTypeOK
    BY <1>1, <2>1, <2>2 DEF IniTypeOK
  <2> QED BY <1>1, <1>3, <2>1, <2>2, <2>3 DEF IniInv, Distinct, AtHand, Found, Written, Announced,
                                RejectedForAReason
<1>4. CASE file # <<>>
  <2>1. sections = <<Section("")>> /\ load = "reading" /\ current = 1
    BY <1>4 DEF IniInit
  <2>2. Section("") \in SectionType
    <3>1. NoTokens \in [{} -> Values] /\ {} \in SUBSET Tokens
      BY DEF NoTokens
    <3>2. NoTokens \in UNION {[T -> Values] : T \in SUBSET Tokens}
      BY <3>1
    <3> QED BY <3>2 DEF Section, SectionType, SectionNames
  <2>3. DOMAIN sections = {1} /\ sections[1] = Section("") /\ sections \in Seq(SectionType)
    <3> DEFINE first == Section("")
    <3>1. first \in SectionType /\ sections = <<first>>
      BY <2>1, <2>2
    <3> HIDE DEF first
    <3>2. DOMAIN sections = {1} /\ sections[1] = first /\ sections \in Seq(SectionType)
      BY <3>1
    <3> QED BY <3>2 DEF first
  <2>4. sections[1].name = "" /\ DOMAIN sections[1].tokens = {}
    <3>1. Section("").name = "" /\ Section("").tokens = NoTokens
      BY DEF Section
    <3>2. DOMAIN NoTokens = {}
      BY DEF NoTokens
    <3> QED BY <2>3, <3>1, <3>2
  <2>7. load = "reading" /\ current = 1
    BY <2>1
  <2>5. IniTypeOK
    <3>1. next \in Nat \ {0}
      BY <1>0
    <3>2. current \in DOMAIN sections
      BY <2>3, <2>7
    <3>3. sections \in Seq(SectionType)
      BY <2>3
    <3> QED BY <1>0, <2>7, <3>1, <3>2, <3>3 DEF IniTypeOK
  <2>6. AtHand
    <3>1. Under(0, "")
      BY DEF Under
    <3>2. next - 1 = 0
      BY <1>0
    <3>3. sections[current].name = ""
      BY <2>4, <2>7
    <3>4. Under(next - 1, sections[current].name)
      BY <3>1, <3>2, <3>3
    <3> QED BY <1>0, <1>2, <3>4 DEF AtHand
  <2> QED BY <1>1, <2>1, <2>3, <2>4, <2>5, <2>6 DEF IniInv, Distinct, Found, Written, Announced,
                                RejectedForAReason
<1> QED BY <1>3, <1>4

\* What every step of reading has to show of the line it takes.
LEMMA ReadOn ==
  ASSUME IniInv, load = "reading", next \in DOMAIN file, next' = next + 1, file' = file,
         load' = "reading"
  PROVE  /\ next \in Nat \ {0} /\ next' \in Nat \ {0} /\ next' <= Len(file') + 1
         /\ file[next] \in Lines
         /\ Read' = Read \cup {next} /\ next' - 1 = next
         /\ RejectedForAReason'
         /\ \A n, s : Under(n, s)' <=> Under(n, s)
         /\ \A n, s, t : Says(n, s, t)' <=> Says(n, s, t)
         /\ DOMAIN sections = 1..Len(sections) /\ Len(sections) \in Nat
         /\ current \in DOMAIN sections
         /\ \A i \in DOMAIN sections : sections[i].name \in SectionNames
<1>1. next \in Nat \ {0} /\ Len(file) \in Nat /\ DOMAIN file = 1..Len(file)
  BY DEF IniInv, IniTypeOK
<1>2. Read' = Read \cup {next}
  BY <1>1 DEF Read
<1>3. \A n, s : Under(n, s)' <=> Under(n, s)
  BY DEF Under, IsHeader
<1>8. \A n, s, t : Says(n, s, t)' <=> Says(n, s, t)
  BY <1>3 DEF Says
<1>4. DOMAIN sections = 1..Len(sections) /\ Len(sections) \in Nat /\ current \in DOMAIN sections
  BY DEF IniInv, IniTypeOK
<1>5. ASSUME NEW i \in DOMAIN sections PROVE sections[i].name \in SectionNames
  <2>1. sections[i] \in SectionType
    BY <1>4 DEF IniInv, IniTypeOK
  <2> QED BY <2>1 DEF SectionType
<1>6. file[next] \in Lines
  BY <1>1 DEF IniInv, IniTypeOK
<1>7. RejectedForAReason'
  BY DEF RejectedForAReason
<1> QED BY <1>1, <1>2, <1>3, <1>4, <1>5, <1>6, <1>7, <1>8

LEMMA IgnoreStep ==
  ASSUME IniInv, load = "reading", next \in DOMAIN file, IgnoreLine(file[next]),
         next' = next + 1, UNCHANGED file
  PROVE  IniInv'
<1>1. UNCHANGED <<sections, current, load>> /\ file[next].kind \in {"comment", "blank"}
  BY DEF IgnoreLine
<1>2. /\ next \in Nat \ {0} /\ next' \in Nat \ {0} /\ next' <= Len(file') + 1
      /\ Read' = Read \cup {next} /\ next' - 1 = next
      /\ RejectedForAReason'
      /\ \A m, s : Under(m, s)' <=> Under(m, s)
      /\ \A m, s, t : Says(m, s, t)' <=> Says(m, s, t)
      /\ current \in DOMAIN sections
      /\ \A i \in DOMAIN sections : sections[i].name \in SectionNames
  BY <1>1, ReadOn
<1>3. IniTypeOK'
  BY <1>1, <1>2 DEF IniInv, IniTypeOK
<1>4. Distinct'
  BY <1>1 DEF IniInv, Distinct
<1>5. Under(next, sections[current].name)
  BY <1>1, <1>2, UnderStays DEF IniInv, AtHand, IsHeader
<1>6. AtHand'
  BY <1>1, <1>2, <1>5 DEF AtHand
<1>7. Found'
  BY <1>1, <1>2 DEF IniInv, Found, Read
<1>8. Written'
  BY <1>1, <1>2 DEF IniInv, Written
<1>9. Announced'
  BY <1>1, <1>2 DEF IniInv, Announced
<1> QED BY <1>2, <1>3, <1>4, <1>6, <1>7, <1>8, <1>9 DEF IniInv

\* A section that has just been opened.
LEMMA NewSection ==
  ASSUME NEW s \in SectionNames
  PROVE  Section(s) \in SectionType /\ Section(s).name = s /\ DOMAIN Section(s).tokens = {}
<1>1. NoTokens \in [{} -> Values] /\ {} \in SUBSET Tokens /\ DOMAIN NoTokens = {}
  BY DEF NoTokens
<1>2. NoTokens \in UNION {[T -> Values] : T \in SUBSET Tokens}
  BY <1>1
<1> QED BY <1>1, <1>2 DEF Section, SectionType

LEMMA AppendSection ==
  ASSUME NEW q \in Seq(SectionType), NEW e \in SectionType
  PROVE  /\ Append(q, e) \in Seq(SectionType)
         /\ DOMAIN Append(q, e) = DOMAIN q \cup {Len(q) + 1} /\ Len(q) + 1 \notin DOMAIN q
         /\ \A i \in DOMAIN q : Append(q, e)[i] = q[i]
         /\ Append(q, e)[Len(q) + 1] = e
OBVIOUS

LEMMA OpenStep ==
  ASSUME IniInv, load = "reading", next \in DOMAIN file, OpenSection(file[next]),
         next' = next + 1, UNCHANGED file
  PROVE  IniInv'
<1> DEFINE name == file[next].name
<1>1. load' = "reading" /\ file[next].kind = "header"
  BY DEF OpenSection
<1>2. /\ next \in Nat \ {0} /\ next' \in Nat \ {0} /\ next' <= Len(file') + 1
      /\ Read' = Read \cup {next} /\ next' - 1 = next
      /\ RejectedForAReason'
      /\ file[next] \in Lines
      /\ \A m, s : Under(m, s)' <=> Under(m, s)
      /\ \A m, s, t : Says(m, s, t)' <=> Says(m, s, t)
      /\ current \in DOMAIN sections
  BY <1>1, ReadOn
<1>3. name \in SectionNames /\ file[next] = Header(name)
  BY <1>1, <1>2, LineKinds
<1>4. Under(next, name)
  BY <1>2, <1>3, UnderItself
<1> HIDE DEF name
<1>5. CASE FindSection(name)
  <2>1. sections' = sections /\ current' = SetSection(name)
    BY <1>5 DEF OpenSection, name
  <2>2. current' \in DOMAIN sections /\ sections[current'].name = name
    BY <1>2, <1>5, <2>1, SetToIt DEF IniInv
  <2>3. IniTypeOK'
    BY <1>1, <1>2, <2>1, <2>2 DEF IniInv, IniTypeOK
  <2>4. Distinct'
    BY <2>1 DEF IniInv, Distinct
  <2>5. AtHand'
    BY <1>2, <1>4, <2>1, <2>2 DEF AtHand
  <2>6. Found'
    BY <1>1, <1>2, <2>1 DEF IniInv, Found, Read
  <2>7. Written'
    BY <1>2, <2>1 DEF IniInv, Written
  <2>8. Announced'
    BY <1>2, <2>1 DEF IniInv, Announced
  <2> QED BY <1>2, <2>3, <2>4, <2>5, <2>6, <2>7, <2>8 DEF IniInv
<1>6. CASE ~FindSection(name)
  <2>1. sections' = Append(sections, Section(name)) /\ current' = Len(sections) + 1
    BY <1>6 DEF OpenSection, name
  <2>2. sections \in Seq(SectionType) /\ Section(name) \in SectionType
        /\ Section(name).name = name /\ DOMAIN Section(name).tokens = {}
    BY <1>3, NewSection DEF IniInv, IniTypeOK
  <2>3. /\ sections' \in Seq(SectionType)
        /\ DOMAIN sections' = DOMAIN sections \cup {current'} /\ current' \notin DOMAIN sections
        /\ \A i \in DOMAIN sections : sections'[i] = sections[i]
        /\ sections'[current'].name = name /\ DOMAIN sections'[current'].tokens = {}
    BY <2>1, <2>2, AppendSection
  <2>4. \A i \in DOMAIN sections : sections[i].name # name
    BY <1>6 DEF FindSection
  <2>5. IniTypeOK'
    BY <1>1, <1>2, <2>3 DEF IniInv, IniTypeOK
  <2>6. Distinct'
    BY <2>3, <2>4 DEF IniInv, Distinct
  <2>7. AtHand'
    BY <1>2, <1>4, <2>3 DEF AtHand
  <2>8. Found'
    <3> SUFFICES ASSUME NEW n \in Read', file[n].kind = "token"
                 PROVE  \E i \in DOMAIN sections' :
                          /\ Under(n, sections[i].name)'
                          /\ file[n].name \in DOMAIN sections'[i].tokens
                          /\ sections'[i].tokens[file[n].name] = file[n].value
      BY DEF Found
    <3>1. n \in Read
      BY <1>1, <1>2
    <3>2. PICK i \in DOMAIN sections :
            /\ Under(n, sections[i].name)
            /\ file[n].name \in DOMAIN sections[i].tokens
            /\ sections[i].tokens[file[n].name] = file[n].value
      BY <3>1 DEF IniInv, Found
    <3>3. i \in DOMAIN sections' /\ sections'[i] = sections[i]
      BY <2>3
    <3>4. Under(n, sections[i].name)'
      BY <1>2, <3>2, <3>3
    <3> QED BY <3>2, <3>3, <3>4
  <2>9. Written'
    BY <1>2, <2>3 DEF IniInv, Written
  <2>10. Announced'
    BY <1>2, <1>3, <2>3 DEF IniInv, Announced
  <2> QED BY <1>2, <2>5, <2>6, <2>7, <2>8, <2>9, <2>10 DEF IniInv
<1> QED BY <1>5, <1>6

LEMMA AddStep ==
  ASSUME IniInv, load = "reading", next \in DOMAIN file, AddToken(file[next]),
         next' = next + 1, UNCHANGED file
  PROVE  IniInv'
<1> DEFINE name == file[next].name
           value == file[next].value
           old == sections[current].tokens
           new == [t \in DOMAIN old \cup {name} |-> IF t = name THEN value ELSE old[t]]
<1>1. /\ load' = "reading" /\ current' = current /\ file[next].kind = "token"
      /\ name \notin DOMAIN old
  BY DEF AddToken, TokenExists
<1>2. /\ next \in Nat \ {0} /\ next' \in Nat \ {0} /\ next' <= Len(file') + 1
      /\ Read' = Read \cup {next} /\ next' - 1 = next
      /\ RejectedForAReason'
      /\ file[next] \in Lines
      /\ \A m, s : Under(m, s)' <=> Under(m, s)
      /\ \A m, s, t : Says(m, s, t)' <=> Says(m, s, t)
      /\ current \in DOMAIN sections
  BY <1>1, ReadOn
<1>3. name \in Tokens /\ value \in Values
  BY <1>1, <1>2, LineKinds
<1>4. sections' = [sections EXCEPT ![current].tokens = new]
  BY DEF AddToken
<1>5. DOMAIN sections' = DOMAIN sections /\ \A i \in DOMAIN sections : i # current => sections'[i] = sections[i]
  BY <1>4
<1>6. sections \in Seq(SectionType) /\ sections[current] \in SectionType
  BY <1>2 DEF IniInv, IniTypeOK
<1>7. sections'[current] = [sections[current] EXCEPT !.tokens = new]
  BY <1>2, <1>4
<1>8. sections'[current].name = sections[current].name /\ sections'[current].tokens = new
  BY <1>6, <1>7 DEF SectionType
<1>9. /\ DOMAIN new = DOMAIN old \cup {name} /\ new[name] = value
      /\ \A t \in DOMAIN old : new[t] = old[t]
  BY <1>1
<1>10. \A i \in DOMAIN sections : sections'[i].name = sections[i].name
  BY <1>5, <1>8
<1>11. Under(next, sections[current].name)
  BY <1>1, <1>2, UnderStays DEF IniInv, AtHand, IsHeader
<1>12. sections' \in Seq(SectionType)
  <2>1. old \in UNION {[T -> Values] : T \in SUBSET Tokens}
    BY <1>6 DEF SectionType
  <2>2. DOMAIN old \subseteq Tokens /\ \A t \in DOMAIN old : old[t] \in Values
    BY <2>1
  <2> DEFINE T == DOMAIN old \cup {name}
  <2>3. T \in SUBSET Tokens /\ new \in [T -> Values]
    BY <1>3, <2>2
  <2>4. new \in UNION {[U -> Values] : U \in SUBSET Tokens}
    BY <2>3
  <2> HIDE DEF new, old
  <2>5. sections'[current] \in SectionType
    BY <1>6, <1>7, <2>4 DEF SectionType
  <2>6. [sections EXCEPT ![current] = sections'[current]] \in Seq(SectionType)
    BY <1>2, <1>6, <2>5
  <2> QED BY <1>4, <1>7, <2>6
<1> HIDE DEF name, value, old, new
<1>13. IniTypeOK'
  BY <1>1, <1>2, <1>5, <1>12 DEF IniInv, IniTypeOK
<1>14. Distinct'
  BY <1>5, <1>10 DEF IniInv, Distinct
<1>15. AtHand'
  BY <1>1, <1>2, <1>10, <1>11 DEF AtHand
<1>16. Announced'
  BY <1>2, <1>5, <1>10 DEF IniInv, Announced
<1>17. Found'
  <2> SUFFICES ASSUME NEW n \in Read', file[n].kind = "token"
               PROVE  \E i \in DOMAIN sections' :
                        /\ Under(n, sections[i].name)'
                        /\ file[n].name \in DOMAIN sections'[i].tokens
                        /\ sections'[i].tokens[file[n].name] = file[n].value
    BY DEF Found
  <2>1. CASE n = next
    <3>1. Under(n, sections[current].name)'
      BY <1>1, <1>2, <1>8, <1>11, <2>1
    <3>2. file[n].name = name /\ file[n].value = value
      BY <2>1 DEF name, value
    <3>3. name \in DOMAIN new /\ new[name] = value
      BY <1>9
    <3>4. current \in DOMAIN sections'
      BY <1>2, <1>5
    <3> QED BY <1>1, <1>8, <3>1, <3>2, <3>3, <3>4
  <2>2. CASE n # next
    <3>1. n \in Read
      BY <1>2, <2>2
    <3>2. PICK i \in DOMAIN sections :
            /\ Under(n, sections[i].name)
            /\ file[n].name \in DOMAIN sections[i].tokens
            /\ sections[i].tokens[file[n].name] = file[n].value
      BY <3>1 DEF IniInv, Found
    <3>3. i \in DOMAIN sections' /\ Under(n, sections[i].name)'
      BY <1>2, <1>5, <1>10, <3>2
    <3>4. CASE i # current
      <4>1. sections'[i] = sections[i]
        BY <1>5, <3>4
      <4> QED BY <3>2, <3>3, <4>1
    <3>5. CASE i = current
      <4>1. file[n].name \in DOMAIN old /\ old[file[n].name] = file[n].value
        BY <3>2, <3>5 DEF old
      <4>2. file[n].name \in DOMAIN new /\ new[file[n].name] = file[n].value
        BY <1>9, <4>1
      <4> QED BY <1>8, <3>3, <3>5, <4>2
    <3> QED BY <3>4, <3>5
  <2> QED BY <2>1, <2>2
<1>18. Written'
  <2> SUFFICES ASSUME NEW i \in DOMAIN sections', NEW t \in DOMAIN sections'[i].tokens
               PROVE  \E n \in Read' : /\ Says(n, sections[i].name, t)'
                                       /\ file[n].value = sections'[i].tokens[t]
    BY DEF Written
  <2>1. i \in DOMAIN sections /\ sections'[i].name = sections[i].name
    BY <1>5, <1>10
  <2>2. CASE t \in DOMAIN sections[i].tokens
    <3>1. PICK n \in Read : Says(n, sections[i].name, t) /\ file[n].value = sections[i].tokens[t]
      BY <2>1, <2>2 DEF IniInv, Written
    <3>2. sections'[i].tokens[t] = sections[i].tokens[t]
      <4>1. CASE i # current
        BY <1>5, <2>1, <4>1
      <4>2. CASE i = current
        <5>1. t \in DOMAIN old /\ old[t] = sections[i].tokens[t]
          BY <2>2, <4>2 DEF old
        <5>2. new[t] = old[t]
          BY <1>9, <5>1
        <5> QED BY <1>8, <4>2, <5>1, <5>2
      <4> QED BY <4>1, <4>2
    <3>3. n \in Read' /\ Says(n, sections[i].name, t)'
      BY <1>2, <2>1, <3>1
    <3> QED BY <3>1, <3>2, <3>3
  <2>3. CASE t \notin DOMAIN sections[i].tokens
    <3>1. i = current
      BY <1>5, <2>1, <2>3
    <3>2. t = name
      <4>1. t \in DOMAIN new /\ t \notin DOMAIN old
        BY <1>8, <2>3, <3>1 DEF old
      <4> QED BY <1>9, <4>1
    <3>3. Says(next, sections[i].name, t)
      BY <1>1, <1>11, <3>1, <3>2 DEF Says, name
    <3>4. file[next].value = sections'[i].tokens[t]
      BY <1>8, <1>9, <3>1, <3>2 DEF value
    <3>5. PICK n \in Read' : n = next
      BY <1>2
    <3>6. Says(n, sections[i].name, t)'
      BY <1>2, <2>1, <3>3, <3>5
    <3> QED BY <3>4, <3>5, <3>6
  <2> QED BY <2>2, <2>3
<1> QED BY <1>2, <1>13, <1>14, <1>15, <1>16, <1>17, <1>18 DEF IniInv

\* The lines and the sections stay: only how far Load is changes.
LEMMA StopStep ==
  ASSUME IniInv, load' \in {"failed", "loaded"}, UNCHANGED <<file, next, sections, current>>,
         RejectedForAReason'
  PROVE  IniInv'
<1>1. /\ Read' = Read
      /\ \A n, s : Under(n, s)' <=> Under(n, s)
      /\ \A n, s, t : Says(n, s, t)' <=> Says(n, s, t)
  BY DEF Read, Under, IsHeader, Says
<1>2. IniTypeOK'
  BY DEF IniInv, IniTypeOK
<1>3. Distinct' /\ AtHand'
  BY DEF IniInv, Distinct, AtHand
<1>4. Found'
  BY <1>1 DEF IniInv, Found
<1>5. Written'
  BY <1>1 DEF IniInv, Written
<1>6. Announced'
  BY <1>1 DEF IniInv, Announced
<1> QED BY <1>2, <1>3, <1>4, <1>5, <1>6 DEF IniInv

LEMMA RejectStep == ASSUME IniInv, RejectLine PROVE IniInv'
<1>1. /\ load = "reading" /\ next \in DOMAIN file /\ load' = "failed"
      /\ UNCHANGED <<file, next, sections, current>>
  BY DEF RejectLine
<1>2. /\ current \in DOMAIN sections /\ next \in Nat \ {0}
      /\ Under(next - 1, sections[current].name)
  BY <1>1 DEF IniInv, IniTypeOK, AtHand
<1>3. sections[current].name \in SectionNames
  <2>1. sections[current] \in SectionType
    BY <1>2 DEF IniInv, IniTypeOK
  <2> QED BY <2>1 DEF SectionType
<1>4. \/ file[next].kind = "bad"
      \/ \E n \in Read, s \in Names \cup {""} : Says(n, s, file[next].name) /\ Under(next, s)
  <2>1. CASE file[next].kind = "bad"
    BY <2>1
  <2>2. CASE file[next].kind = "token" /\ TokenExists(current, file[next].name)
    <3>1. PICK n \in Read : Says(n, sections[current].name, file[next].name)
      BY <1>2, <2>2 DEF IniInv, Written, TokenExists
    <3>2. Under(next, sections[current].name)
      BY <1>2, <2>2, UnderStays DEF IsHeader
    <3> QED BY <1>3, <3>1, <3>2 DEF SectionNames
  <2> QED BY <2>1, <2>2 DEF RejectLine
<1>5. RejectedForAReason'
  <2>1. /\ Read' = Read
        /\ \A n, s : Under(n, s)' <=> Under(n, s)
        /\ \A n, s, t : Says(n, s, t)' <=> Says(n, s, t)
    BY <1>1 DEF Read, Under, IsHeader, Says
  <2> QED BY <1>1, <1>4, <2>1 DEF RejectedForAReason
<1> QED BY <1>1, <1>5, StopStep

LEMMA EndStep == ASSUME IniInv, EndOfFile PROVE IniInv'
<1>1. load' = "loaded" /\ UNCHANGED <<file, next, sections, current>>
  BY DEF EndOfFile
<1>2. RejectedForAReason'
  BY <1>1 DEF RejectedForAReason
<1> QED BY <1>1, <1>2, StopStep

LEMMA IdleStep == ASSUME IniInv, UNCHANGED iniVars PROVE IniInv'
<1>1. UNCHANGED <<file, next, sections, current, load>>
  BY DEF iniVars
<1>2. /\ Read' = Read
      /\ \A n, s : Under(n, s)' <=> Under(n, s)
      /\ \A n, s, t : Says(n, s, t)' <=> Says(n, s, t)
  BY <1>1 DEF Read, Under, IsHeader, Says
<1>3. IniTypeOK' /\ Distinct' /\ AtHand'
  BY <1>1, <1>2 DEF IniInv, IniTypeOK, Distinct, AtHand
<1>4. Found' /\ Written'
  BY <1>1, <1>2 DEF IniInv, Found, Written
<1>5. Announced' /\ RejectedForAReason'
  BY <1>1, <1>2 DEF IniInv, Announced, RejectedForAReason
<1> QED BY <1>3, <1>4, <1>5 DEF IniInv

LEMMA IniStep == IniInv /\ [IniNext]_iniVars => IniInv'
<1> SUFFICES ASSUME IniInv, [IniNext]_iniVars PROVE IniInv'
  OBVIOUS
<1>1. CASE ReadLine
  BY <1>1, IgnoreStep, OpenStep, AddStep DEF ReadLine
<1>2. CASE RejectLine
  BY <1>2, RejectStep
<1>3. CASE EndOfFile
  BY <1>3, EndStep
<1>4. CASE UNCHANGED iniVars
  BY <1>4, IdleStep
<1> QED BY <1>1, <1>2, <1>3, <1>4 DEF IniNext

LEMMA Invariance == IniSpec => []IniInv
BY IniStart, IniStep, PTL DEF IniSpec

-----------------------------------------------------------------------------
(* What the invariant says of the look-ups *)

LEMMA InvReadAsWritten == IniInv => ReadAsWritten
<1> SUFFICES ASSUME IniInv PROVE ReadAsWritten
  OBVIOUS
<1>1. ASSUME NEW n \in Read, file[n].kind = "token"
      PROVE  \E s \in Names \cup {""} :
                /\ Under(n, s) /\ FindSection(s)
                /\ TokenExists(IndexOf(s), file[n].name)
                /\ Value(IndexOf(s), file[n].name, 0) = file[n].value
  <2>1. PICK i \in DOMAIN sections :
          /\ Under(n, sections[i].name)
          /\ file[n].name \in DOMAIN sections[i].tokens
          /\ sections[i].tokens[file[n].name] = file[n].value
    BY <1>1 DEF IniInv, Found
  <2>2. FindSection(sections[i].name) /\ IndexOf(sections[i].name) = i
    BY LookUp DEF IniInv
  <2>3. sections[i].name \in Names \cup {""}
    <3>1. sections[i] \in SectionType
      BY DEF IniInv, IniTypeOK
    <3> QED BY <3>1 DEF SectionType, SectionNames
  <2>4. TokenExists(i, file[n].name) /\ Value(i, file[n].name, 0) = file[n].value
    BY <2>1 DEF TokenExists, Value
  <2> QED BY <2>1, <2>2, <2>3, <2>4
<1> QED BY <1>1 DEF ReadAsWritten, IniInv, Written

\* Whatever the file: every token up to the line reached is found in its section, with the
\* value written there, and no section holds a token that was not written in it.
THEOREM TokensAsWritten == IniSpec => []ReadAsWritten
<1>1. IniInv => ReadAsWritten
  BY InvReadAsWritten
<1> QED BY <1>1, Invariance, PTL

\* Whatever the file: Load fails only at a malformed line or at a token its section has.
THEOREM RejectedOnlyForAReason == IniSpec => []RejectedForAReason
<1>1. IniInv => RejectedForAReason
  BY DEF IniInv
<1> QED BY <1>1, Invariance, PTL
=============================================================================
