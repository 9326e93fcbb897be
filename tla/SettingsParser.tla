--------------------------- MODULE SettingsParser ---------------------------
(***************************************************************************)
(* ParseXmlFile: six nested loops over one reader.  Each loop looks at the *)
(* current token and decides how many readNext() calls to make before the  *)
(* loop it is then in looks again: reads counts the calls still to make.   *)
(***************************************************************************)
EXTENDS SettingsFile

VARIABLES
  pc,       \* the loop the parser is in
  reads,    \* readNext() calls to make before it looks at a token
  sec,      \* the section whose function runs
  isSucc,   \* parseSetting()'s result so far
  values,   \* the members
  result    \* what Parse() returned

parserVars == <<pc, reads, sec, isSucc, values, result>>
vars == <<readerVars, parserVars>>

Init ==
  /\ ReaderInit
  /\ pc = "open" /\ reads = 0
  /\ sec = "none" /\ isSucc = FALSE
  /\ values = [n \in Names |-> 0]
  /\ result = FALSE

Look(loop) == pc = loop /\ reads = 0

Go(loop, n) ==
  /\ pc' = loop /\ reads' = n
  /\ UNCHANGED <<readerVars, sec, isSucc, values, result>>

Return(r) ==
  /\ pc' = "done" /\ result' = r
  /\ UNCHANGED <<readerVars, reads, sec, isSucc, values>>

\* Every look that reads on.
Read ==
  /\ reads > 0
  /\ reads' = reads - 1
  /\ ReadNext
  /\ UNCHANGED <<pc, sec, isSucc, values, result>>

Open == Look("open") /\ (Return(FALSE) \/ Go("prolog", 1))

---------------------------------- (* Parse() *) -----------------------------

Prolog ==
  /\ Look("prolog")
  /\ CASE AtEnd -> Return(tok = "eod")
       [] tok = "start" -> IF elt.tag = "settings" THEN Go("settings", 1) ELSE Return(FALSE)
       [] OTHER -> Go("prolog", 1)

------------------------------ (* parseSetting() *) --------------------------

EnterSection ==
  /\ pc' = "section" /\ reads' = 1 /\ sec' = elt.tag
  /\ UNCHANGED <<readerVars, isSucc, values, result>>

Settings ==
  /\ Look("settings")
  /\ CASE AtEnd -> Return(isSucc)
       [] IsEnd -> Go("leave", 1)
       [] tok = "start" -> IF elt.tag \in Sections THEN EnterSection ELSE Return(FALSE)
       [] OTHER -> Go("settings", 1)

Leave == Look("leave") /\ Return(isSucc)

------------------------- (* parse...Setting(), one of five *) ---------------

\* Mutant: the readNext() behind a section's end is dropped.
LeaveSectionAtEnd(r, n) ==
  /\ pc' = "settings" /\ reads' = 0 /\ isSucc' = r
  /\ UNCHANGED <<readerVars, sec, values, result>>

LeaveSection(r, n) ==
  /\ pc' = "settings" /\ reads' = n /\ isSucc' = r
  /\ UNCHANGED <<readerVars, sec, values, result>>

\* Mutant: an entry is followed by two readNext(), as the array is.
ReadEntryTwice ==
  \E t \in Texts :
    /\ ReadText(t)
    /\ values' = [values EXCEPT ![elt.name] = t]
    /\ reads' = 2
    /\ UNCHANGED <<pc, sec, isSucc, result>>

ReadEntry ==
  \E t \in Texts :
    /\ ReadText(t)
    /\ values' = [values EXCEPT ![elt.name] = t]
    /\ reads' = 1
    /\ UNCHANGED <<pc, sec, isSucc, result>>

\* Mutants: an unknown entry is skipped; a text is looked at for ever.
SectionSkipsUnknown ==
  /\ Look("section")
  /\ CASE AtEnd -> LeaveSection(TRUE, 0)
       [] IsEnd -> LeaveSection(TRUE, 1)
       [] tok = "start" /\ Known(sec, elt) -> ReadEntry
       [] tok = "start" /\ IsArray(sec, elt) /\ elt.name = "indicatorList" -> Go("array", 1)
       [] OTHER -> Go("section", 1)
SectionStaysAtText ==
  /\ Look("section")
  /\ CASE AtEnd -> LeaveSection(TRUE, 0)
       [] IsEnd -> LeaveSection(TRUE, 1)
       [] tok = "start" ->
            IF Known(sec, elt) THEN ReadEntry
            ELSE IF ~IsArray(sec, elt) THEN LeaveSection(FALSE, 0)
            ELSE IF elt.name = "indicatorList" THEN Go("array", 1) ELSE Go("section", 1)
       [] OTHER -> Go("section", 0)

Section ==
  /\ Look("section")
  /\ CASE AtEnd -> LeaveSection(TRUE, 0)
       [] IsEnd -> LeaveSection(TRUE, 1)
       [] tok = "start" ->
            IF Known(sec, elt) THEN ReadEntry
            ELSE IF ~IsArray(sec, elt) THEN LeaveSection(FALSE, 0)
            ELSE IF elt.name = "indicatorList" THEN Go("array", 1) ELSE Go("section", 1)
       [] OTHER -> Go("section", 1)

\* The items go to indicatorList_, which nothing reads: they are not kept here.
ReadItem ==
  \E t \in Texts :
    /\ ReadText(t)
    /\ reads' = 1
    /\ UNCHANGED <<pc, sec, isSucc, values, result>>

\* Mutant: one readNext() too many behind the array.
ArrayThree ==
  /\ Look("array")
  /\ CASE AtEnd -> Go("section", 1)
       [] IsEnd -> Go("section", 3)
       [] tok = "start" /\ elt.tag = "item" -> ReadItem
       [] OTHER -> Go("array", 1)

\* Behind the array's loop there is one more readNext().
Array ==
  /\ Look("array")
  /\ CASE AtEnd -> Go("section", 1)
       [] IsEnd -> Go("section", 2)
       [] tok = "start" /\ elt.tag = "item" -> ReadItem
       [] OTHER -> Go("array", 1)

Stop == pc = "done" /\ UNCHANGED vars

Next == Open \/ Read \/ Prolog \/ Settings \/ Leave \/ Section \/ Array \/ Stop

Spec == Init /\ [][Next]_vars
FairSpec == Spec /\ WF_vars(Next)

--------------------------------------------------------------------------------
Places == {"prolog", "settings", "section", "entry", "array", "item", "epilog", "anywhere"}

\* Every variable of the reader and the parser stays in its range.
TypeOK ==
  /\ tok \in {"none", "text", "start", "end", "endArray", "eod", "error"}
  /\ elt \in Elements \cup {NoElement}
  /\ place \in Places
  /\ docSection \in Sections \cup {"none"}
  /\ odd \in BOOLEAN
  /\ ref \in [Names -> Texts \cup {Unset}]
  /\ fault \in {"none", "unknown", "misplaced", "tight", "error"}
  /\ anySection \in BOOLEAN
  /\ pc \in {"open", "prolog", "settings", "section", "array", "leave", "done"}
  /\ reads \in 0..2
  /\ sec \in Sections \cup {"none"}
  /\ isSucc \in BOOLEAN
  /\ values \in [Names -> Texts]
  /\ result \in BOOLEAN

Meant(n) == IF ref[n] = Unset THEN 0 ELSE ref[n]

\* A file that is what it should be is read to its end and accepted, and every
\* member then has the value the file gives it, wherever blanks, comments,
\* repeated sections and repeated entries stand (parsexmlfile.cpp 9-280).
Faithful ==
  pc = "done" /\ fault = "none" /\ anySection
    => result /\ place = "epilog" /\ \A n \in Names : values[n] = Meant(n)

\* A file that breaks off, or stops being XML, is read up to that place: the
\* members are never a mixture of it with anything else.
PrefixIsRead ==
  pc = "done" /\ fault \in {"none", "error"} => \A n \in Names : values[n] = Meant(n)

\* An entry the section does not know makes Parse() return false, although the
\* section's own false is overwritten by whatever section is read after it.
UnknownRefused == pc = "done" /\ fault = "unknown" => ~result

\* Parse() ends, or it goes on to read tokens: no loop stays at one token.
KeepsReading == <>(pc = "done") \/ ([]<>odd /\ []<>~odd)
=============================================================================
