------------------------ MODULE SettingsParser_proofs ------------------------
(***************************************************************************)
(* Proofs about ParseXmlFile and about what ClusterData takes from it, for *)
(* documents of any length and any content.                                *)
(***************************************************************************)
EXTENDS ClusterSettings, TLAPS

-----------------------------------------------------------------------------
(***************************************************************************)
(* WHERE THE PARSER IS, AS LONG AS THE DOCUMENT IS REGULAR.  Each loop sits *)
(* at the level of the document its name says, with one exception: the two *)
(* readNext() calls behind an array may step over the end of its section,  *)
(* so that the section's loop reads on one level further out (Lagging)     *)
(* until it meets the next section, which it refuses and parseSetting()    *)
(* then reads, or the end of the settings.                                 *)
(***************************************************************************)
Lagging ==
  \/ tok = "end" /\ place = "settings" /\ reads = 1
  \/ tok = "text" /\ place = "settings" /\ reads \in 0..1
  \/ tok = "end" /\ place = "epilog" /\ reads = 0
  \/ tok = "start" /\ elt.tag \in Sections /\ place = "section" /\ reads = 0

InProlog ==
  /\ ~anySection /\ reads \in 0..1
  /\ \/ place = "prolog" /\ tok \in {"none", "text"}
     \/ place = "settings" /\ tok = "start" /\ elt.tag = "settings" /\ reads = 0

InSettings ==
  /\ reads \in 0..1
  /\ \/ place = "settings" /\ tok # "eod" /\ (tok = "start" => reads = 1)
        /\ (tok \in {"end", "endArray", "none"} => reads = 1)
     \/ place = "epilog" /\ tok \in {"end", "text", "eod"}
     \/ place = "section" /\ tok = "start" /\ elt.tag \in Sections /\ reads = 0
          /\ docSection = elt.tag /\ anySection
  /\ anySection => isSucc \/ place = "section"

InSection ==
  /\ anySection
  /\ \/ Lagging /\ (place = "section" => docSection = elt.tag)
     \/ /\ sec = docSection
        /\ \/ place = "section" /\ tok # "eod" /\ (reads = 0 => tok = "text")
                /\ (reads = 2 => tok = "endArray")
           \/ place = "settings" /\ tok = "end" /\ reads = 0
           \/ place = "entry" /\ tok = "start" /\ reads = 0 /\ Known(sec, elt)
           \/ place = "array" /\ tok = "start" /\ reads = 0
                /\ IsArray(sec, elt) /\ elt.name = "indicatorList"

InArray ==
  /\ anySection /\ sec = docSection /\ sec = "indicatorSetting" /\ reads \in 0..1
  /\ \/ place = "array" /\ tok # "eod" /\ (reads = 0 => tok = "text")
     \/ place = "section" /\ tok = "endArray" /\ reads = 0
     \/ place = "item" /\ tok = "start" /\ elt.tag = "item" /\ reads = 0

Regular ==
  /\ tok # "error"
  /\ pc = "open" => reads = 0 /\ tok = "none" /\ place = "prolog" /\ ~anySection
  /\ pc = "prolog" => InProlog
  /\ pc = "settings" => InSettings
  /\ pc = "section" => InSection
  /\ pc = "array" => InArray
  /\ pc = "leave" => place = "epilog" /\ (anySection => isSucc)
  /\ pc = "done" /\ anySection => result /\ place = "epilog"

\* The entry whose start was just read has its value in the file alone.
Pending(n) == pc = "section" /\ reads = 0 /\ place = "entry" /\ tok = "start" /\ n = elt.name

Matches ==
  \A n \in Names :
    /\ ~Pending(n) => values[n] = Meant(n)
    /\ Pending(n) => ref[n] = elt.text

Refusing ==
  \/ pc \in {"section", "settings"} /\ reads = 0 /\ tok = "start" /\ elt.tag \in Entries
       /\ (pc = "section" => ~Known(sec, elt))
  \/ pc = "done" /\ ~result

ParserInv ==
  /\ TypeOK
  /\ fault = "none" => Regular /\ Matches
  /\ fault = "error" => tok = "error" /\ \A n \in Names : values[n] = Meant(n)
  /\ fault = "unknown" => Refusing
  /\ pc = "done" => reads = 0
-----------------------------------------------------------------------------
LEMMA ElementType ==
  ASSUME NEW e \in Elements
  PROVE  /\ e.tag \in Entries => e.name \in Names
         /\ e.text \in Texts /\ (e.tag \in Sections => e.tag \notin Entries)
  BY TextsAssumption DEF Elements, Entries, Sections

LEMMA KnownEntry ==
  ASSUME NEW e \in Elements, NEW section, Known(section, e) PROVE e.tag \in Entries
  BY DEF Known, Entries

LEMMA OutsidePlace == place \in Places => Outside \in Places
  BY DEF Outside, Places

LEMMA InsidePlace == ASSUME NEW e \in Elements PROVE Inside(e) \in Places
  BY DEF Inside, Places

LEMMA InsideEntry ==
  ASSUME NEW e \in Elements
  PROVE  /\ Inside(e) = "entry" => place = "section" /\ e.tag \in Entries
         /\ Inside(e) = "section" => place = "settings" /\ e.tag \in Sections
  BY DEF Inside

LEMMA FirstValues ==
  ASSUME NEW e \in Elements
  PROVE  /\ Irregularity(e) \in {"none", "unknown", "misplaced", "tight"}
         /\ First(Irregularity(e)) = "none" <=> fault = "none" /\ Irregularity(e) = "none"
         /\ First("error") # "none"
  BY DEF First, Irregularity

-----------------------------------------------------------------------------
\* The type invariant.
ReaderType ==
  /\ tok \in {"none", "text", "start", "end", "endArray", "eod", "error"}
  /\ elt \in Elements \cup {NoElement}
  /\ place \in Places
  /\ docSection \in Sections \cup {"none"}
  /\ odd \in BOOLEAN
  /\ ref \in [Names -> Texts \cup {Unset}]
  /\ fault \in {"none", "unknown", "misplaced", "tight", "error"}
  /\ anySection \in BOOLEAN

LEMMA ReadNextType == ReaderType /\ ReadNext => ReaderType'
<1> SUFFICES ASSUME ReaderType, ReadNext PROVE ReaderType'
  OBVIOUS
<1>1. CASE UNCHANGED readerVars
  BY <1>1 DEF ReaderType, readerVars
<1>2. CASE ~AtEnd /\ (TextToken \/ EndToken \/ EndOfDocument \/ ErrorToken)
  BY <1>2, OutsidePlace DEF ReadNext, ReaderType, TextToken, EndToken, EndOfDocument,
     ErrorToken, Silent, First
<1>3. CASE ~AtEnd /\ \E e \in Elements : StartToken(e)
  <2>1. PICK e \in Elements : StartToken(e)
    BY <1>3
  <2>2. ref' \in [Names -> Texts \cup {Unset}]
    <3>1. CASE ref' = ref
      BY <3>1 DEF ReaderType
    <3>2. CASE ref' = [ref EXCEPT ![e.name] = e.text]
      BY <3>2, ElementType DEF ReaderType
    <3> QED BY <2>1, <3>1, <3>2 DEF StartToken, Meaning
  <2>3. fault' \in {"none", "unknown", "misplaced", "tight", "error"}
    BY <2>1, FirstValues DEF StartToken, First, ReaderType
  <2>4. docSection' \in Sections \cup {"none"}
    BY <2>1, InsideEntry DEF StartToken, ReaderType
  <2> QED BY <1>3, <2>1, <2>2, <2>3, <2>4, InsidePlace DEF ReadNext, StartToken, ReaderType
<1> QED BY <1>1, <1>2, <1>3 DEF ReadNext

LEMMA ReadTextType ==
  ASSUME ReaderType, NEW t \in Texts, ReadText(t) PROVE ReaderType'
<1>1. ref' \in [Names -> Texts \cup {Unset}]
  <2>1. ref' = ref \/ ref' = [ref EXCEPT ![elt.name] = t]
    BY DEF ReadText
  <2> QED BY <2>1 DEF ReaderType
<1> QED BY <1>1, OutsidePlace DEF ReadText, ReaderType, First

Loops == {"open", "prolog", "settings", "section", "array", "leave", "done"}
ParserFlags == isSucc \in BOOLEAN /\ result \in BOOLEAN
ParserPlace ==
  /\ pc \in Loops
  /\ reads \in 0..2
  /\ sec \in Sections \cup {"none"}
  /\ values \in [Names -> Texts]
ParserType == ParserFlags /\ ParserPlace

LEMMA TypeParts ==
  (TypeOK <=> ReaderType /\ ParserType) /\ (TypeOK' <=> ReaderType' /\ ParserType')
  BY DEF TypeOK, ReaderType, ParserType, ParserFlags, ParserPlace, Loops

LEMMA TypeInit == Init => TypeOK
<1> SUFFICES ASSUME Init PROVE ReaderType /\ ParserType
  BY TypeParts
<1>1. ref \in [Names -> Texts \cup {Unset}] /\ values \in [Names -> Texts]
  BY TextsAssumption DEF Init, ReaderInit
<1>2. ReaderType
  BY <1>1 DEF Init, ReaderInit, ReaderType, Places
<1>3. ParserType
  <2>1. ParserFlags
    BY DEF Init, ParserFlags
  <2>2. ParserPlace
    BY <1>1 DEF Init, ParserPlace, Loops
  <2> QED BY <2>1, <2>2 DEF ParserType
<1> QED BY <1>2, <1>3

\* The ways to move on without touching the members.
LEMMA MoveTypes ==
  ASSUME ParserType
  PROVE  /\ \A loop \in Loops, n \in 0..2 : Go(loop, n) => ParserType' /\ UNCHANGED readerVars
         /\ \A r \in BOOLEAN : Return(r) => ParserType' /\ UNCHANGED readerVars
         /\ \A r \in BOOLEAN, n \in 0..2 :
              LeaveSection(r, n) => ParserType' /\ UNCHANGED readerVars
         /\ elt.tag \in Sections /\ EnterSection => ParserType' /\ UNCHANGED readerVars
<1> USE DEF ParserType
<1>1. ASSUME NEW loop \in Loops, NEW n \in 0..2, Go(loop, n)
      PROVE  ParserType' /\ UNCHANGED readerVars
  <2>1. ParserFlags'
    BY <1>1 DEF Go, ParserFlags
  <2>2. ParserPlace'
    BY <1>1 DEF Go, ParserPlace
  <2> QED BY <1>1, <2>1, <2>2 DEF Go
<1>2. ASSUME NEW r \in BOOLEAN, Return(r) PROVE ParserType' /\ UNCHANGED readerVars
  <2>1. ParserFlags'
    BY <1>2 DEF Return, ParserFlags
  <2>2. ParserPlace'
    BY <1>2 DEF Return, ParserPlace, Loops
  <2> QED BY <1>2, <2>1, <2>2 DEF Return
<1>3. ASSUME NEW r \in BOOLEAN, NEW n \in 0..2, LeaveSection(r, n)
      PROVE  ParserType' /\ UNCHANGED readerVars
  <2>1. ParserFlags'
    BY <1>3 DEF LeaveSection, ParserFlags
  <2>2. ParserPlace'
    BY <1>3 DEF LeaveSection, ParserPlace, Loops
  <2> QED BY <1>3, <2>1, <2>2 DEF LeaveSection
<1>4. ASSUME elt.tag \in Sections, EnterSection PROVE ParserType' /\ UNCHANGED readerVars
  <2>1. ParserFlags'
    BY <1>4 DEF EnterSection, ParserFlags
  <2>2. ParserPlace'
    BY <1>4 DEF EnterSection, ParserPlace, Loops
  <2> QED BY <1>4, <2>1, <2>2 DEF EnterSection
<1> QED BY <1>1, <1>2, <1>3, <1>4

\* What each look does, with the moves it chooses between left folded.
LEMMA LookTypes ==
  ASSUME ReaderType, ParserType,
         Open \/ Prolog \/ Settings \/ Leave \/ Stop \/ (Section /\ ~ReadEntry) \/ (Array /\ ~ReadItem)
  PROVE  ParserType' /\ UNCHANGED readerVars
<1> USE MoveTypes
<1>0. /\ 0 \in 0..2 /\ 1 \in 0..2 /\ 2 \in 0..2
      /\ isSucc \in BOOLEAN /\ (tok = "eod") \in BOOLEAN
      /\ {"prolog", "settings", "leave", "section", "array"} \subseteq Loops
  BY DEF ParserType, ParserFlags, Loops
<1>1. CASE Open
  BY <1>0, <1>1 DEF Open
<1>2. CASE Prolog
  BY <1>0, <1>2 DEF Prolog
<1>3. CASE Settings
  BY <1>0, <1>3 DEF Settings
<1>4. CASE Leave
  BY <1>0, <1>4 DEF Leave
<1>5. CASE Stop
  BY <1>5 DEF Stop, vars, parserVars, ParserType, ParserFlags, ParserPlace
<1>6. CASE Section /\ ~ReadEntry
  BY <1>0, <1>6 DEF Section
<1>7. CASE Array /\ ~ReadItem
  BY <1>0, <1>7 DEF Array
<1> QED BY <1>1, <1>2, <1>3, <1>4, <1>5, <1>6, <1>7

LEMMA TypeStep == TypeOK /\ [Next]_vars => TypeOK'
<1> SUFFICES ASSUME ReaderType, ParserType, [Next]_vars PROVE ReaderType' /\ ParserType'
  BY TypeParts
<1>1. CASE Read
  <2>1. ParserFlags'
    BY <1>1 DEF Read, ParserType, ParserFlags
  <2>2. ParserPlace'
    BY <1>1 DEF Read, ParserType, ParserPlace
  <2> QED BY <1>1, <2>1, <2>2, ReadNextType DEF Read, ParserType
<1>2. ASSUME NEW t \in Texts, ReadText(t), values' = values \/ values' = [values EXCEPT ![elt.name] = t],
             reads' = 1, UNCHANGED <<pc, sec, isSucc, result>>
      PROVE  ReaderType' /\ ParserType'
  <2>1. values' \in [Names -> Texts]
    BY <1>2 DEF ParserType, ParserPlace
  <2>2. ParserFlags'
    BY <1>2 DEF ParserType, ParserFlags
  <2>3. ParserPlace'
    BY <1>2, <2>1 DEF ParserType, ParserPlace
  <2> QED BY <1>2, <2>2, <2>3, ReadTextType DEF ParserType
<1>3. ASSUME UNCHANGED readerVars PROVE ReaderType'
  BY <1>3 DEF readerVars, ReaderType
<1>4. CASE UNCHANGED vars
  BY <1>3, <1>4 DEF vars, parserVars, ParserType, ParserFlags, ParserPlace
<1>5. CASE ReadEntry \/ ReadItem
  BY <1>2, <1>5 DEF ReadEntry, ReadItem
<1> QED BY <1>1, <1>3, <1>4, <1>5, LookTypes DEF Next

\* Every variable of the reader and the parser stays in its range.
THEOREM TypeCorrect == Spec => []TypeOK
  BY TypeInit, TypeStep, PTL DEF Spec

-----------------------------------------------------------------------------
\* A token of a document that is regular up to and including it.
Text == tok' = "text" /\ UNCHANGED <<place, docSection, anySection, ref>>
End ==
  /\ place \notin {"prolog", "epilog"}
  /\ tok' = IF place = "array" THEN "endArray" ELSE "end"
  /\ place' = Outside
  /\ UNCHANGED <<docSection, anySection, ref>>
Eod == place \in {"epilog", "anywhere"} /\ tok' = "eod" /\ UNCHANGED <<place, docSection, anySection, ref>>
Opens(e) ==
  /\ tok' = "start" /\ elt' = e /\ place' = Inside(e)
  /\ tok # "endArray"
  /\ docSection' = IF Inside(e) = "section" THEN e.tag ELSE docSection
  /\ anySection' = (anySection \/ Inside(e) = "section")
  /\ ref' = IF Inside(e) = "entry" THEN [ref EXCEPT ![e.name] = e.text] ELSE ref
  /\ CASE place = "prolog" -> e.tag = "settings" /\ Inside(e) = "settings"
       [] place = "settings" -> e.tag \in Sections /\ Inside(e) = "section"
       [] place = "section" -> \/ e.tag \in Entries /\ Known(docSection, e) /\ Inside(e) = "entry"
                               \/ /\ IsArray(docSection, e) /\ e.name = "indicatorList"
                                  /\ Inside(e) = "array"
       [] place = "array" -> e.tag = "item" /\ Inside(e) = "item"
       [] OTHER -> FALSE

LEMMA InsidePlaces ==
  ASSUME NEW e \in Elements, Inside(e) # "anywhere"
  PROVE  CASE place = "prolog" -> e.tag = "settings" /\ Inside(e) = "settings"
           [] place = "settings" -> e.tag \in Sections /\ Inside(e) = "section"
           [] place = "section" -> \/ e.tag \in Entries /\ Inside(e) = "entry"
                                   \/ /\ IsArray(docSection, e) /\ e.name = "indicatorList"
                                      /\ Inside(e) = "array"
           [] place = "array" -> e.tag = "item" /\ Inside(e) = "item"
           [] OTHER -> FALSE
  BY DEF Inside

LEMMA RegularToken ==
  ASSUME ReaderType, fault = "none", fault' = "none", tok # "eod", ReadNext
  PROVE  tok = "error" \/ Text \/ End \/ Eod \/ \E e \in Elements : Opens(e)
<1>1. CASE AtEnd
  BY <1>1 DEF AtEnd
<1>2. CASE TextToken \/ EndToken \/ EndOfDocument
  BY <1>2 DEF TextToken, EndToken, EndOfDocument, Silent, Text, End, Eod
<1>3. CASE ErrorToken
  BY <1>3 DEF ErrorToken, First
<1>4. ASSUME NEW e \in Elements, StartToken(e) PROVE Opens(e)
  <2>1. Irregularity(e) = "none"
    BY <1>4 DEF StartToken, First
  <2>2. Inside(e) # "anywhere" /\ tok # "endArray"
    BY <2>1 DEF Irregularity
  <2>3. Inside(e) = "entry" => Known(docSection, e)
    BY <2>1 DEF Irregularity
  <2>4. ref' = IF Inside(e) = "entry" THEN [ref EXCEPT ![e.name] = e.text] ELSE ref
    BY <1>4, <2>1 DEF StartToken, Meaning, First
  <2> QED BY <1>4, <2>2, <2>3, <2>4, InsidePlaces DEF StartToken, Opens
<1> QED BY <1>1, <1>2, <1>3, <1>4 DEF ReadNext

\* Reading on keeps every loop at its level,
LEMMA ReadRegular ==
  ASSUME TypeOK, Regular, fault = "none", fault' = "none", pc # "done", Read
  PROVE  Regular'
<1>0. ReaderType /\ reads \in 1..2 /\ reads' = reads - 1 /\ ReadNext
      /\ UNCHANGED <<pc, sec, isSucc, result>>
  BY TypeParts DEF Read, TypeOK
<1>1. CASE tok = "eod"
  <2>1. UNCHANGED readerVars
    BY <1>0, <1>1 DEF ReadNext, AtEnd
  <2>2. place = "epilog" /\ pc \in {"settings", "leave"}
    BY <1>0, <1>1 DEF Regular, InProlog, InSettings, InSection, InArray, Lagging, TypeOK
  <2> QED BY <1>0, <1>1, <2>1, <2>2 DEF Regular, InSettings, readerVars
<1>2. CASE tok # "eod"
  <2>0. Text \/ End \/ Eod \/ \E e \in Elements : Opens(e)
    BY <1>0, <1>2, RegularToken DEF Regular
  <2>1. CASE pc = "prolog"
    <3>1. place = "prolog" /\ tok \in {"none", "text"} /\ ~anySection /\ reads = 1 /\ reads' = 0
      BY <1>0, <2>1 DEF Regular, InProlog
    <3>2. CASE Text \/ End \/ Eod
      BY <1>0, <2>1, <3>1, <3>2 DEF Text, End, Eod, Regular, InProlog
    <3>3. ASSUME NEW e \in Elements, Opens(e) PROVE Regular'
      <4>1. e.tag = "settings" /\ place' = "settings" /\ ~anySection' /\ tok' = "start" /\ elt' = e
        BY <3>1, <3>3 DEF Opens
      <4>2. InProlog'
        BY <3>1, <4>1 DEF InProlog
      <4> QED BY <1>0, <2>1, <4>1, <4>2 DEF Regular
    <3> QED BY <2>0, <3>2, <3>3
  <2>2. CASE pc = "settings"
    <3>1. /\ reads = 1 /\ reads' = 0 /\ place \in {"settings", "epilog"}
          /\ place = "epilog" => tok \in {"end", "text"}
          /\ anySection => isSucc
      BY <1>0, <1>2, <2>2 DEF Regular, InSettings
    <3>2. CASE Text \/ End \/ Eod
      BY <1>0, <2>2, <3>1, <3>2 DEF Text, End, Eod, Regular, InSettings, Outside
    <3>3. ASSUME NEW e \in Elements, Opens(e) PROVE Regular'
      <4>1. e.tag \in Sections /\ place' = "section" /\ docSection' = e.tag
        BY <3>1, <3>3 DEF Opens
      <4>2. anySection'
        BY <3>1, <3>3 DEF Opens
      <4>3. tok' = "start" /\ elt' = e
        BY <3>3 DEF Opens
      <4>4. InSettings'
        BY <3>1, <4>1, <4>2, <4>3 DEF InSettings
      <4> QED BY <1>0, <2>2, <4>3, <4>4 DEF Regular
    <3> QED BY <2>0, <3>2, <3>3
  <2>3. CASE pc = "section"
    <3>1. CASE place = "section" /\ sec = docSection /\ anySection /\ (reads = 2 => tok = "endArray")
      <4>1. CASE Text \/ End \/ Eod
        <5>0. anySection'
          BY <3>1, <4>1 DEF Text, End, Eod
        <5>1. /\ docSection' = docSection
              /\ \/ tok' = "text" /\ place' = "section"
                 \/ tok' = "end" /\ place' = "settings"
          BY <3>1, <4>1 DEF Text, End, Eod, Outside
        <5>2. reads' \in 0..1 /\ sec' = sec /\ (reads = 1 => reads' = 0) /\ (reads = 2 => reads' = 1)
          BY <1>0
        <5>3. InSection'
          BY <1>0, <3>1, <5>0, <5>1, <5>2 DEF InSection, Lagging
        <5> QED BY <1>0, <2>3, <5>1, <5>3 DEF Regular
      <4>2. ASSUME NEW e \in Elements, Opens(e) PROVE Regular'
        <5>1. reads = 1 /\ reads' = 0
          BY <1>0, <3>1, <4>2 DEF Opens
        <5>2. \/ e.tag \in Entries /\ Known(docSection, e) /\ Inside(e) = "entry"
              \/ IsArray(docSection, e) /\ e.name = "indicatorList" /\ Inside(e) = "array"
          BY <3>1, <4>2 DEF Opens
        <5>3. docSection' = docSection /\ anySection' /\ tok' = "start" /\ elt' = e /\ place' = Inside(e)
          BY <3>1, <4>2, <5>2 DEF Opens
        <5>4. \/ place' = "entry" /\ Known(docSection, elt')
              \/ place' = "array" /\ IsArray(docSection, elt') /\ elt'.name = "indicatorList"
          BY <5>2, <5>3
        <5>5. InSection'
          BY <1>0, <3>1, <5>1, <5>3, <5>4 DEF InSection
        <5> QED BY <1>0, <2>3, <5>3, <5>5 DEF Regular
      <4> QED BY <2>0, <4>1, <4>2
    <3>2. CASE place = "settings" /\ anySection /\ reads = 1
      <4>1. CASE Text \/ End \/ Eod
        <5>0. anySection'
          BY <3>2, <4>1 DEF Text, End, Eod
        <5>1. (tok' = "text" /\ place' = "settings") \/ (tok' = "end" /\ place' = "epilog")
          BY <3>2, <4>1 DEF Text, End, Eod, Outside
        <5>2. reads' = 0
          BY <1>0, <3>2
        <5>3. InSection'
          BY <5>0, <5>1, <5>2 DEF InSection, Lagging
        <5> QED BY <1>0, <2>3, <5>1, <5>3 DEF Regular
      <4>2. ASSUME NEW e \in Elements, Opens(e) PROVE Regular'
        <5>1. /\ e.tag \in Sections /\ place' = "section" /\ anySection'
              /\ tok' = "start" /\ elt' = e /\ docSection' = e.tag
          BY <3>2, <4>2 DEF Opens
        <5>2. reads' = 0
          BY <1>0, <3>2
        <5>3. InSection'
          BY <5>1, <5>2 DEF InSection, Lagging
        <5> QED BY <1>0, <2>3, <5>1, <5>3 DEF Regular
      <4> QED BY <2>0, <4>1, <4>2
    <3> QED BY <1>0, <2>3, <3>1, <3>2 DEF Regular, InSection, Lagging
  <2>4. CASE pc = "array"
    <3>1. place = "array" /\ reads = 1 /\ reads' = 0 /\ anySection /\ sec = docSection /\ sec = "indicatorSetting"
      BY <1>0, <2>4 DEF Regular, InArray
    <3>2. CASE Text \/ End \/ Eod
      <4>0. anySection'
        BY <3>1, <3>2 DEF Text, End, Eod
      <4>1. /\ docSection' = docSection /\ sec' = sec
            /\ \/ tok' = "text" /\ place' = "array"
               \/ tok' = "endArray" /\ place' = "section"
        BY <1>0, <3>1, <3>2 DEF Text, End, Eod, Outside
      <4>2. InArray'
        <5>1. sec' = docSection' /\ sec' = "indicatorSetting"
          BY <3>1, <4>0, <4>1, Zenon
        <5>3. reads' \in 0..1
          BY <3>1
        <5>2. \/ place' = "array" /\ tok' # "eod" /\ (reads' = 0 => tok' = "text")
              \/ place' = "section" /\ tok' = "endArray" /\ reads' = 0
              \/ place' = "item" /\ tok' = "start" /\ elt'.tag = "item" /\ reads' = 0
          BY <3>1, <4>1
        <5> QED BY <4>0, <5>1, <5>2, <5>3, Zenon DEF InArray
      <4> QED BY <1>0, <2>4, <4>1, <4>2 DEF Regular
    <3>3. ASSUME NEW e \in Elements, Opens(e) PROVE Regular'
      <4>0. anySection' /\ sec' = sec
        BY <1>0, <3>1, <3>3 DEF Opens
      <4>1. /\ docSection' = docSection
            /\ e.tag = "item" /\ place' = "item" /\ tok' = "start" /\ elt' = e
        BY <3>1, <3>3 DEF Opens
      <4>2. InArray'
        <5>1. sec' = docSection' /\ sec' = "indicatorSetting"
          BY <3>1, <4>0, <4>1, Zenon
        <5>3. reads' \in 0..1
          BY <3>1
        <5>2. \/ place' = "array" /\ tok' # "eod" /\ (reads' = 0 => tok' = "text")
              \/ place' = "section" /\ tok' = "endArray" /\ reads' = 0
              \/ place' = "item" /\ tok' = "start" /\ elt'.tag = "item" /\ reads' = 0
          BY <3>1, <4>1
        <5> QED BY <4>0, <5>1, <5>2, <5>3, Zenon DEF InArray
      <4> QED BY <1>0, <2>4, <4>1, <4>2 DEF Regular
    <3> QED BY <2>0, <3>2, <3>3
  <2>5. CASE pc = "leave"
    <3>1. place = "epilog" /\ (anySection => isSucc)
      BY <2>5 DEF Regular
    <3>2. Text \/ Eod
      BY <2>0, <3>1 DEF End, Opens
    <3> QED BY <1>0, <2>5, <3>1, <3>2 DEF Text, Eod, Regular
  <2>6. pc # "open"
    BY <1>0 DEF Regular
  <2> QED BY <2>1, <2>2, <2>3, <2>4, <2>5, <2>6 DEF TypeOK
<1> QED BY <1>1, <1>2

\* Only the loop of a section reads an entry, and it looks at it next.
LEMMA AtEntry ==
  ASSUME Regular, TypeOK, reads > 0, place = "section", tok # "endArray", pc # "done"
  PROVE  pc = "section" /\ reads = 1 /\ sec = docSection
<1>1. pc = "section"
  BY DEF Regular, InProlog, InSettings, InArray, TypeOK
<1>2. InSection
  BY <1>1 DEF Regular
<1> QED BY <1>1, <1>2 DEF InSection, Lagging, TypeOK

\* and keeps the members in step with the document.
LEMMA ReadMatches ==
  ASSUME TypeOK, Regular, Matches, fault = "none", fault' = "none", pc # "done", Read
  PROVE  Matches'
<1>0. ReaderType /\ reads \in 1..2 /\ reads' = reads - 1 /\ ReadNext /\ UNCHANGED <<pc, values>>
  BY TypeParts DEF Read, TypeOK
<1>1. \A n \in Names : values[n] = Meant(n)
  BY <1>0 DEF Matches, Pending
<1>2. CASE ref' = ref /\ ~(tok' = "start" /\ place' = "entry")
  BY <1>0, <1>1, <1>2 DEF Matches, Meant, Pending
<1>3. ASSUME NEW e \in Elements, Opens(e), Inside(e) = "entry" PROVE Matches'
  <2>1. place = "section" /\ tok # "endArray"
    BY <1>3 DEF Opens, Inside
  <2>2. pc' = "section" /\ reads' = 0
    BY <1>0, <2>1, AtEntry
  <2>3. tok' = "start" /\ place' = "entry" /\ elt' = e /\ ref' = [ref EXCEPT ![e.name] = e.text]
    BY <1>3 DEF Opens
  <2>4. \A n \in Names : n # e.name => Meant(n)' = Meant(n)
    BY <2>3 DEF Meant, TypeOK
  <2>5. e.name \in Names => ref'[e.name] = e.text
    BY <2>3 DEF TypeOK
  <2> QED BY <1>0, <1>1, <2>2, <2>3, <2>4, <2>5 DEF Matches, Pending
<1>4. \/ ref' = ref /\ ~(tok' = "start" /\ place' = "entry")
      \/ \E e \in Elements : Opens(e) /\ Inside(e) = "entry"
  <2>1. CASE tok = "eod"
    BY <1>0, <2>1 DEF ReadNext, AtEnd, readerVars
  <2>2. CASE tok # "eod"
    BY <1>0, <2>2, RegularToken DEF Regular, Text, End, Eod, Opens
  <2> QED BY <2>1, <2>2
<1> QED BY <1>2, <1>3, <1>4

LEMMA UnknownEntry ==
  ASSUME NEW e, Irregularity(e) = "unknown"
  PROVE  Inside(e) = "entry" /\ tok # "endArray" /\ ~Known(docSection, e)
  BY DEF Irregularity

LEMMA ReadFaults ==
  ASSUME TypeOK, Regular, Matches, fault = "none", pc # "done", Read
  PROVE  /\ fault' = "error" => tok' = "error" /\ \A n \in Names : values'[n] = Meant(n)'
         /\ fault' = "unknown" => Refusing'
<1>0. ReaderType /\ reads \in 1..2 /\ reads' = reads - 1 /\ ReadNext /\ UNCHANGED <<pc, values, sec>>
  BY TypeParts DEF Read, TypeOK
<1>1. \A n \in Names : values[n] = Meant(n)
  BY <1>0 DEF Matches, Pending
<1>2. CASE UNCHANGED readerVars \/ TextToken \/ EndToken \/ EndOfDocument
  BY <1>2 DEF readerVars, TextToken, EndToken, EndOfDocument
<1>3. CASE ErrorToken
  BY <1>0, <1>1, <1>3 DEF ErrorToken, Silent, Meant, First
<1>4. ASSUME NEW e \in Elements, StartToken(e)
      PROVE  fault' # "error" /\ (fault' = "unknown" => Refusing')
  <2>1. fault' = Irregularity(e)
    BY <1>4 DEF StartToken, First
  <2>2. fault' # "error"
    BY <2>1, FirstValues
  <2>3. ASSUME fault' = "unknown" PROVE Refusing'
    <3>0. Irregularity(e) = "unknown"
      BY <2>1, <2>3
    <3>1. Inside(e) = "entry" /\ tok # "endArray" /\ ~Known(docSection, e)
      BY <3>0, UnknownEntry
    <3>2. place = "section" /\ e.tag \in Entries
      BY <3>1, InsideEntry
    <3>3. pc = "section" /\ reads = 1 /\ sec = docSection
      BY <1>0, <3>1, <3>2, AtEntry
    <3>4. tok' = "start" /\ elt' = e
      BY <1>4 DEF StartToken
    <3>5. ~Known(sec', elt')
      BY <1>0, <3>1, <3>3, <3>4
    <3> QED BY <1>0, <3>2, <3>3, <3>4, <3>5 DEF Refusing
  <2> QED BY <2>2, <2>3
<1> QED BY <1>0, <1>2, <1>3, <1>4 DEF ReadNext

LEMMA ReadStep ==
  ASSUME ParserInv, TypeOK', Read PROVE ParserInv'
<1>1. pc # "done" /\ reads # 0 /\ UNCHANGED <<pc, values>>
  BY DEF Read, ParserInv
<1>2. CASE fault = "none"
  <2>1. fault' = "none" => Regular' /\ Matches'
    BY <1>1, <1>2, ReadRegular, ReadMatches DEF ParserInv
  <2>2. /\ fault' = "error" => tok' = "error" /\ \A n \in Names : values'[n] = Meant(n)'
        /\ fault' = "unknown" => Refusing'
    BY <1>1, <1>2, ReadFaults DEF ParserInv
  <2> QED BY <1>1, <2>1, <2>2 DEF ParserInv
<1>3. CASE fault = "error"
  BY <1>1, <1>3 DEF ParserInv, Read, ReadNext, AtEnd, readerVars, Meant
<1>4. CASE fault = "unknown"
  BY <1>1, <1>4 DEF ParserInv, Refusing
<1>5. CASE fault \notin {"none", "error", "unknown"}
  <2>1. fault' = fault
    BY <1>5 DEF Read, ReadNext, readerVars, TextToken, StartToken, EndToken, EndOfDocument,
       ErrorToken, First
  <2> QED BY <1>1, <1>5, <2>1 DEF ParserInv
<1> QED BY <1>2, <1>3, <1>4, <1>5

-----------------------------------------------------------------------------
\* A look that leaves reader and members alone only has to keep the place.
LEMMA LookStep ==
  ASSUME ParserInv, TypeOK', UNCHANGED <<readerVars, values>>,
         fault = "none" => Regular' /\ ~(pc = "section" /\ place = "entry" /\ reads = 0)
                             /\ ~(pc' = "section" /\ place = "entry" /\ reads' = 0),
         fault = "unknown" => Refusing',
         pc' = "done" => reads' = 0
  PROVE  ParserInv'
<1>1. UNCHANGED <<tok, elt, place, fault, ref>>
  BY DEF readerVars
<1>2. \A n \in Names : Meant(n)' = Meant(n)
  BY <1>1 DEF Meant
<1>3. fault = "none" => Matches'
  BY <1>1, <1>2 DEF ParserInv, Matches, Pending
<1> QED BY <1>1, <1>2, <1>3 DEF ParserInv

LEMMA OuterLooks ==
  ASSUME ParserInv, TypeOK', Open \/ Prolog \/ Leave \/ Stop PROVE ParserInv'
<1>1. UNCHANGED <<readerVars, values>> /\ (pc' = "done" => reads' = 0)
  BY DEF Open, Prolog, Leave, Stop, Look, Go, Return, vars, parserVars, ParserInv
<1>2. fault = "unknown" => Refusing'
  BY DEF ParserInv, Refusing, Open, Prolog, Leave, Stop, Look, vars, readerVars, parserVars
<1>3. pc \notin {"section"} /\ pc' # "section"
  BY DEF Open, Prolog, Leave, Stop, Look, Go, Return, vars, parserVars
<1>4. ASSUME fault = "none" PROVE Regular'
  <2>1. Regular
    BY <1>4 DEF ParserInv
  <2>2. UNCHANGED <<tok, elt, place, anySection>>
    BY <1>1 DEF readerVars
  <2>3. CASE Open
    BY <2>1, <2>2, <2>3 DEF Open, Look, Go, Return, Regular, InProlog
  <2>4. CASE Prolog
    <3>1. reads = 0 /\ pc = "prolog" /\ InProlog
      BY <2>1, <2>4 DEF Prolog, Look, Regular
    <3>2. CASE tok = "start"
      <4>1. pc' = "settings" /\ reads' = 1
        BY <2>4, <3>1, <3>2 DEF Prolog, AtEnd, Go, InProlog
      <4> QED BY <2>2, <3>1, <3>2, <4>1 DEF Regular, InProlog, InSettings
    <3>3. CASE tok # "start"
      <4>1. pc' = "prolog" /\ reads' = 1
        BY <2>4, <3>1, <3>3 DEF Prolog, AtEnd, Go, InProlog
      <4> QED BY <2>2, <3>1, <3>3, <4>1 DEF Regular, InProlog
    <3> QED BY <3>2, <3>3
  <2>5. CASE Leave
    BY <2>1, <2>2, <2>5 DEF Leave, Look, Return, Regular
  <2>6. CASE Stop
    BY <2>1, <2>2, <2>6 DEF Stop, vars, parserVars, Regular
  <2> QED BY <2>3, <2>4, <2>5, <2>6
<1> QED BY <1>1, <1>2, <1>3, <1>4, LookStep

LEMMA SettingsLook == ASSUME ParserInv, TypeOK', Settings PROVE ParserInv'
<1>0. pc = "settings" /\ reads = 0
  BY DEF Settings, Look
<1>1. UNCHANGED <<readerVars, values>> /\ (pc' = "done" => reads' = 0)
  BY <1>0 DEF Settings, Go, Return, EnterSection
<1>2. UNCHANGED <<tok, elt, place, docSection, anySection>>
  BY <1>1 DEF readerVars
<1>3. ASSUME fault = "unknown" PROVE Refusing'
  <2>1. tok = "start" /\ elt.tag \in Entries /\ elt.tag \notin Sections
    BY <1>0, <1>3 DEF ParserInv, Refusing, Entries, Sections
  <2>2. Return(FALSE)
    BY <2>1 DEF Settings, AtEnd, IsEnd
  <2> QED BY <2>2 DEF Return, Refusing
<1>4. ASSUME fault = "none" PROVE Regular' /\ ~(pc' = "section" /\ place = "entry")
  <2>1. InSettings /\ tok # "error"
    BY <1>0, <1>4 DEF ParserInv, Regular
  <2>2. CASE tok = "start"
    <3>1. elt.tag \in Sections /\ place = "section" /\ docSection = elt.tag
      BY <1>0, <2>1, <2>2 DEF InSettings
    <3>2. anySection
      BY <1>0, <2>1, <2>2 DEF InSettings
    <3>3. EnterSection
      BY <2>2, <3>1 DEF Settings, AtEnd, IsEnd
    <3>4. pc' = "section" /\ reads' = 1 /\ sec' = docSection'
      BY <1>2, <3>1, <3>3 DEF EnterSection
    <3>5. anySection' /\ place' = "section" /\ tok' = "start"
      BY <1>2, <2>2, <3>1, <3>2
    <3>6. InSection'
      BY <3>4, <3>5 DEF InSection
    <3> QED BY <3>1, <3>4, <3>5, <3>6 DEF Regular
  <2>3. CASE tok = "eod"
    <3>1. place = "epilog" /\ (anySection => isSucc)
      BY <1>0, <2>1, <2>3 DEF InSettings
    <3>2. Return(isSucc)
      BY <2>3 DEF Settings, AtEnd, IsEnd
    <3> QED BY <1>2, <2>3, <3>1, <3>2 DEF Return, Regular
  <2>4. CASE IsEnd
    <3>1. place = "epilog" /\ (anySection => isSucc)
      BY <1>0, <2>1, <2>4 DEF InSettings, IsEnd
    <3>2. Go("leave", 1)
      BY <2>4 DEF Settings, AtEnd, IsEnd
    <3> QED BY <1>2, <2>4, <3>1, <3>2 DEF Go, Regular, IsEnd
  <2>5. CASE tok = "text"
    <3>1. /\ place = "settings" \/ place = "epilog"
          /\ anySection => isSucc
      BY <1>0, <2>1, <2>5 DEF InSettings
    <3>2. Go("settings", 1)
      BY <2>5 DEF Settings, AtEnd, IsEnd
    <3>3. pc' = "settings" /\ reads' = 1 /\ isSucc' = isSucc
      BY <3>2 DEF Go
    <3>4. InSettings'
      BY <1>2, <2>5, <3>1, <3>3 DEF InSettings
    <3> QED BY <1>2, <2>5, <3>3, <3>4 DEF Regular
  <2>6. tok # "none"
    BY <1>0, <2>1 DEF InSettings
  <2> QED BY <2>1, <2>2, <2>3, <2>4, <2>5, <2>6 DEF ParserInv, TypeOK, IsEnd
<1> QED BY <1>0, <1>1, <1>3, <1>4, LookStep

LEMMA SectionLook ==
  ASSUME ParserInv, TypeOK', Section, ~(tok = "start" /\ Known(sec, elt))
  PROVE  ParserInv'
<1>0. pc = "section" /\ reads = 0
  BY DEF Section, Look
<1>1. UNCHANGED <<readerVars, values>> /\ pc' # "done"
  BY <1>0 DEF Section, Go, LeaveSection, AtEnd, IsEnd
<1>2. UNCHANGED <<tok, elt, place, docSection, anySection>>
  BY <1>1 DEF readerVars
<1>3. ASSUME fault = "unknown" PROVE Refusing'
  <2>1. tok = "start" /\ elt.tag \in Entries /\ ~Known(sec, elt) /\ ~IsArray(sec, elt)
    BY <1>0, <1>3 DEF ParserInv, Refusing, Entries, IsArray
  <2>2. LeaveSection(FALSE, 0)
    BY <2>1 DEF Section, AtEnd, IsEnd
  <2> QED BY <1>2, <2>1, <2>2 DEF LeaveSection, Refusing
<1>4. ASSUME fault = "none"
      PROVE  Regular' /\ place # "entry"
  <2>1. InSection /\ tok # "error"
    BY <1>0, <1>4 DEF ParserInv, Regular
  <2>0. anySection /\ anySection'
    BY <1>2, <2>1 DEF InSection
  <2>2. CASE tok = "start"
    <3>1. ~Known(sec, elt)
      BY <2>2
    <3>2. CASE elt.tag \in Sections /\ place = "section" /\ docSection = elt.tag
      <4>1. ~IsArray(sec, elt)
        BY <3>2 DEF IsArray, Sections
      <4>2. LeaveSection(FALSE, 0)
        BY <2>2, <3>1, <4>1 DEF Section, AtEnd, IsEnd
      <4>3. pc' = "settings" /\ reads' = 0
        BY <4>2 DEF LeaveSection
      <4>4. InSettings'
        BY <1>2, <2>0, <2>2, <3>2, <4>3 DEF InSettings
      <4> QED BY <1>2, <2>2, <3>2, <4>3, <4>4 DEF Regular
    <3>3. CASE place = "array" /\ IsArray(sec, elt) /\ elt.name = "indicatorList" /\ sec = docSection
      <4>1. Go("array", 1)
        BY <2>2, <3>1, <3>3 DEF Section, AtEnd, IsEnd
      <4>2. pc' = "array" /\ reads' = 1 /\ sec' = docSection' /\ sec' = "indicatorSetting"
        BY <1>2, <3>3, <4>1 DEF Go, IsArray
      <4>3. reads' \in 0..1 /\ place' = "array" /\ tok' = "start"
        BY <1>2, <2>2, <3>3, <4>2
      <4>4. InArray'
        BY <2>0, <4>2, <4>3 DEF InArray
      <4> QED BY <3>3, <4>2, <4>3, <4>4 DEF Regular
    <3> QED BY <1>0, <2>1, <2>2, <3>1, <3>2, <3>3 DEF InSection, Lagging
  <2>3. CASE IsEnd
    <3>1. \/ tok = "end" /\ place = "settings"
          \/ tok = "end" /\ place = "epilog"
      BY <1>0, <2>1, <2>3 DEF InSection, Lagging, IsEnd
    <3>2. LeaveSection(TRUE, 1)
      BY <2>3 DEF Section, AtEnd, IsEnd
    <3>3. pc' = "settings" /\ reads' = 1
      BY <3>2 DEF LeaveSection
    <3>4. isSucc'
      BY <3>2 DEF LeaveSection
    <3>5. InSettings'
      BY <1>2, <3>1, <3>3, <3>4 DEF InSettings
    <3> QED BY <1>2, <3>1, <3>3, <3>5 DEF Regular
  <2>4. CASE tok = "text"
    <3>1. \/ place = "settings"
          \/ place = "section" /\ sec = docSection
      BY <1>0, <2>1, <2>4 DEF InSection, Lagging
    <3>2. Go("section", 1)
      BY <2>4 DEF Section, AtEnd, IsEnd
    <3>3. pc' = "section" /\ reads' = 1 /\ sec' = sec
      BY <3>2 DEF Go
    <3>4. InSection'
      BY <1>2, <2>0, <2>4, <3>1, <3>3 DEF InSection, Lagging
    <3> QED BY <1>2, <2>4, <3>1, <3>3, <3>4 DEF Regular
  <2>5. tok \notin {"none", "eod"}
    BY <1>0, <2>1 DEF InSection, Lagging
  <2> QED BY <2>1, <2>2, <2>3, <2>4, <2>5 DEF ParserInv, TypeOK, IsEnd
<1> QED BY <1>0, <1>1, <1>3, <1>4, LookStep

LEMMA ArrayLook ==
  ASSUME ParserInv, TypeOK', Array, ~(tok = "start" /\ elt.tag = "item")
  PROVE  ParserInv'
<1>0. pc = "array" /\ reads = 0
  BY DEF Array, Look
<1>1. UNCHANGED <<readerVars, values>> /\ pc' # "done"
  BY <1>0 DEF Array, Go, AtEnd, IsEnd
<1>2. UNCHANGED <<tok, elt, place, docSection, anySection>>
  BY <1>1 DEF readerVars
<1>3. fault # "unknown"
  BY <1>0 DEF ParserInv, Refusing
<1>4. ASSUME fault = "none" PROVE Regular' /\ place # "entry"
  <2>1. InArray /\ tok # "error"
    BY <1>0, <1>4 DEF ParserInv, Regular
  <2>0. anySection' /\ sec = docSection
    BY <1>2, <2>1 DEF InArray
  <2>2. \/ tok = "text" /\ place = "array"
        \/ tok = "endArray" /\ place = "section"
    BY <1>0, <2>1 DEF InArray, Array, AtEnd, IsEnd
  <2>3. CASE tok = "text"
    <3>1. Go("array", 1)
      BY <2>3 DEF Array, AtEnd, IsEnd
    <3>2. pc' = "array" /\ reads' = 1 /\ sec' = sec
      BY <3>1 DEF Go
    <3>3. InArray'
      BY <1>2, <2>0, <2>1, <2>2, <2>3, <3>2 DEF InArray
    <3> QED BY <1>2, <2>2, <2>3, <3>2, <3>3 DEF Regular
  <2>4. CASE tok = "endArray"
    <3>1. Go("section", 2)
      BY <2>4 DEF Array, AtEnd, IsEnd
    <3>2. pc' = "section" /\ reads' = 2 /\ sec' = sec
      BY <3>1 DEF Go
    <3>3. InSection'
      BY <1>2, <2>0, <2>2, <2>4, <3>2 DEF InSection
    <3> QED BY <1>2, <2>2, <2>4, <3>2, <3>3 DEF Regular
  <2> QED BY <2>2, <2>3, <2>4
<1> QED BY <1>0, <1>1, <1>3, <1>4, LookStep

-----------------------------------------------------------------------------
\* An entry is read to its end, or to an error within it: either way the member
\* gets what the document says.
LEMMA EntryStep ==
  ASSUME ParserInv, TypeOK', Look("section"), tok = "start", Known(sec, elt), ReadEntry
  PROVE  ParserInv'
<1>0. pc = "section" /\ reads = 0 /\ pc' = "section" /\ reads' = 1 /\ sec' = sec
  BY DEF Look, ReadEntry
<1>1. PICK t \in Texts : ReadText(t) /\ values' = [values EXCEPT ![elt.name] = t]
  BY DEF ReadEntry
<1>2. ref \in [Names -> Texts \cup {Unset}] /\ values \in [Names -> Texts]
  BY DEF ParserInv, TypeOK
<1>3. fault # "unknown" /\ fault # "error"
  BY <1>0 DEF ParserInv, Refusing
<1>4. elt \in Elements
  <2>1. elt # NoElement
    BY DEF Known, NoElement
  <2> QED BY <2>1 DEF ParserInv, TypeOK
<1>5. elt.tag \in Entries /\ elt.name \in Names /\ elt.text \in Texts /\ t # Unset /\ elt.text # Unset
  BY <1>4, KnownEntry, ElementType, TextsAssumption, UnsetAssumption
<1>6. CASE fault = "none"
  <2>1. InSection /\ Matches
    BY <1>0, <1>6 DEF ParserInv, Regular
  <2>2. place = "entry" /\ sec = docSection
    <3>1. elt.tag \notin Sections /\ ~IsArray(sec, elt)
      BY <1>5 DEF Entries, Sections, IsArray
    <3> QED BY <1>0, <2>1, <3>1 DEF InSection, Lagging
  <2>3. ref[elt.name] = elt.text /\ \A n \in Names : n # elt.name => values[n] = Meant(n)
    BY <1>0, <1>5, <2>1, <2>2 DEF Matches, Pending
  <2>4. CASE tok' = "end"
    <3>1. /\ t = elt.text /\ place' = "section" /\ docSection' = docSection
          /\ ref' = ref /\ fault' = fault
      BY <1>1, <2>2, <2>4 DEF ReadText, Outside
    <3>2. anySection'
      BY <1>1, <2>1, <2>4 DEF ReadText, InSection
    <3>3. InSection'
      BY <1>0, <2>2, <2>4, <3>1, <3>2 DEF InSection
    <3>4. Regular'
      BY <1>0, <2>4, <3>3 DEF Regular
    <3>5. Matches'
      BY <1>0, <1>1, <1>2, <1>5, <2>3, <2>4, <3>1 DEF Matches, Pending, Meant
    <3> QED BY <1>0, <1>6, <3>1, <3>4, <3>5 DEF ParserInv
  <2>5. CASE tok' = "error"
    <3>1. fault' = "error" /\ ref' = [ref EXCEPT ![elt.name] = t]
      BY <1>1, <1>6, <2>2, <2>5 DEF ReadText, First
    <3>2. \A n \in Names : values'[n] = Meant(n)'
      BY <1>1, <1>2, <1>5, <2>3, <3>1 DEF Meant
    <3> QED BY <1>0, <2>5, <3>1, <3>2 DEF ParserInv
  <2> QED BY <1>1, <2>4, <2>5 DEF ReadText
<1>7. CASE fault # "none"
  <2>1. fault' = fault
    BY <1>1, <1>7 DEF ReadText, First
  <2> QED BY <1>0, <1>3, <1>7, <2>1 DEF ParserInv
<1> QED BY <1>6, <1>7

LEMMA ItemStep ==
  ASSUME ParserInv, TypeOK', Look("array"), tok = "start", elt.tag = "item", ReadItem
  PROVE  ParserInv'
<1>0. pc = "array" /\ pc' = "array" /\ reads = 0 /\ reads' = 1 /\ sec' = sec /\ values' = values
  BY DEF Look, ReadItem
<1>1. PICK t \in Texts : ReadText(t)
  BY DEF ReadItem
<1>2. fault # "unknown" /\ fault # "error"
  BY <1>0 DEF ParserInv, Refusing
<1>3. CASE fault = "none"
  <2>1. InArray /\ Matches
    BY <1>0, <1>3 DEF ParserInv, Regular
  <2>2. place = "item"
    BY <1>0, <2>1 DEF InArray
  <2>3. ref' = ref /\ \A n \in Names : values[n] = Meant(n)
    BY <1>0, <1>1, <2>1, <2>2 DEF Matches, Pending, ReadText
  <2>4. CASE tok' = "end"
    <3>1. place' = "array" /\ docSection' = docSection /\ fault' = fault
      BY <1>1, <2>2, <2>4 DEF ReadText, Outside
    <3>2. anySection'
      BY <1>1, <2>1, <2>4 DEF ReadText, InArray
    <3>3. sec' = docSection' /\ sec' = "indicatorSetting"
      BY <1>0, <2>1, <3>1, Zenon DEF InArray
    <3>4. reads' \in 0..1 /\ reads' # 0
      BY <1>0
    <3>5. InArray'
      BY <2>4, <3>1, <3>2, <3>3, <3>4 DEF InArray
    <3>6. Regular'
      BY <1>0, <2>4, <3>5 DEF Regular
    <3>7. Matches'
      BY <1>0, <2>3 DEF Matches, Pending, Meant
    <3> QED BY <1>0, <1>3, <3>1, <3>6, <3>7 DEF ParserInv
  <2>5. CASE tok' = "error"
    <3>1. fault' = "error"
      BY <1>1, <1>3, <2>5 DEF ReadText, First
    <3> QED BY <1>0, <2>3, <2>5, <3>1 DEF ParserInv, Meant
  <2> QED BY <1>1, <2>4, <2>5 DEF ReadText
<1>4. CASE fault # "none"
  <2>1. fault' = fault
    BY <1>1, <1>4 DEF ReadText, First
  <2> QED BY <1>0, <1>2, <1>4, <2>1 DEF ParserInv
<1> QED BY <1>3, <1>4

-----------------------------------------------------------------------------
LEMMA ParserInit == Init => ParserInv
<1> SUFFICES ASSUME Init PROVE ParserInv
  OBVIOUS
<1>1. TypeOK
  BY TypeInit
<1>2. /\ fault = "none" /\ tok = "none" /\ place = "prolog" /\ pc = "open" /\ reads = 0
      /\ \A n \in Names : values[n] = Meant(n)
  BY DEF Init, ReaderInit, Meant
<1>3. ~anySection
  BY DEF Init, ReaderInit
<1>4. Regular /\ Matches
  BY <1>2, <1>3 DEF Regular, Matches, Pending
<1> QED BY <1>1, <1>2, <1>4 DEF ParserInv

LEMMA ParserStep == ParserInv /\ [Next]_vars => ParserInv'
<1> SUFFICES ASSUME ParserInv, [Next]_vars PROVE ParserInv'
  OBVIOUS
<1>0. TypeOK'
  BY TypeStep DEF ParserInv
<1>1. CASE Read
  BY <1>0, <1>1, ReadStep
<1>2. CASE Open \/ Prolog \/ Leave \/ Stop
  BY <1>0, <1>2, OuterLooks
<1>3. CASE UNCHANGED vars
  BY <1>0, <1>3, OuterLooks DEF Stop, vars, readerVars, parserVars, ParserInv, Regular, InProlog,
     InSettings, InSection, InArray, Lagging, Matches, Pending, Meant, Refusing
<1>4. CASE Settings
  BY <1>0, <1>4, SettingsLook
<1>5. CASE Section
  <2>1. CASE tok = "start" /\ Known(sec, elt)
    <3>1. Look("section") /\ ReadEntry
      BY <1>5, <2>1 DEF Section, AtEnd, IsEnd
    <3> QED BY <1>0, <2>1, <3>1, EntryStep
  <2> QED BY <1>0, <1>5, <2>1, SectionLook
<1>6. CASE Array
  <2>1. CASE tok = "start" /\ elt.tag = "item"
    <3>1. Look("array") /\ ReadItem
      BY <1>6, <2>1 DEF Array, AtEnd, IsEnd
    <3> QED BY <1>0, <2>1, <3>1, ItemStep
  <2> QED BY <1>0, <1>6, <2>1, ArrayLook
<1> QED BY <1>1, <1>2, <1>3, <1>4, <1>5, <1>6 DEF Next

LEMMA ParserInvariant == Spec => []ParserInv
  BY ParserInit, ParserStep, PTL DEF Spec

\* A regular file of any length is read to its end and accepted, and gives every
\* member its value.
THEOREM ReadsFaithfully == Spec => []Faithful
<1>1. ParserInv => Faithful
  BY DEF ParserInv, Faithful, Regular, Matches, Pending
<1> QED BY <1>1, ParserInvariant, PTL

\* A file that breaks off leaves the members as the part that was read says.
THEOREM ReadsPrefix == Spec => []PrefixIsRead
<1>1. ParserInv => PrefixIsRead
  BY DEF ParserInv, PrefixIsRead, Matches, Pending
<1> QED BY <1>1, ParserInvariant, PTL

\* An entry its section does not know makes Parse() return false.
THEOREM RefusesUnknown == Spec => []UnknownRefused
<1>1. ParserInv => UnknownRefused
  BY DEF ParserInv, UnknownRefused, Refusing
<1> QED BY <1>1, ParserInvariant, PTL

-----------------------------------------------------------------------------
(***************************************************************************)
(* KeepsReading is TLC's, but that none of the loops can stay at a token   *)
(* is a matter of single steps: while there are tokens, at most two looks  *)
(* follow each other without a readNext(); at the end of the document or   *)
(* at an error, where readNext() changes nothing, the loops are left one   *)
(* after the other.                                                        *)
(***************************************************************************)

\* Looks until the next readNext().
LooksLeft ==
  IF reads > 0 \/ pc = "done" THEN 0 ELSE IF pc = "section" THEN 2 ELSE 1

\* Steps until Parse() returns.
StepsLeft ==
  reads + CASE pc = "done" -> 0
            [] pc \in {"prolog", "settings", "leave"} -> 1
            [] pc = "section" -> 2
            [] pc = "open" -> 3
            [] OTHER -> 4

ToGo == IF AtEnd THEN StepsLeft ELSE LooksLeft

\* A token is read, or the next one, or the return, is nearer.
ReadsOrNears == odd' # odd \/ ToGo' < ToGo

LEMMA ToGoBound == TypeOK => StepsLeft \in 0..6 /\ LooksLeft \in 0..2 /\ ToGo \in 0..6
  BY DEF TypeOK, ToGo, StepsLeft, LooksLeft

\* A readNext() gets a token as long as there are tokens.
LEMMA ReadNears == ASSUME TypeOK, pc # "done", Read PROVE ReadsOrNears
<1>1. CASE ~AtEnd
  <2>1. odd \in BOOLEAN /\ odd' = ~odd
    BY <1>1 DEF Read, ReadNext, TypeOK
  <2>2. odd' # odd
    BY <2>1, Zenon
  <2> QED BY <2>2 DEF ReadsOrNears
<1>2. CASE AtEnd
  <2>1. AtEnd' /\ reads' = reads - 1 /\ pc' = pc
    BY <1>2 DEF Read, ReadNext, AtEnd, readerVars
  <2>2. StepsLeft' = StepsLeft - 1
    BY <2>1 DEF StepsLeft, TypeOK
  <2> QED BY <1>2, <2>1, <2>2, ToGoBound DEF ToGo, ReadsOrNears
<1> QED BY <1>1, <1>2

\* A text that is read is a token,
LEMMA TextNears == ASSUME TypeOK, NEW t \in Texts, ReadText(t) PROVE ReadsOrNears
<1>1. odd \in BOOLEAN /\ odd' = ~odd
  BY DEF ReadText, TypeOK
<1>2. odd' # odd
  BY <1>1, Zenon
<1> QED BY <1>2 DEF ReadsOrNears

\* and a look that reads nothing moves on to a loop further out, to a readNext(),
\* or to the return.
LEMMA MoveNears ==
  ASSUME TypeOK, reads = 0, pc # "done", UNCHANGED tok,
         \/ AtEnd /\ StepsLeft' < StepsLeft
         \/ ~AtEnd /\ LooksLeft' < LooksLeft
  PROVE  ReadsOrNears
  BY DEF ToGo, AtEnd, ReadsOrNears

LEMMA OuterNears ==
  ASSUME TypeOK, Open \/ Prolog \/ Settings \/ Leave PROVE ReadsOrNears
<1>1. CASE Open
  <2>1. /\ pc = "open" /\ reads = 0 /\ UNCHANGED tok
        /\ \/ pc' = "done" /\ reads' = 0
           \/ pc' = "prolog" /\ reads' = 1
    BY <1>1 DEF Open, Look, Go, Return, readerVars
  <2> QED BY <2>1, MoveNears DEF StepsLeft, LooksLeft
<1>2. CASE Prolog
  <2>1. \/ \E r : Return(r)
        \/ ~AtEnd /\ (Go("settings", 1) \/ Go("prolog", 1))
    <3>1. CASE AtEnd
      <4>1. Return(tok = "eod")
        BY <1>2, <3>1, Zenon DEF Prolog, AtEnd
      <4> QED BY <4>1, Zenon
    <3>2. CASE ~AtEnd
      <4>1. CASE Return(FALSE)
        BY <4>1, Zenon
      <4>2. CASE ~Return(FALSE)
        BY <1>2, <3>2, <4>2 DEF Prolog
      <4> QED BY <4>1, <4>2
    <3> QED BY <3>1, <3>2
  <2>2. /\ pc = "prolog" /\ reads = 0 /\ UNCHANGED tok
        /\ \/ pc' = "done" /\ reads' = 0
           \/ ~AtEnd /\ reads' = 1
    BY <1>2, <2>1 DEF Prolog, Look, Go, Return, readerVars
  <2> QED BY <2>2, MoveNears DEF StepsLeft, LooksLeft
<1>3. CASE Settings
  <2>1. \/ \E r : Return(r)
        \/ ~AtEnd /\ (Go("leave", 1) \/ EnterSection \/ Go("settings", 1))
    <3>1. CASE AtEnd
      <4>1. Return(isSucc)
        BY <1>3, <3>1, Zenon DEF Settings, AtEnd, IsEnd
      <4> QED BY <4>1, Zenon
    <3>2. CASE ~AtEnd
      <4>1. CASE Return(FALSE)
        BY <4>1, Zenon
      <4>2. CASE ~Return(FALSE)
        BY <1>3, <3>2, <4>2 DEF Settings
      <4> QED BY <4>1, <4>2
    <3> QED BY <3>1, <3>2
  <2>2. /\ pc = "settings" /\ reads = 0 /\ UNCHANGED tok
        /\ \/ pc' = "done" /\ reads' = 0
           \/ ~AtEnd /\ reads' = 1
    BY <1>3, <2>1 DEF Settings, Look, Go, Return, EnterSection, readerVars
  <2> QED BY <2>2, MoveNears DEF StepsLeft, LooksLeft
<1>4. CASE Leave
  <2>1. pc = "leave" /\ reads = 0 /\ UNCHANGED tok /\ pc' = "done" /\ reads' = 0
    BY <1>4 DEF Leave, Look, Return, readerVars
  <2> QED BY <2>1, MoveNears DEF StepsLeft, LooksLeft
<1> QED BY <1>1, <1>2, <1>3, <1>4

LEMMA InnerNears ==
  ASSUME TypeOK, Section \/ Array PROVE ReadsOrNears
<1>1. CASE ReadEntry \/ ReadItem
  BY <1>1, TextNears DEF ReadEntry, ReadItem
<1>2. CASE Section /\ ~ReadEntry
  <2>1. /\ pc = "section" /\ reads = 0 /\ UNCHANGED tok
        /\ \/ pc' = "settings" /\ reads' = 0
           \/ ~AtEnd /\ reads' = 1
    BY <1>2 DEF Section, Look, Go, LeaveSection, readerVars, AtEnd, IsEnd
  <2> QED BY <2>1, MoveNears DEF StepsLeft, LooksLeft
<1>3. CASE Array /\ ~ReadItem
  <2>1. /\ pc = "array" /\ reads = 0 /\ UNCHANGED tok
        /\ \/ AtEnd /\ pc' = "section" /\ reads' = 1
           \/ ~AtEnd /\ reads' \in 1..2
    BY <1>3 DEF Array, Look, Go, readerVars, AtEnd, IsEnd
  <2> QED BY <2>1, MoveNears DEF StepsLeft, LooksLeft
<1> QED BY <1>1, <1>2, <1>3

\* No loop of Parse() can stay at a token, and no chain of them at the end of the
\* document: every step that reads no token brings Parse() nearer to one, or to
\* its return, and it is never more than six steps away (parsexmlfile.cpp 9-280).
THEOREM NoLoopStays == Spec => [](ToGo \in 0..6) /\ [][ReadsOrNears]_vars
<1>1. ParserInv /\ [Next]_vars => [ReadsOrNears]_vars
  <2> SUFFICES ASSUME ParserInv, Next, vars' # vars PROVE ReadsOrNears
    OBVIOUS
  <2>1. TypeOK /\ ~Stop
    BY DEF ParserInv, Stop
  <2>2. Read => pc # "done"
    BY DEF ParserInv, Read
  <2> QED BY <2>1, <2>2, ReadNears, OuterNears, InnerNears DEF Next
<1>2. ParserInv => ToGo \in 0..6
  BY ToGoBound DEF ParserInv
<1> QED BY <1>1, <1>2, ParserInvariant, PTL DEF Spec

-----------------------------------------------------------------------------
(***************************************************************************)
(* WHAT ClusterData::init() TAKES FROM settings.xml.                       *)
(***************************************************************************)
startVars == <<vars, clusterVars, phase>>

\* Before init() has the parser's answer the cluster has its built-in values;
\* afterwards the parser is done and stays as it is.
Loaded ==
  /\ phase \in {"parsing", "loaded", "running"}
  /\ phase = "parsing" => BuiltIn
  /\ phase # "parsing" => pc = "done"
  /\ ClusterTakesFile

LEMMA ValueType == TypeOK => \A n : Value(n) \in Int
  BY TextsAssumption DEF TypeOK, Value

\* The parser's members are what the document says, for the names init() asks.
LEMMA SaysValue ==
  ASSUME ParserInv, pc = "done", fault \in {"none", "error"}
  PROVE  \A n : Value(n) = Says(n)
  BY DEF ParserInv, Matches, Pending, Value, Says

\* What init() falls back on it would itself accept.
LEMMA Accepted ==
  \A x \in Int : Mileage(x) \in Mileages /\ TopSpeed(x) \in TopSpeeds
                /\ TopRotation(x) \in TopRotations
<1>1. \A x \in Int : Mileage(x) \in Mileages
  <2>1. MaxMileage \in Int /\ 16888 \in 0..MaxMileage
    BY SMT DEF MaxMileage
  <2> QED BY <2>1, SMT DEF Mileage, Mileages, Within
<1>2. \A x \in Int : TopSpeed(x) \in TopSpeeds
  BY SMT DEF TopSpeed, TopSpeeds, Within
<1>3. \A x \in Int : TopRotation(x) \in TopRotations
  BY SMT DEF TopRotation, TopRotations, Within
<1> QED BY <1>1, <1>2, <1>3

\* A check of init() is the choice FromFile states.
LEMMA Checked ==
  \A x \in Int :
    /\ Mileage(x) = IF x \in Mileages THEN x ELSE 16888
    /\ TopSpeed(x) = IF x \in TopSpeeds THEN x ELSE 260
    /\ TopRotation(x) = IF x \in TopRotations THEN x ELSE 8000
    /\ Cycle(x) = IF x \in {y \in Int : y > 0} THEN x ELSE 5
<1>1. \A x, lo, hi \in Int : x \in lo..hi <=> lo <= x /\ x <= hi
  OBVIOUS
<1>2. \A x, lo, hi, d \in Int : Within(x, lo, hi, d) = IF x \in lo..hi THEN x ELSE d
  BY <1>1 DEF Within
<1>3. \A x \in Int : Mileage(x) = IF x \in Mileages THEN x ELSE 16888
  <2>1. MaxMileage \in Int
    BY DEF MaxMileage
  <2> QED BY <1>2, <2>1 DEF Mileage, Mileages
<1>4. \A x \in Int : TopSpeed(x) = IF x \in TopSpeeds THEN x ELSE 260
  BY <1>2 DEF TopSpeed, TopSpeeds
<1>5. \A x \in Int : TopRotation(x) = IF x \in TopRotations THEN x ELSE 8000
  BY <1>2 DEF TopRotation, TopRotations
<1>6. \A x \in Int : Cycle(x) = IF x \in {y \in Int : y > 0} THEN x ELSE 5
  BY DEF Cycle
<1> QED BY <1>3, <1>4, <1>5, <1>6

LEMMA LoadStep ==
  ASSUME ParserInv, Loaded, Load PROVE Loaded'
<1>0. /\ pc = "done" /\ phase = "parsing" /\ phase' = "loaded"
      /\ UNCHANGED vars
  BY DEF Load
<1>1. UNCHANGED <<pc, result, fault, ref, values>>
  BY <1>0 DEF vars, readerVars, parserVars
<1>2. CASE result
  <2>1. \A n : Value(n) \in Int
    BY ValueType DEF ParserInv
  <2>2. /\ mileageKm' = Mileage(Value("odoNumber"))
        /\ maxSpeed' = TopSpeed(Value("maxCarSpeed"))
        /\ maxRotationSpeed' = TopRotation(Value("maxRotationSpeed"))
        /\ speedList' = Value("carSpeed")
        /\ temperatureChangeCycle' = Cycle(Value("temperatureChangeCycle"))
    BY <1>2 DEF Load
  <2>3. InRange'
    <3>1. /\ mileageKm' \in Mileages
          /\ maxSpeed' \in TopSpeeds
          /\ maxRotationSpeed' \in TopRotations
      BY <2>1, <2>2, Accepted
    <3>2. temperatureChangeCycle' > 0
      BY <2>1, <2>2 DEF Cycle
    <3> QED BY <3>1, <3>2 DEF InRange
  <2>4. \A n : Says(n)' = Says(n)
    BY <1>1 DEF Says, Meant
  <2>5. ASSUME fault \in {"none", "error"} PROVE FromFile'
    <3>1. \A n : Value(n) = Says(n) /\ Says(n) \in Int
      BY <1>0, <2>1, <2>5, SaysValue
    <3>2. /\ mileageKm' = Mileage(Says("odoNumber"))
          /\ maxSpeed' = TopSpeed(Says("maxCarSpeed"))
          /\ maxRotationSpeed' = TopRotation(Says("maxRotationSpeed"))
          /\ temperatureChangeCycle' = Cycle(Says("temperatureChangeCycle"))
          /\ speedList' = Says("carSpeed")
      BY <2>2, <3>1
    <3>3. Taken(mileageKm, "odoNumber", Mileages, 16888)'
      <4>1. mileageKm' = IF Says("odoNumber") \in Mileages THEN Says("odoNumber") ELSE 16888
        BY <3>1, <3>2, Checked
      <4> QED BY <2>4, <4>1 DEF Taken
    <3>4. Taken(maxSpeed, "maxCarSpeed", TopSpeeds, 260)'
      <4>1. maxSpeed' = IF Says("maxCarSpeed") \in TopSpeeds THEN Says("maxCarSpeed") ELSE 260
        BY <3>1, <3>2, Checked
      <4> QED BY <2>4, <4>1 DEF Taken
    <3>5. Taken(maxRotationSpeed, "maxRotationSpeed", TopRotations, 8000)'
      <4>1. maxRotationSpeed' = IF Says("maxRotationSpeed") \in TopRotations THEN Says("maxRotationSpeed") ELSE 8000
        BY <3>1, <3>2, Checked
      <4> QED BY <2>4, <4>1 DEF Taken
    <3>6. Taken(temperatureChangeCycle, "temperatureChangeCycle", {x \in Int : x > 0}, 5)'
      <4>1. temperatureChangeCycle' = IF Says("temperatureChangeCycle") \in {x \in Int : x > 0} THEN Says("temperatureChangeCycle") ELSE 5
        BY <3>1, <3>2, Checked
      <4> QED BY <2>4, <4>1 DEF Taken
    <3> QED BY <2>4, <3>2, <3>3, <3>4, <3>5, <3>6 DEF FromFile
  <2>6. ClusterTakesFile'
    BY <1>1, <1>2, <2>3, <2>5, SMT DEF ClusterTakesFile
  <2> QED BY <1>0, <1>1, <2>6 DEF Loaded
<1>3. CASE ~result
  <2>1. UNCHANGED <<mileageKm, maxSpeed, maxRotationSpeed, temperatureChangeCycle, speedList>>
    BY <1>3 DEF Load
  <2>3. BuiltIn'
    BY <1>0, <2>1 DEF Loaded, BuiltIn
  <2>2. ClusterTakesFile'
    BY <1>0, <1>1, <1>3, <2>3 DEF ClusterTakesFile
  <2> QED BY <1>0, <1>1, <2>2 DEF Loaded
<1> QED BY <1>2, <1>3

LEMMA OtherStep ==
  ASSUME ParserInv, Loaded, Parse \/ Start \/ UNCHANGED startVars PROVE Loaded'
<1>1. UNCHANGED <<mileageKm, maxSpeed, maxRotationSpeed, temperatureChangeCycle, speedList>>
  BY DEF Parse, Start, clusterVars, startVars
<1>2. CASE phase = "parsing" /\ phase' = "parsing"
  BY <1>1, <1>2 DEF Loaded, ClusterTakesFile, BuiltIn
<1>3. CASE phase # "parsing"
  <2>1. UNCHANGED vars
    BY <1>3 DEF Loaded, ParserInv, Parse, Start, startVars, Next, Open, Read, Prolog, Settings,
       Leave, Section, Array, Stop, Look
  <2>2. UNCHANGED <<pc, result, fault, ref>> /\ phase' \in {"loaded", "running"}
    BY <1>3, <2>1 DEF vars, readerVars, parserVars, Parse, Start, startVars, Loaded
  <2>3. \A n : Says(n)' = Says(n)
    BY <2>2 DEF Says, Meant
  <2>4. /\ BuiltIn' = BuiltIn /\ InRange' = InRange
        /\ FromFile' = FromFile
    BY <1>1, <2>3 DEF BuiltIn, InRange, FromFile, Taken, Mileages, TopSpeeds, TopRotations
  <2>5. ClusterTakesFile
    BY DEF Loaded
  <2>6. ClusterTakesFile'
    BY <1>3, <2>2, <2>4, <2>5 DEF ClusterTakesFile
  <2> QED BY <1>3, <2>2, <2>6 DEF Loaded
<1>4. phase = "parsing" => phase' = "parsing"
  BY DEF Parse, Start, startVars
<1> QED BY <1>2, <1>3, <1>4

LEMMA StartUpInvariant == StartUp => [](ParserInv /\ Loaded)
<1>1. Init /\ ClusterInit => ParserInv /\ Loaded
  BY ParserInit DEF ClusterInit, Loaded, ClusterTakesFile, BuiltIn
<1>2. ParserInv /\ Loaded /\ [StartUpNext]_startVars => ParserInv' /\ Loaded'
  <2> SUFFICES ASSUME ParserInv, Loaded, [StartUpNext]_startVars PROVE ParserInv' /\ Loaded'
    OBVIOUS
  <2>1. [Next]_vars
    BY DEF StartUpNext, Parse, Load, Start, startVars
  <2>2. ParserInv'
    BY <2>1, ParserStep
  <2> QED BY <2>2, LoadStep, OtherStep DEF StartUpNext
<1> QED BY <1>1, <1>2, PTL DEF StartUp, StartUpInit, startVars

\* Whatever the file holds, init() leaves the cluster with the file's values where
\* they are in range, with the built-in ones where they are not, and with the
\* built-in ones alone when the file was refused.
THEOREM TakesFile == StartUp => []ClusterTakesFile
<1>1. Loaded => ClusterTakesFile
  BY DEF Loaded
<1> QED BY <1>1, StartUpInvariant, PTL
=============================================================================
