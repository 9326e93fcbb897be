---------------------------- MODULE SettingsFile ----------------------------
(***************************************************************************)
(* settings.xml as QXmlStreamReader hands it to ParseXmlFile, one token    *)
(* per readNext().  The document is chosen while it is read, so it has any *)
(* length and any content the reader lets through: after an element that   *)
(* has no business where it stands, any token may follow.                  *)
(*                                                                         *)
(* ref, fault and anySection say what the document read so far means to    *)
(* somebody who reads all of it; the parser does not see them.             *)
(***************************************************************************)
EXTENDS Integers

CONSTANTS
  Names,    \* BOUND: the name attributes a file may use
  Texts,    \* what toInt() makes of a text; texts that matter are told apart by it
  Unset     \* no entry of that name was read

ASSUME TextsAssumption == Texts \subseteq Int /\ 0 \in Texts
ASSUME UnsetAssumption == Unset \notin Int

VARIABLES
  tok,        \* the current token
  elt,        \* the element a start token opens
  place,      \* what surrounds the next token
  docSection, \* the section the document is in
  odd,        \* history: parity of the number of tokens read
  ref,        \* history: the value the document gives each name
  fault,      \* history: the first irregularity of the document
  anySection  \* history: the document has a section

readerVars == <<tok, elt, place, docSection, odd, ref, fault, anySection>>

Sections ==
  {"procedureSetting", "animationSetting", "bkgSetting", "indicatorSetting", "instrumentSetting"}
Entries == {"integer", "string"}

Elements ==
  [tag : Entries, name : Names, text : Texts]
    \cup [tag : {"string-array"}, name : {"indicatorList", "other"}, text : {0}]
    \cup [tag : Sections \cup {"settings", "item"}, name : {"none"}, text : {0}]
NoElement == [tag |-> "none", name |-> "none", text |-> 0]

------------------ (* the names each parse...Setting() knows *) --------------

ProcedureInts == {"playCustomAni"}
AnimationInts == {"play", "frameStart", "frameEnd"}
BkgInts ==
  {"bkgChange", "cycle", "duration", "showSwitch", "showDuration", "roundSpeed", "delayTime"}
IndicatorInts ==
  {"temperatureNumber", "odoNumber", "dteNumber", "temperatureChangeCycle", "odoChangeCycle",
   "dteChangeCycle", "indicatorActionChangeCycle", "gearSwitch", "indicatorSwitch"}
InstrumentInts ==
  {"maxCarSpeed", "maxRotationSpeed", "carSpeedDuration", "rotationSpeedDuration",
   "waterTemperatureChangeCycle", "fuelTankChangeCycle", "pointerAniInterval",
   "waterTemperatureAniSpeed", "fuelTankAniSpeed", "epowerDuration", "mockPageAniSpeed"}
InstrumentStrings ==
  {"carSpeed", "rotationSpeed", "waterTemperatureLightNum", "fuelTankLightNum", "epower"}

Known(section, e) ==
  \/ e.tag = "integer" /\ e.name \in CASE section = "procedureSetting" -> ProcedureInts
                                       [] section = "animationSetting" -> AnimationInts
                                       [] section = "bkgSetting" -> BkgInts
                                       [] section = "indicatorSetting" -> IndicatorInts
                                       [] OTHER -> InstrumentInts
  \/ e.tag = "string" /\ section = "instrumentSetting" /\ e.name \in InstrumentStrings

------------------------------- (* the document *) --------------------------

IsArray(section, e) == section = "indicatorSetting" /\ e.tag = "string-array"

\* Where an element may stand, and what surrounds its contents.
Inside(e) ==
  CASE place = "prolog" /\ e.tag = "settings" -> "settings"
    [] place = "settings" /\ e.tag \in Sections -> "section"
    [] place = "section" /\ e.tag \in Entries -> "entry"
    [] place = "section" /\ IsArray(docSection, e) /\ e.name = "indicatorList" -> "array"
    [] place = "array" /\ e.tag = "item" -> "item"
    [] OTHER -> "anywhere"

Outside ==
  CASE place = "settings" -> "epilog"
    [] place = "section" -> "settings"
    [] place \in {"entry", "array"} -> "section"
    [] place = "item" -> "array"
    [] OTHER -> "anywhere"

\* An element right behind </string-array>, without a blank between the two.
Irregularity(e) ==
  IF Inside(e) = "anywhere" THEN "misplaced"
  ELSE IF tok = "endArray" THEN "tight"
  ELSE IF Inside(e) = "entry" /\ ~Known(docSection, e) THEN "unknown"
  ELSE "none"

First(f) == IF fault = "none" THEN f ELSE fault

\* The document gives a name the text of the last regular entry with it.
Meaning(e) ==
  IF Inside(e) = "entry" /\ First(Irregularity(e)) = "none"
    THEN [ref EXCEPT ![e.name] = e.text]
    ELSE ref

Silent == UNCHANGED <<docSection, ref, anySection>>

TextToken ==
  /\ tok' = "text" /\ elt' = NoElement
  /\ UNCHANGED <<place, fault>> /\ Silent

StartToken(e) ==
  /\ place # "epilog"
  /\ tok' = "start" /\ elt' = e
  /\ fault' = First(Irregularity(e))
  /\ ref' = Meaning(e)
  /\ docSection' = IF Inside(e) = "section" THEN e.tag ELSE docSection
  /\ anySection' = (anySection \/ Inside(e) = "section")
  /\ place' = Inside(e)

EndToken ==
  /\ place \notin {"prolog", "epilog"}
  /\ tok' = IF place = "array" THEN "endArray" ELSE "end"
  /\ elt' = NoElement /\ place' = Outside
  /\ UNCHANGED fault /\ Silent

EndOfDocument ==
  /\ place \in {"epilog", "anywhere"}
  /\ tok' = "eod" /\ elt' = NoElement
  /\ UNCHANGED <<place, fault>> /\ Silent

\* The text is not well-formed, or the file ends in the middle of it.
ErrorToken ==
  /\ tok' = "error" /\ elt' = NoElement
  /\ fault' = First("error")
  /\ UNCHANGED place /\ Silent

AtEnd == tok \in {"eod", "error"}
IsEnd == tok \in {"end", "endArray"}

\* readNext(): an end or an error stays what it is.
ReadNext ==
  IF AtEnd THEN UNCHANGED readerVars
  ELSE /\ odd' = ~odd
       /\ TextToken \/ EndToken \/ EndOfDocument \/ ErrorToken \/ \E e \in Elements : StartToken(e)

\* readElementText() on a start token: to the end of the element, or to an error
\* (a child element is one) with the text read so far.
ReadText(t) ==
  \/ /\ t = elt.text
     /\ tok' = "end" /\ elt' = NoElement /\ place' = Outside
     /\ odd' = ~odd
     /\ UNCHANGED <<docSection, ref, fault, anySection>>
  \/ /\ tok' = "error" /\ elt' = NoElement
     /\ fault' = First("error")
     /\ ref' = IF place = "entry" /\ fault = "none" THEN [ref EXCEPT ![elt.name] = t] ELSE ref
     /\ odd' = ~odd
     /\ UNCHANGED <<place, docSection, anySection>>

ReaderInit ==
  /\ tok = "none" /\ elt = NoElement
  /\ place = "prolog" /\ docSection = "none"
  /\ odd = FALSE
  /\ ref = [n \in Names |-> Unset]
  /\ fault = "none" /\ anySection = FALSE
=============================================================================
