------------------------------ MODULE ConfigKeys ------------------------------
(***************************************************************************)
(* How a dotted name is looked up in a configuration file, JSON            *)
(* (include/lmjson.h) or XML (include/lmxml.h), what get_string and        *)
(* get_int of lmapi/lm_config_read.cpp answer, and how the api object      *)
(* takes its settings from two files (lmapi/lmapi.cpp).  A name is a       *)
(* sequence of keys.  A file holds values by name: as the text of an       *)
(* element, a JSON object's member, or as an attribute of an XML element.  *)
(***************************************************************************)
EXTENDS Sequences, Naturals

CONSTANTS Name,      \* dotted names: sequences of keys
          XmlFiles,  \* files that are tried; what they hold is of XML's
          JsonFiles, \* or of JSON's form
          Settings   \* names the api object reads

Nothing == "nothing"    \* the empty string, or 0
Garbage == "garbage"    \* an int that was never set
Fault == "fault"        \* a null document is read through
Inside == "inside"      \* the texts of the elements inside an element

VARIABLES use,       \* "none", or what the config object is open for
          kind,      \* "json" or "xml"
          file,      \* what the config object has read
          asked,     \* the reader, the name it was asked for
          answer,
          setting,   \* of the api object, by name
          inXml      \* what the XML file the api object has read holds

vars == <<use, kind, file, asked, answer, setting, inXml>>

Blank == [n \in Name |-> Nothing]
Unread == [read |-> FALSE, text |-> Blank, attr |-> Blank]

Front(name) == SubSeq(name, 1, Len(name) - 1)
Last(name) == name[Len(name)]
Within(name, m) == Len(name) < Len(m) /\ SubSeq(m, 1, Len(name)) = name

(* obj_get: name.substr(begin, end) takes end characters, not those up to  *)
(* end.  That is the key only if it is the first or the last of the name.  *)
Remnant == "remnant"

(* What the constants are: names have a key at least, and what an element  *)
(* is in has a name too; no key is what obj_get cuts out wrongly; nothing  *)
(* is in a file that cannot be read; and only elements of an XML file have *)
(* attributes, whose names are therefore two keys or more.                 *)
ConfigForm ==
  /\ Settings \subseteq Name
  /\ \A name \in Name : /\ name \in Seq(STRING) /\ Len(name) > 0
                        /\ \A i \in DOMAIN name : name[i] # Remnant
                        /\ Len(name) > 1 => Front(name) \in Name
  /\ \A f \in XmlFiles \cup JsonFiles : ~f.read => f.text = Blank /\ f.attr = Blank
  /\ \A f \in JsonFiles : f.attr = Blank
  /\ \A f \in XmlFiles : \A name \in Name : Len(name) = 1 => f.attr[name] = Nothing

Init == /\ use = "none"
        /\ kind = "none"
        /\ file = Unread
        /\ asked = [by |-> "nobody", name |-> <<>>]
        /\ answer = Nothing
        /\ setting = [n \in Settings |-> Nothing]
        /\ inXml = [n \in Settings |-> [text |-> Nothing, attr |-> Nothing]]

-----------------------------------------------------------------------------
(* Bug: the last key is cut off as well. *)
KeyAtFirst(name, i) == IF i = 1 THEN name[i] ELSE Remnant

KeyAt(name, i) == IF i \in {1, Len(name)} THEN name[i] ELSE Remnant

Path(name) == [i \in 1 .. Len(name) |-> KeyAt(name, i)]

Held(name) == [text |-> file.text[name], attr |-> file.attr[name]]
Written(held) == IF held.text # Nothing THEN held.text ELSE held.attr

(* An object or element of that name is in the file *)
Exists(name) ==
  \E m \in Name : \/ file.text[m] # Nothing /\ (m = name \/ Within(name, m))
                  \/ file.attr[m] # Nothing /\ Within(name, m)

Found(name) == Path(name) \in Name /\ Exists(Path(name))

(* get_json_string; an object that has members is no string *)
JsonString(name) == IF Found(name) THEN file.text[Path(name)] ELSE Nothing

(* get_xml_node *)
HasTextInside(name) == \E m \in Name : Within(name, m) /\ file.text[m] # Nothing

Content(name) == IF ~Found(name) THEN Nothing
                 ELSE IF HasTextInside(name) THEN Inside ELSE file.text[Path(name)]

(* get_xml_attr *)
Attribute(name) == IF Len(name) > 1 /\ Found(Front(name))
                     THEN file.attr[Append(Path(Front(name)), Last(name))]
                     ELSE Nothing

(* get_xml_val *)
XmlString(name) == IF Content(name) # Nothing THEN Content(name) ELSE Attribute(name)

String(name) == IF kind = "xml" THEN XmlString(name) ELSE JsonString(name)

-----------------------------------------------------------------------------
(* A program's config object *)
Open(k, f) == /\ use = "none"
              /\ use' = "program"
              /\ kind' = k
              /\ file' = f
              /\ UNCHANGED <<asked, answer, setting, inXml>>

Ask(reader, name, result) == /\ use = "program"
                             /\ asked' = [by |-> reader, name |-> name]
                             /\ answer' = IF kind = "xml" /\ ~file.read THEN Fault ELSE result
                             /\ UNCHANGED <<use, kind, file, setting, inXml>>

GetString(name) == Ask("string", name, String(name))

GetInt(name) == Ask("int", name, IF kind = "json" /\ String(name) = Nothing
                                   THEN Garbage ELSE String(name))

-----------------------------------------------------------------------------
(* The constructor of the api object: an XML file, then a JSON file *)
ApiOpen(from, to, k, f) == /\ use = from
                           /\ use' = to
                           /\ kind' = k
                           /\ file' = f
                           /\ UNCHANGED <<asked, answer>>

ApiOpenXml(f) == /\ ApiOpen("none", "api xml", "xml", f)
                 /\ UNCHANGED <<setting, inXml>>

ApiOpenJson(f) ==
  /\ ApiOpen("api xml", "api json", "json", f)
  /\ setting' = [n \in Settings |-> IF file.read THEN XmlString(n) ELSE Nothing]
  /\ inXml' = [n \in Settings |-> Held(n)]

(* Bug: what the XML file says is not looked at. *)
TakeOver(n) == IF file.read THEN JsonString(n) ELSE setting[n]

Take(n) == IF file.read /\ setting[n] = Nothing THEN JsonString(n) ELSE setting[n]

ApiDone == /\ use = "api json"
           /\ use' = "api"
           /\ setting' = [n \in Settings |-> Take(n)]
           /\ UNCHANGED <<kind, file, asked, answer, inXml>>

Next == \/ \E k \in {"json", "xml"} : \E f \in IF k = "xml" THEN XmlFiles ELSE JsonFiles : Open(k, f)
        \/ \E name \in Name : GetString(name) \/ GetInt(name)
        \/ \E f \in XmlFiles : ApiOpenXml(f)
        \/ \E f \in JsonFiles : ApiOpenJson(f)
        \/ ApiDone

Spec == Init /\ [][Next]_vars
-----------------------------------------------------------------------------
Asked(reader) == asked.by = reader /\ file.read

(* A name of one or two keys is answered with what the file holds under    *)
(* it, the text before the attribute; and a longer name, of which          *)
(* obj_get looks up something else, never gets the value of another name.  *)
AnswersAreOfTheName ==
  Asked("string") /\ answer # Inside =>
    LET held == Held(asked.name) IN
      /\ Len(asked.name) <= 2 => answer = Written(held)
      /\ answer \in {Nothing, held.text, held.attr}

(* What a file holds under a name is where get_xml_val looks for it        *)
LookedUp(name, held) == \/ Len(name) <= 2
                        \/ Len(name) = 3 /\ held.text = Nothing

(* The api object has each setting from the XML file, if that has it where *)
(* it is found (an attribute of a name of three keys is, a text is not),   *)
(* and only otherwise from the JSON file.                                  *)
XmlBeforeJson ==
  use = "api" => \A n \in Settings :
    /\ LookedUp(n, inXml[n]) /\ Written(inXml[n]) # Nothing
         => setting[n] \in {Written(inXml[n]), Inside}
    /\ setting[n] \in {Nothing, Inside, inXml[n].text, inXml[n].attr, file.text[n]}

(* "Parameters are read with . separating nested objects", as              *)
(* factor.backtesting.start_date (doc/lmalpha_design.tex:416-417): what a  *)
(* file holds under a name of any length is read.                          *)
NestedNamesRead ==
  Asked("string") => LET held == Held(asked.name) IN
    Written(held) # Nothing => answer \in {Inside, held.text, held.attr} \ {Nothing}
=============================================================================
