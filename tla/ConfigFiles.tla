---------------------------- MODULE ConfigFiles -----------------------------
(* The configuration files that are tried: every name of three keys at     *)
(* most, two of them with different texts; in an XML file all names begin  *)
(* with the key of the root element, and an element has an attribute.  An  *)
(* object of a JSON file that has members is no string.                    *)
EXTENDS Sequences, Naturals

Root == "root"
Key == {Root, "path"}
Value == {"x", "y"}
Nothing == "nothing"

FileNames == UNION {[1 .. n -> Key] : n \in 1 .. 3}
Rooted == {n \in FileNames : n[1] = Root}
Within(name, m) == Len(name) < Len(m) /\ SubSeq(m, 1, Len(name)) = name

Blank == [n \in FileNames |-> Nothing]
Unread == [read |-> FALSE, text |-> Blank, attr |-> Blank]

TwoTexts(names, v, w) == {[Blank EXCEPT ![n] = v, ![m] = w] : n, m \in names}
Texts(names) == {Blank} \cup TwoTexts(names, "x", "y")

FilesOfJson ==
  {Unread} \cup {[read |-> TRUE, text |-> t, attr |-> Blank] :
    t \in {t \in Texts(FileNames) : \A n, m \in FileNames : Within(n, m) => Nothing \in {t[n], t[m]}}}

FilesOfXml ==
  {Unread} \cup {[read |-> TRUE, text |-> t, attr |-> [Blank EXCEPT ![n] = v]] :
    t \in Texts(Rooted), n \in Rooted \ {<<Root>>}, v \in Value}
=============================================================================
