---------------------------------- MODULE Tables ----------------------------------
(* Tables with an entry per name, written in parts: the branches of a switch,  *)
(* or the methods of a class.  No name is in two parts.                        *)

Join(parts) ==
    [n \in UNION {DOMAIN parts[i] : i \in DOMAIN parts} |->
        parts[CHOOSE i \in DOMAIN parts : n \in DOMAIN parts[i]][n]]

\* One entry, and the same entry for several names.
Entry(name, value) == [n \in {name} |-> value]
Entries(names, value) == [n \in names |-> value]
===================================================================================
