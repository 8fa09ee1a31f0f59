------------------------------ MODULE ObjectIds ------------------------------
(***************************************************************************)
(* The object ids of the ContentDirectory (dlna/dms/cds.go): an id is the  *)
(* path of the object in the WebDAV server, written by url.QueryEscape,    *)
(* with "0" for the root. A path is a sequence of characters, an id one of *)
(* tokens: a character, or a character written %xx.                        *)
(*                                                                         *)
(* The functions of net/url and path are modelled from how cds.go uses     *)
(* them. The definitions named ...Slip are not the code, see DmsServer.    *)
(***************************************************************************)
EXTENDS Integers, SequencesExt

CONSTANTS
  Chars,      \* the characters of paths; "/", ".", "%", "+", " ", "0" among them
  Unreserved  \* those that url.QueryEscape leaves alone

ASSUME ObjectIdsAssumption ==
  /\ {"/", ".", "%", "+", " ", "0"} \subseteq Chars
  /\ Unreserved \subseteq Chars
  /\ {".", "0"} \subseteq Unreserved
  /\ Unreserved \cap {"/", "%", "+", " "} = {}

(* A plain "%" is one that no two hexadecimal digits follow.               *)
Plain(c)   == [escaped |-> FALSE, char |-> c]
Escaped(c) == [escaped |-> TRUE, char |-> c]
Tokens     == [escaped : BOOLEAN, char : Chars]

-----------------------------------------------------------------------------
(* url.QueryEscape and url.QueryUnescape, which refuses a plain "%".       *)

Encode(c) ==
  CASE c = " "           -> Plain("+")
    [] c \in Unreserved  -> Plain(c)
    [] OTHER             -> Escaped(c)

Decode(t) == IF t = Plain("+") THEN " " ELSE t.char

QueryEscape(p) == [i \in DOMAIN p |-> Encode(p[i])]

Decodable(id) == \A i \in DOMAIN id : id[i] # Plain("%")

QueryUnescape(id) == [i \in DOMAIN id |-> Decode(id[i])]

-----------------------------------------------------------------------------
(* Package path, for rooted paths.                                         *)

IsAbs(p) == p # <<>> /\ p[1] = "/"

(* What stands between the slashes of p, one character after the other.    *)
Extended(names, c) ==
  IF c = "/" THEN Append(names, <<>>)
  ELSE [names EXCEPT ![Len(names)] = Append(@, c)]

Elements(p) ==
  LET names[i \in 0 .. Len(p)] ==
        IF i = 0 THEN <<<<>>>> ELSE Extended(names[i - 1], p[i])
  IN names[Len(p)]

(* The names that are left when "." and ".." have been followed. There is  *)
(* nothing above the root.                                                 *)
Follow(names, n) ==
  CASE n \in {<<>>, <<".">>} -> names
    [] n = <<".", ".">>      -> SubSeq(names, 1, Len(names) - 1)
    [] OTHER                 -> Append(names, n)

Followed(elements) ==
  LET names[i \in 0 .. Len(elements)] ==
        IF i = 0 THEN <<>> ELSE Follow(names[i - 1], elements[i])
  IN names[Len(elements)]

Names(p) == Followed(Elements(p))

(* The path of a name in p, and that of names one in the other.            *)
Below(p, name) == p \o <<"/">> \o name

Joined(names) ==
  LET path[i \in 0 .. Len(names)] ==
        IF i = 0 THEN <<>> ELSE Below(path[i - 1], names[i])
  IN path[Len(names)]

Root == <<"/">>

PathOf(names) == IF names = <<>> THEN Root ELSE Joined(names)

Clean(p) == PathOf(Names(p))

JoinPath(p, name) == Clean(Below(p, name))

Slashes(p) == {i \in DOMAIN p : p[i] = "/"}

(* path.Dir: p up to its last slash, cleaned.                              *)
Dir(p) ==
  Clean(SubSeq(p, 1, CHOOSE i \in Slashes(p) : \A j \in Slashes(p) : j <= i))

-----------------------------------------------------------------------------
(* The objects of cds.go: an object is its Path.                           *)

RootID == <<Plain("0")>>

IDSlip(p) ==  \* slip: the path is not escaped
  IF Len(p) = 1 THEN RootID ELSE [i \in DOMAIN p |-> Plain(p[i])]

ID(p) == IF ~IsAbs(p) \/ Len(p) = 1 THEN RootID ELSE QueryEscape(p)

IsRoot(p) == p = Root

NoParent == <<Plain("-1")>>

ParentIDSlip(p) ==  \* slip: the root is escaped like any other path
  IF IsRoot(p) THEN NoParent ELSE QueryEscape(Dir(p))

ParentID(p) == IF IsRoot(p) THEN NoParent ELSE ID(Dir(p))

(* objectFromID: the object of an id, or no object.                        *)
ObjectFromIDSlip(id) ==  \* slip: the path is not cleaned
  LET p == QueryUnescape(id)
      q == IF p = <<"0">> THEN Root ELSE p
  IN IF Decodable(id) /\ IsAbs(q) THEN {q} ELSE {}

ObjectFromID(id) ==
  LET p == QueryUnescape(id)
      q == IF p = <<"0">> THEN Root ELSE p
  IN IF Decodable(id) /\ IsAbs(q) THEN {Clean(q)} ELSE {}
=============================================================================
