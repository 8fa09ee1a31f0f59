---------------------------- MODULE FolderBrowser ----------------------------
(***************************************************************************)
(* A control point that walks through the folders of the WebDAV server by  *)
(* the ids of ObjectIds: down by the id of an object that a page shows, up *)
(* by the parent id that came with it. It begins at the root, or at any id *)
(* that it was told or has kept from another day; the server remembers     *)
(* nothing between two requests. The ids are all it knows; the paths are   *)
(* the server's. The control point is not part of the repository.          *)
(***************************************************************************)
EXTENDS ObjectIds

CONSTANTS
  FileNames,  \* the names that every folder of the WebDAV server holds
  MaxDepth,   \* bound: how deep the folders are nested
  Texts       \* ids that a client may begin with

(* A name is not empty, has no slash, and is neither "." nor "..".         *)
IsName(n) == n \notin {<<>>, <<".">>, <<".", ".">>} /\ Slashes(n) = {}

(* A "%" that two digits follow is part of an escaped character.           *)
IsText(t) ==
  \A i \in DOMAIN t : t[i] = Plain("%") /\ i + 2 \in DOMAIN t =>
    t[i + 1] # Plain("0") \/ t[i + 2] # Plain("0")

ASSUME FolderBrowserAssumption ==
  /\ \A n \in FileNames : n \in Seq(Chars) /\ IsName(n)
  /\ MaxDepth \in Nat
  /\ \A t \in Texts : t \in Seq(Tokens) /\ IsText(t)

VARIABLES
  asked,   \* the id of the last Browse
  object,  \* the object of that id: a set of at most one path
  page,    \* the objects shown: their ids, parent ids, and paths (history)
  trail    \* the objects that the client has entered, one in the other

vars == <<asked, object, page, trail>>

(* ReadDir finds a folder that exists, and fails otherwise.                *)
Holds(p) ==
  IF Len(Names(p)) < MaxDepth /\ Range(Names(p)) \subseteq FileNames
    THEN FileNames ELSE {}

(* readContainer and cdsObjectToUpnpavObject: a child, as a page shows it. *)
Shown(p, n) ==
  LET child == JoinPath(p, n)
  IN [id |-> ID(child), parent |-> ParentID(child), path |-> child]

PageOf(id) == UNION {{Shown(p, n) : n \in Holds(p)} : p \in ObjectFromID(id)}

Init ==
  /\ asked \in Texts \cup {RootID}
  /\ object = ObjectFromID(asked)
  /\ page = PageOf(asked)
  /\ trail = <<>>

(* A Browse of the direct children, all of them.                           *)
Browse(id) ==
  /\ asked' = id
  /\ object' = ObjectFromID(id)
  /\ page' = PageOf(id)

Enter(o) ==
  /\ o \in page
  /\ Browse(o.id)
  /\ trail' = Append(trail, o)

Up ==
  /\ trail # <<>>
  /\ Browse(Last(trail).parent)
  /\ trail' = Front(trail)

Next == Up \/ \E o \in page : Enter(o)

Spec == Init /\ [][Next]_vars

-----------------------------------------------------------------------------
(* Properties.                                                             *)

(* "The cleaned, absolute path for the object relative to the server":     *)
(* however an id is spelled, the path given to ReadDir is rooted, and has  *)
(* no empty name, no "." and no "..".                                      *)
PathIsClean ==
  \A p \in object :
    /\ IsAbs(p)
    /\ p # Root => \A i \in 2 .. Len(Elements(p)) : IsName(Elements(p)[i])

(* Whatever the characters of the names, the id that a page shows for an   *)
(* object leads to that very object when a client asks for it.             *)
IdsLeadBack == \A o \in page : ObjectFromID(o.id) = {o.path}

(* An object has one name for the folder it is in: the parent id of what a *)
(* page shows is the id by which a client that came from the root asked    *)
(* for that folder, and it leads to that folder however the client spelled *)
(* its id. Going up undoes going down, as far as the root and its "0".     *)
ParentsLeadBack ==
  \A o \in page :
    /\ ObjectFromID(o.parent) = object
    /\ asked = RootID \/ trail # <<>> => o.parent = asked

-----------------------------------------------------------------------------
(* The inductive invariant of the proofs: what the server has answered     *)
(* follows from what it was asked, and a client that came from the root    *)
(* asks, now and on its way up, for ids that the server has written.       *)

IsWritten(id) ==
  /\ id \in Seq(Tokens)
  /\ \A p \in ObjectFromID(id) : id = ID(p)

IInv ==
  /\ asked \in Seq(Tokens)
  /\ object = ObjectFromID(asked)
  /\ page = PageOf(asked)
  /\ trail \in Seq([id : Seq(Tokens), parent : Seq(Tokens), path : Seq(Chars)])
  /\ asked = RootID \/ trail # <<>> => IsWritten(asked)
  /\ \A i \in DOMAIN trail : IsWritten(trail[i].parent)
=============================================================================
