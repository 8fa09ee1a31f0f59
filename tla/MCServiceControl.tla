-------------------------- MODULE MCServiceControl ---------------------------
(* PagingClient on one folder that changes, and requests that reach every  *)
(* branch of the handlers.                                                 *)
EXTENDS PagingClient

CONSTANTS root, refused, season, film, trailer, text, pipe, bare

MCFolders == {root}
MCEntries == {season, film, trailer, text, pipe, bare}
MCFileInfo ==
  LET file(mt) == [dir |-> FALSE, regular |-> TRUE, typed |-> TRUE, type |-> mt]
  IN [e \in MCEntries |->
        CASE e = season  -> [dir |-> TRUE, regular |-> FALSE, typed |-> TRUE, type |-> "other"]
          [] e = film    -> file("realmedia")
          [] e = trailer -> file("image")
          [] e = text    -> file("other")
          [] e = pipe    -> [file("video") EXCEPT !.regular = FALSE]
          [] e = bare    -> [file("video") EXCEPT !.typed = FALSE]]

(* The folder grows three times at its end, shrinks, and is reordered.     *)
MCListings ==
  {<<>>, <<season, text>>, <<season, text, film, pipe>>,
   <<season, text, film, pipe, trailer, bare>>, <<trailer, season, film>>}

Request(service, action) ==
  [header |-> "good", envelope |-> TRUE, service |-> service, action |-> action,
   args |-> TRUE, id |-> root, flag |-> "BrowseDirectChildren",
   start |-> 0, count |-> 0]

Browse == Request("ContentDirectory", "Browse")

(* Pages within the folder, at its end, beyond it, and negative numbers.   *)
Pages == {[Browse EXCEPT !.start = s, !.count = n] : s \in -1 .. 4, n \in -1 .. 3}

(* Every other branch.                                                     *)
Oddities ==
  {[Browse EXCEPT !.header = "short"], [Browse EXCEPT !.header = "badURN"],
   [Browse EXCEPT !.envelope = FALSE], [Browse EXCEPT !.args = FALSE],
   [Browse EXCEPT !.id = refused], [Browse EXCEPT !.flag = "none"],
   Request("AVTransport", "Play"),
   Request("ContentDirectory", "GetSystemUpdateID"),
   Request("ConnectionManager", "GetProtocolInfo")}

Registrar == {Request("X_MS_MediaReceiverRegistrar", a) : a \in RegistrarActions}

MCPageSizes == 0 .. 2

MCRequests == Pages \cup Oddities \cup Registrar

Connections ==
  {Request("ConnectionManager", a) : a \in ConnectionManagerActions}
Everything  ==
  {[Request(s, a) EXCEPT !.flag = f] :
     s \in Services, a \in UNION {Advertised(t) : t \in Services},
     f \in {"BrowseMetadata", "BrowseDirectChildren"}}
=============================================================================
