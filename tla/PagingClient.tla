---------------------------- MODULE PagingClient -----------------------------
(***************************************************************************)
(* A control point that reads a folder page by page with Browse, against   *)
(* the services of ServiceControl. It is not part of the repository: it    *)
(* asks for what follows what it has, with a page size it may vary, until  *)
(* it has TotalMatches objects or gets an empty page, and asks again when  *)
(* a reply is lost or a fault. Before it begins, or instead, it may send   *)
(* any other request.                                                      *)
(***************************************************************************)
EXTENDS ServiceControl, SequencesExt

CONSTANTS
  PageSizes,  \* values of RequestedCount; 0 asks for everything
  MaxRetries  \* bound: requests sent again

ASSUME PagingClientAssumption ==
  /\ PageSizes \subseteq Nat
  /\ MaxRetries \in Nat

VARIABLES
  folder,   \* folder[c]: the folder being read: a set of at most one
  got,      \* the objects received, in order
  whole,    \* whether the client believes it has the whole folder
  opening,  \* what the folder held when the client began (history)
  calm,     \* since then the folder only grew, at its end (history)
  retries   \* requests sent again so far

clientVars == <<folder, got, whole, opening, calm, retries>>
pagingVars == <<vars, clientVars>>

Ask(f, start, count) ==
  [header |-> "good", envelope |-> TRUE, service |-> "ContentDirectory",
   action |-> "Browse", args |-> TRUE, id |-> f,
   flag |-> "BrowseDirectChildren", start |-> start, count |-> count]

PagingInit ==
  /\ Init
  /\ folder = [c \in Clients |-> {}]
  /\ got = [c \in Clients |-> <<>>]
  /\ whole = [c \in Clients |-> FALSE]
  /\ opening = [c \in Clients |-> <<>>]
  /\ calm = [c \in Clients |-> TRUE]
  /\ retries = 0

(* A request of another kind, and its reply.                               *)
Stray(c) ==
  /\ folder[c] = {}
  /\ (\E q \in Requests : Receive(c, q)) \/ Finish(c)
  /\ UNCHANGED clientVars

(* The client starts to read a folder.                                     *)
Open(c, f) ==
  /\ folder[c] = {}
  /\ stage[c] = "idle"
  /\ folder' = [folder EXCEPT ![c] = {f}]
  /\ opening' = [opening EXCEPT ![c] = webdav[f]]
  /\ UNCHANGED <<vars, got, whole, calm, retries>>

(* It asks for a page.                                                     *)
AskPage(c, n) ==
  /\ ~whole[c]
  /\ \E f \in folder[c] : Receive(c, Ask(f, Len(got[c]), n))
  /\ UNCHANGED clientVars

(* It takes a page, and decides whether that was the last.                 *)
TakePage(c) ==
  /\ folder[c] # {}
  /\ \E p \in reply[c] :
       /\ p.kind = "page"
       /\ got' = [got EXCEPT ![c] = @ \o p.objs]
       /\ whole' = [whole EXCEPT ![c] = p.objs = <<>> \/ Len(got'[c]) >= p.total]
  /\ Finish(c)
  /\ UNCHANGED <<folder, opening, calm, retries>>

(* The reply is a fault, or is lost: the client will ask again.            *)
LosePage(c) ==
  /\ folder[c] # {}
  /\ retries < MaxRetries
  /\ retries' = retries + 1
  /\ Finish(c)
  /\ UNCHANGED <<folder, got, whole, opening, calm>>

(* A folder changes under the clients that read it.                        *)
ChangeUnder(f, listing) ==
  /\ Change(f, listing)
  /\ calm' = [c \in Clients |-> calm[c] /\
                (f \in folder[c] => IsPrefix(webdav[f], listing))]
  /\ UNCHANGED <<folder, got, whole, opening, retries>>

PagingNext ==
  \/ \E c \in Clients :
       \/ HandlerStep(c) /\ UNCHANGED clientVars
       \/ Stray(c)
       \/ TakePage(c)
       \/ LosePage(c)
       \/ \E f \in Folders : Open(c, f)
       \/ \E n \in PageSizes : AskPage(c, n)
  \/ \E f \in Folders, l \in Listings : ChangeUnder(f, l)

PagingSpec == PagingInit /\ [][PagingNext]_pagingVars

-----------------------------------------------------------------------------
(* Properties.                                                             *)

(* The pages that Browse cuts fit together, although each is cut from a    *)
(* listing of its own and pages are lost and asked for again: as long as   *)
(* the folder only grows at its end, a client has a prefix of its objects, *)
(* each once and in order.                                                 *)
PagesFitTogether ==
  \A c \in Clients : calm[c] =>
    \A f \in folder[c] : IsPrefix(got[c], Objects(webdav[f]))

(* A client that TotalMatches or an empty page told to stop has everything *)
(* that the folder showed when it began.                                   *)
WholeFolder ==
  \A c \in Clients : calm[c] /\ whole[c] => IsPrefix(Objects(opening[c]), got[c])

-----------------------------------------------------------------------------
(* What makes PagesFitTogether and WholeFolder inductive.                  *)

(* Every variable of the client holds a value of its type.                 *)
ClientTypeOK ==
  /\ folder \in [Clients -> SUBSET Folders]
  /\ got \in [Clients -> Seq(Entries)]
  /\ whole \in [Clients -> BOOLEAN]
  /\ opening \in [Clients -> Seq(Entries)]
  /\ calm \in [Clients -> BOOLEAN]

(* A client reads one folder, and asks for what follows what it has.       *)
AsksForTheRest ==
  \A c \in Clients : \A f \in folder[c] :
    /\ folder[c] = {f}
    /\ \A q \in request[c] : q.id = f /\ q.start = Len(got[c]) /\ q.count \in Nat

(* A client that reads no folder yet has nothing.                          *)
NothingBeforeOpening ==
  \A c \in Clients : folder[c] = {} => got[c] = <<>> /\ ~whole[c]

(* While calm holds, the folder still begins with what it held at first.   *)
OnlyGrew ==
  \A c \in Clients : calm[c] =>
    \A f \in folder[c] : IsPrefix(opening[c], webdav[f])

(* A page on its way will fit: its objects follow what the client has, and *)
(* what it says of the end is true of the folder at the opening.           *)
Fits(p, have, opened, now) ==
  /\ IsPrefix(have \o p.objs, now)
  /\ p.objs = <<>> => IsPrefix(opened, have)
  /\ Len(have \o p.objs) >= p.total => IsPrefix(opened, have \o p.objs)

(* Every page that is on its way to a client that reads fits.              *)
PageFits ==
  \A c \in Clients : \A f \in folder[c] : \A p \in reply[c] :
    p.kind = "page" =>
      /\ p.objs \in Seq(Entries)
      /\ calm[c] => Fits(p, got[c], Objects(opening[c]), Objects(webdav[f]))

PagingInv ==
  /\ ControlInv
  /\ ClientTypeOK
  /\ AsksForTheRest
  /\ NothingBeforeOpening
  /\ OnlyGrew
  /\ PagesFitTogether
  /\ WholeFolder
  /\ PageFits
=============================================================================
