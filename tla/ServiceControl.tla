--------------------------- MODULE ServiceControl ----------------------------
(***************************************************************************)
(* UPnP control requests: serviceControlHandler (dlna/dms/dms.go), the     *)
(* Handle methods of the three services (cds.go, cms.go, mrrs.go), and the *)
(* folders of the WebDAV server that Browse lists. net/http runs every     *)
(* request in a goroutine of its own; they share the folders only.         *)
(*                                                                         *)
(* An ObjectID is opaque: one that objectFromID refuses, or one that names *)
(* a folder. So is an entry of a folder, up to what ReadDir says of it.    *)
(*                                                                         *)
(* The definitions named ...Slip are not the code: each is a mistake that  *)
(* the definition after it avoids, and that some property tells from it.   *)
(***************************************************************************)
EXTENDS Integers, Sequences

CONSTANTS
  Clients,    \* connections; each has one request at a time
  Folders,    \* ObjectIDs that name folders of the WebDAV server
  Entries,    \* what folders hold
  FileInfo,   \* FileInfo[e]: what ReadDir says of e, see IsFileInfo
  Listings,   \* what ReadDir may return for a folder
  Requests,   \* requests a client may send, see IsRequest
  MaxChanges  \* bound: changes of the folders

Services == {"ContentDirectory", "ConnectionManager", "X_MS_MediaReceiverRegistrar"}

(* A control request. header: the SOAPACTION header is well formed, or     *)
(* "short" of its quotes or its "#", or has a part before "#" that is no   *)
(* service URN. envelope: the body decodes as a SOAP envelope. args: the   *)
(* arguments of Browse decode.                                             *)
IsRequest(q) ==
  /\ q.header \in {"good", "short", "badURN"}
  /\ q.envelope \in BOOLEAN
  /\ q.args \in BOOLEAN
  /\ q.start \in Int
  /\ q.count \in Int
  /\ DOMAIN q = {"header", "envelope", "service", "action", "args", "id",
                 "flag", "start", "count"}

(* An entry: a directory, a regular file, or neither; whether it has a     *)
(* content type, and which. Types are alike up to their first part, apart  *)
(* from application/vnd.rn-realmedia-vbr.                                  *)
MimeTypes == {"video", "audio", "image", "realmedia", "other"}

IsFileInfo(fi) ==
  fi \in [dir : BOOLEAN, regular : BOOLEAN, typed : BOOLEAN, type : MimeTypes]

ASSUME ServiceControlAssumption ==
  /\ \A e \in Entries : IsFileInfo(FileInfo[e])
  /\ Listings \subseteq Seq(Entries)
  /\ MaxChanges \in Nat
  /\ \A q \in Requests : IsRequest(q)

VARIABLES
  webdav,   \* webdav[f]: what the folder f holds, in the order ReadDir gives
  changes,  \* changes of the folders so far
  stage,    \* where the request of each client is
  request,  \* the request itself: a set of at most one
  reply     \* what was answered: a set of at most one

vars == <<webdav, changes, stage, request, reply>>

Bad       == [kind |-> "bad"]       \* 400, before any action is looked at
Result    == [kind |-> "result"]    \* 200, with constant arguments
Aborted   == [kind |-> "aborted"]   \* the handler panicked: no response
Fault(n)  == [kind |-> "fault", code |-> n]
Page(s, n) == [kind |-> "page", objs |-> s, total |-> n]

InvalidActionErrorCode        == 401
ActionFailedErrorCode         == 501
ArgumentValueInvalidErrorCode == 600
NoSuchObjectErrorCode         == 701

-----------------------------------------------------------------------------
(* What the services advertise, and what they handle.                      *)

(* The action lists of the three service descriptions.                     *)
ContentDirectoryActions ==
  {"GetSearchCapabilities", "GetSortCapabilities",
   "GetSortExtensionCapabilities", "GetFeatureList", "GetSystemUpdateID",
   "Browse", "Search", "CreateObject", "DestroyObject", "UpdateObject",
   "MoveObject", "ImportResource", "ExportResource", "StopTransferResource",
   "DeleteResource", "GetTransferProgress", "CreateReference",
   "X_GetFeatureList", "X_SetBookmark"}

ConnectionManagerActions ==
  {"GetProtocolInfo", "PrepareForConnection", "ConnectionComplete",
   "GetCurrentConnectionIDs", "GetCurrentConnectionInfo"}

RegistrarActions == {"IsAuthorized", "RegisterDevice", "IsValidated"}

Advertised(service) ==
  CASE service = "ContentDirectory"  -> ContentDirectoryActions
    [] service = "ConnectionManager" -> ConnectionManagerActions
    [] OTHER                         -> RegistrarActions

(* The actions that the Handle methods answer with constant arguments.     *)
ContentDirectoryResults == {"GetSystemUpdateID", "GetSortCapabilities"}

ConnectionManagerResults ==
  {".GetCurrentConnectionInfo", "GetCurrentConnectionIDs", "GetProtocolInfo"}

RegistrarResults == {"IsAuthorized", "IsValidated", "RegisterDevice"}

Results(service) ==
  CASE service = "ContentDirectory"  -> ContentDirectoryResults
    [] service = "ConnectionManager" -> ConnectionManagerResults
    [] OTHER                         -> RegistrarResults

-----------------------------------------------------------------------------
(* What a folder shows, and the part of it that a page holds.              *)

(* mimeType.IsMedia and what it is made of.                                *)
IsVideo(mt) == mt \in {"video", "realmedia"}
IsAudio(mt) == mt = "audio"
IsImage(mt) == mt = "image"
IsMedia(mt) == IsVideo(mt) \/ IsAudio(mt) \/ IsImage(mt)

(* cdsObjectToUpnpavObject makes objects of directories, and of regular    *)
(* files that have the content type of a medium.                           *)
Shown(e) ==
  LET fi == FileInfo[e]
  IN fi.dir \/ (fi.regular /\ fi.typed /\ IsMedia(fi.type))

(* readContainer: the objects of a folder, in the order of its entries.    *)
(* ret[i] is the result after i turns of its loop.                         *)
Collected(listing) ==
  LET ret[i \in 0 .. Len(listing)] ==
        IF i = 0 THEN <<>>
        ELSE IF Shown(listing[i]) THEN Append(ret[i - 1], listing[i]) ELSE ret[i - 1]
  IN ret

Objects(listing) == Collected(listing)[Len(listing)]

(* The index that StartingIndex is clamped to.                             *)
LowSlip(objs, start) == start  \* slip: no clamp to the number of objects

Low(objs, start) == IF start > Len(objs) THEN Len(objs) ELSE start

(* objs[low:], then objs[:RequestedCount] unless that is 0 or too many.    *)
WindowSlip(objs, start, count) ==  \* slip: cut to RequestedCount before low
  SubSeq(objs, Low(objs, start) + 1,
         IF count # 0 /\ count < Len(objs) THEN count ELSE Len(objs))

WindowRepeatsSlip(objs, start, count) ==  \* slip: StartingIndex is ignored
  IF count # 0 /\ count < Len(objs) THEN SubSeq(objs, 1, count) ELSE objs

Window(objs, start, count) ==
  LET rest == SubSeq(objs, Low(objs, start) + 1, Len(objs))
  IN IF count # 0 /\ count < Len(rest) THEN SubSeq(rest, 1, count) ELSE rest

(* A slice out of bounds panics, and net/http drops the connection.        *)
OutOfBounds(objs, start, count) ==
  Low(objs, start) \notin 0 .. Len(objs) \/ count < 0

PageOf(listing, q) ==
  LET objs == Objects(listing)
  IN IF OutOfBounds(objs, q.start, q.count) THEN Aborted
     ELSE Page(Window(objs, q.start, q.count), Len(objs))

-----------------------------------------------------------------------------
Init ==
  /\ webdav \in [Folders -> Listings]
  /\ changes = 0
  /\ stage = [c \in Clients |-> "idle"]
  /\ request = [c \in Clients |-> {}]
  /\ reply = [c \in Clients |-> {}]

(* A client sends a request, and net/http starts its handler.              *)
Receive(c, q) ==
  /\ stage[c] = "idle"
  /\ stage' = [stage EXCEPT ![c] = "received"]
  /\ request' = [request EXCEPT ![c] = {q}]
  /\ UNCHANGED <<webdav, changes, reply>>

(* A malformed header is no error to ParseActionHTTPHeader, which returns  *)
(* the zero action: its service is the empty string.                       *)
ServiceOf(q) == IF q.header = "short" THEN "" ELSE q.service

Browses(q) == ServiceOf(q) = "ContentDirectory" /\ q.action = "Browse"

(* Whether Handle gets as far as listing the folder.                       *)
Lists(q) ==
  /\ q.header # "badURN" /\ q.envelope
  /\ Browses(q)
  /\ q.args
  /\ q.id \in Folders
  /\ q.flag = "BrowseDirectChildren"

(* What is answered without a look at the folders, in the order in which   *)
(* the code comes to it.                                                   *)
Immediate(q) ==
  IF q.header = "badURN" \/ ~q.envelope        THEN Bad
  ELSE IF ServiceOf(q) \notin Services         THEN Fault(InvalidActionErrorCode)
  ELSE IF ~Browses(q)
    THEN IF q.action \in Results(ServiceOf(q)) THEN Result
         ELSE Fault(InvalidActionErrorCode)
  ELSE IF ~q.args                              THEN Fault(ActionFailedErrorCode)
  ELSE IF q.id \notin Folders                  THEN Fault(NoSuchObjectErrorCode)
  ELSE Fault(ArgumentValueInvalidErrorCode)

(* serviceControlHandler up to its answer, or up to the call of ReadDir.   *)
Dispatch(c) ==
  /\ stage[c] = "received"
  /\ \E q \in request[c] :
       IF Lists(q)
         THEN /\ stage' = [stage EXCEPT ![c] = "listing"]
              /\ UNCHANGED reply
         ELSE /\ stage' = [stage EXCEPT ![c] = "answered"]
              /\ reply' = [reply EXCEPT ![c] = {Immediate(q)}]
  /\ UNCHANGED <<webdav, changes, request>>

(* ReadDir returns what the folder holds, and the page is cut out of it.   *)
ReadContainer(c) ==
  /\ stage[c] = "listing"
  /\ stage' = [stage EXCEPT ![c] = "answered"]
  /\ reply' = [reply EXCEPT ![c] = {PageOf(webdav[q.id], q) : q \in request[c]}]
  /\ UNCHANGED <<webdav, changes, request>>

(* ReadDir fails: whatever the reason, the object is said not to exist.    *)
ReadDirFailsSlip(c) ==  \* slip: the error is logged, and no one is told
  /\ stage[c] = "listing"
  /\ stage' = [stage EXCEPT ![c] = "answered"]
  /\ UNCHANGED <<webdav, changes, request, reply>>

ReadDirFails(c) ==
  /\ stage[c] = "listing"
  /\ stage' = [stage EXCEPT ![c] = "answered"]
  /\ reply' = [reply EXCEPT ![c] = {Fault(NoSuchObjectErrorCode)}]
  /\ UNCHANGED <<webdav, changes, request>>

(* The reply reaches the client, or is lost on its way.                    *)
Finish(c) ==
  /\ stage[c] = "answered"
  /\ stage' = [stage EXCEPT ![c] = "idle"]
  /\ request' = [request EXCEPT ![c] = {}]
  /\ reply' = [reply EXCEPT ![c] = {}]
  /\ UNCHANGED <<webdav, changes>>

(* Somebody changes a folder of the WebDAV server.                         *)
Change(f, listing) ==
  /\ changes < MaxChanges
  /\ listing # webdav[f]
  /\ webdav' = [webdav EXCEPT ![f] = listing]
  /\ changes' = changes + 1
  /\ UNCHANGED <<stage, request, reply>>

HandlerStep(c) == Dispatch(c) \/ ReadContainer(c) \/ ReadDirFails(c)

Next ==
  \/ \E c \in Clients : HandlerStep(c) \/ Finish(c)
  \/ \E c \in Clients, q \in Requests : Receive(c, q)
  \/ \E f \in Folders, l \in Listings : Change(f, l)

Spec == Init /\ [][Next]_vars

-----------------------------------------------------------------------------
(* Properties.                                                             *)

(* Every variable holds a value of its type, and a reply is there when the *)
(* request is answered.                                                    *)
TypeOK ==
  /\ webdav \in [Folders -> Listings]
  /\ changes \in 0 .. MaxChanges
  /\ stage \in [Clients -> {"idle", "received", "listing", "answered"}]
  /\ DOMAIN request = Clients /\ DOMAIN reply = Clients
  /\ \A c \in Clients :
       /\ \A q, r \in request[c] : IsRequest(q) /\ q = r
       /\ (stage[c] = "idle") <=> (request[c] = {})
       /\ (stage[c] = "answered") <=> (reply[c] # {})

(* A handler never panics on a request with numbers that the service       *)
(* description allows (ui4): neither on a StartingIndex beyond the end of  *)
(* the folder, nor on any RequestedCount, nor on a folder that shrank      *)
(* since the client saw its size.                                          *)
LegalRequestsDoNotPanic ==
  \A c \in Clients : \A q \in request[c] :
    q.start >= 0 /\ q.count >= 0 => Aborted \notin reply[c]

(* Only what is to be listed is listed: with the two properties above,     *)
(* this is inductive.                                                      *)
ListingInv ==
  \A c \in Clients : stage[c] = "listing" => \A q \in request[c] : Lists(q)

ControlInv == TypeOK /\ ListingInv /\ LegalRequestsDoNotPanic

(* The description of ConnectionManager lists GetCurrentConnectionInfo,    *)
(* and Handle has an answer for it: the action is not refused as invalid.  *)
CurrentConnectionInfoServed ==
  \A c \in Clients : \A q \in request[c] :
    /\ q.header = "good"
    /\ q.service = "ConnectionManager"
    /\ q.action = "GetCurrentConnectionInfo"
    => Fault(InvalidActionErrorCode) \notin reply[c]

(* The descriptions are honoured: an action that the description of a      *)
(* service lists is not refused as invalid, nor is a Browse with a value   *)
(* that the description allows for BrowseFlag.                             *)
AdvertisedActionsServed ==
  \A c \in Clients : \A q \in request[c] :
    /\ q.header = "good"
    /\ q.service \in Services
    /\ q.action \in Advertised(q.service)
    /\ q.flag \in {"BrowseMetadata", "BrowseDirectChildren"}
    => reply[c] \cap {Fault(InvalidActionErrorCode),
                      Fault(ArgumentValueInvalidErrorCode)} = {}
=============================================================================
