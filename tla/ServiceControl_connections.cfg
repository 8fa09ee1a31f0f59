CONSTANTS
  Clients = {c1}
  root = root
  refused = refused
  season = season
  film = film
  trailer = trailer
  text = text
  pipe = pipe
  bare = bare
  Folders <- MCFolders
  Entries <- MCEntries
  FileInfo <- MCFileInfo
  Listings <- MCListings
  PageSizes <- MCPageSizes
  Requests <- Connections
  MaxChanges = 0
  MaxRetries = 0
SPECIFICATION PagingSpec
INVARIANT CurrentConnectionInfoServed
\* A client that has read its folder does nothing more.
CHECK_DEADLOCK FALSE
