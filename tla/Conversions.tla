---------------------------- MODULE Conversions ------------------------------
(***************************************************************************)
(* What the program turns into text and back: the ids that a client of     *)
(* FolderBrowser walks by and, with no connection to them, the play times  *)
(* of NptTime.                                                             *)
(***************************************************************************)
EXTENDS FolderBrowser, NptTime

CONSTANT Times  \* times to be written and read, in milliseconds

ASSUME ConversionsAssumption == Times \subseteq Nat

VARIABLE time  \* one of them

(* The times are joined to one of the clients only, to keep them apart.    *)
ConversionsInit == Init /\ time \in (IF asked = RootID THEN Times ELSE {0})

ConversionsNext == Next /\ UNCHANGED time

ConversionsSpec == ConversionsInit /\ [][ConversionsNext]_<<vars, time>>

-----------------------------------------------------------------------------
(* Properties.                                                             *)

(* Any time survives the two conversions.                                  *)
TimesSurvive == RoundTrip(time)

(* The text of a time means the same to others.                            *)
TimesAreMeant == DecimalsOfASecond(time)
=============================================================================
