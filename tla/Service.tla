------------------------------ MODULE Service -------------------------------
(***************************************************************************)
(* The parts that only read, or only decide: the timeline, the lists, the  *)
(* reads of one owner, access with its command-line client, and the two    *)
(* pages of the web client that only read.  None of them changes what      *)
(* another looks at, and each request opens connections of its own         *)
(* (db.py), so that whatever they do at once they also do one at a time: a *)
(* behaviour is about one of them, and the rest of the world stands still. *)
(***************************************************************************)
EXTENDS Timeline, Listings, Owned, Cli, Search, Dossier

VARIABLE about      \* the part that is looked at

serviceVars == <<timelineVars, listingVars, ownedVars, cliVars, searchVars, dossierVars, about>>

Init ==
    /\ about \in {"timeline", "lists", "owned", "access", "search", "dossier"}
    /\ TimelineInit /\ ListingInit /\ OwnedInit /\ CliInit /\ SearchInit /\ DossierInit
    /\ about # "timeline" => installed
    /\ about # "lists" => list = CommandLogs
    /\ about # "access" => group = Admin

TimelineMoves ==
    /\ about = "timeline" /\ TimelineNext
    /\ UNCHANGED <<listingVars, ownedVars, cliVars, searchVars, dossierVars, about>>
ListsMove ==
    /\ about = "lists" /\ ListingNext
    /\ UNCHANGED <<timelineVars, ownedVars, cliVars, searchVars, dossierVars, about>>
OwnedMoves ==
    /\ about = "owned" /\ OwnedNext
    /\ UNCHANGED <<timelineVars, listingVars, cliVars, searchVars, dossierVars, about>>
AccessMoves ==
    /\ about = "access" /\ CliOrOthers
    /\ UNCHANGED <<timelineVars, listingVars, ownedVars, searchVars, dossierVars, about>>
SearchMoves ==
    /\ about = "search" /\ SearchNext
    /\ UNCHANGED <<timelineVars, listingVars, ownedVars, cliVars, dossierVars, about>>
DossierMoves ==
    /\ about = "dossier" /\ DossierNext
    /\ UNCHANGED <<timelineVars, listingVars, ownedVars, cliVars, searchVars, about>>

Next == TimelineMoves \/ ListsMove \/ OwnedMoves \/ AccessMoves \/ SearchMoves \/ DossierMoves

Spec == Init /\ [][Next]_serviceVars
=============================================================================
