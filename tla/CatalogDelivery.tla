-------------------------- MODULE CatalogDelivery --------------------------
(***************************************************************************)
(* From the WANDS export to accepted installations: the packets are built  *)
(* (PacketChain), the release assets at the end of the chain are uploaded, *)
(* recipients download them by the pin they were given (Download), and     *)
(* what was downloaded is installed and tried on the labs and in the demo  *)
(* (LabInstall, CommerceCases).                                            *)
(***************************************************************************)
EXTENDS PacketChain, Download, LabInstall, CommerceCases

VARIABLE phase  \* "build", "mirror" or "labs"

deliveryVars == <<vars, downloadVars, labVars, caseVars, phase>>

DeliveryInit ==
    /\ Init /\ DownloadInit /\ LabInit /\ CaseInit
    /\ phase = "build"

Builds(A) ==
    phase = "build" /\ A /\ UNCHANGED <<downloadVars, labVars, caseVars, phase>>
Downloads(A) ==
    phase = "mirror" /\ A /\ UNCHANGED <<vars, labVars, caseVars, phase>>
Installs(A) ==
    /\ phase = "labs" /\ opened = {}
    /\ A
    /\ UNCHANGED <<vars, downloadVars, caseVars, phase>>

(* Commerce is tried on a profile that the enriched lab has installed and  *)
(* verified, and nothing is installed from then on.                        *)
Tries(A) ==
    /\ phase = "labs" /\ site = "enriched" /\ "medium-complete" \in marks
    /\ Free /\ state.stage = "dump"
    /\ A
    /\ UNCHANGED <<vars, downloadVars, labVars, phase>>

(* A maintainer uploads the assets; the archives on the mirror do not      *)
(* change any more, and the packets have served their purpose.             *)
Upload ==
    /\ phase = "build" /\ Unbuilt = {}
    /\ phase' = "mirror"
    /\ file' = None
    /\ packet' = [i \in Places |-> Absent]
    /\ version' = 1 /\ edits' = 0 /\ deaths' = 0
    /\ UNCHANGED <<work, downloadVars, labVars, caseVars>>

(* Everybody has the release; the caches have served their purpose.        *)
HandOver ==
    /\ phase = "mirror" /\ \A c \in Clients : said[c] = "complete"
    /\ phase' = "labs"
    /\ manifest' = "none" /\ partial' = NoPartial /\ archive' = "none"
    /\ client' = [c \in Clients |-> Out] /\ holder' = Nobody
    /\ said' = [c \in Clients |-> "none"]
    /\ trouble' = 0
    /\ UNCHANGED <<vars, labVars, caseVars>>

DeliveryNext ==
    \/ Builds(Next)
    \/ Upload
    \/ Downloads(DownloadNext)
    \/ HandOver
    \/ Installs(LabNext)
    \/ Tries(CaseNext)

(* A script that was started runs on, and is started again when it was     *)
(* refused or has died; so is the download of whoever wants the release.   *)
DeliverySpec ==
    /\ DeliveryInit /\ [][DeliveryNext]_deliveryVars
    /\ WF_deliveryVars(Builds(Build))
    /\ \A c \in Clients : WF_deliveryVars(Downloads(Fetches(c)))

----------------------------------------------------------------------------
(* Properties.                                                             *)

(* Once the release is there, everyone who runs the download again until   *)
(* it is complete will have it, if no client was interrupted while it      *)
(* wrote the manifest: partial files, wrong bytes and other clients do not *)
(* get in the way for good (download.py main(): "rerun the same command to *)
(* resume").                                                               *)
Torn == manifest = "torn" /\ \A c \in Clients : ~In(c, "writing")
DownloadsFinish ==
    [](~Torn) => \A c \in Clients : (phase = "mirror") ~> (said[c] = "complete")
=============================================================================
