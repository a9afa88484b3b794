------------------------------ MODULE Download ------------------------------
(***************************************************************************)
(* Downloading a pinned release (distribution/download.py, and            *)
(* github_download.py, whose opener asks for release assets by name).  The *)
(* cache directory of a pin holds the manifest, the archive and, while it  *)
(* arrives, its partial file.  A mirror may refuse, break off, ignore the  *)
(* range that is asked for, or send other bytes; a client may be killed    *)
(* anywhere; the disk may change what it keeps.  Whatever the client finds,*)
(* it goes on from there, and only bytes that match the pin are promoted.  *)
(***************************************************************************)
EXTENDS Naturals

CONSTANTS
    Clients,
    GitHub,     \* the clients that ask for the assets of a GitHub release
    Nobody,
    Size,       \* bound: the blocks of an archive
    Attempts,   \* bound: the requests of one run for one file
    MaxTrouble  \* bound: bad answers, broken connections, deaths, bad disks

ASSUME DownloadBounds ==
    /\ Size \in Nat \ {0} /\ Attempts \in Nat \ {0} /\ MaxTrouble \in Nat
    /\ Nobody \notin Clients /\ GitHub \subseteq Clients

VARIABLES
    manifest,  \* manifest.json in the cache: "none", "torn" or "whole"
    partial,   \* the partial file: [blocks, right]; NoPartial if there is none
    archive,   \* the archive: "none", "right" or "wrong"
    client,    \* client[c]: [at, tries, offset]
    holder,    \* who holds .download.lock
    said,      \* said[c]: "none", "failed" or "complete"
    trouble

downloadVars == <<manifest, partial, archive, client, holder, said, trouble>>
cache == <<manifest, partial, archive>>

NoPartial == [blocks |-> 0, right |-> TRUE, there |-> FALSE]
Partial(blocks, right) == [blocks |-> blocks, right |-> right, there |-> TRUE]
Out == [at |-> "out", tries |-> 0, offset |-> 0]

DownloadInit ==
    /\ manifest = "none" /\ partial = NoPartial /\ archive = "none"
    /\ client = [c \in Clients |-> Out]
    /\ holder = Nobody
    /\ said = [c \in Clients |-> "none"]
    /\ trouble = 0

In(c, place) == client[c].at = place
Enters(c, place) == client' = [client EXCEPT ![c].at = place]
Trouble == trouble < MaxTrouble /\ trouble' = trouble + 1
Leaves(c, word) ==
    /\ client' = [client EXCEPT ![c] = Out]
    /\ said' = [said EXCEPT ![c] = word]
    /\ holder' = IF holder = c THEN Nobody ELSE holder

(* A failed attempt is repeated; after the last one the run fails.         *)
NextAttempt(c) ==
    IF client[c].tries + 1 < Attempts
    THEN /\ client' = [client EXCEPT
                         ![c].tries = @ + 1,
                         ![c].at = IF @ = "manifest" THEN @ ELSE "attempt"]
         /\ UNCHANGED <<said, holder>>
    ELSE Leaves(c, "failed")

----------------------------------------------------------------------------
StartDownload(c) ==
    /\ In(c, "out") /\ said[c] # "complete"
    /\ Enters(c, IF c \in GitHub THEN "assets" ELSE "lock")
    /\ UNCHANGED <<cache, holder, said, trouble>>

(* The release and the pages of its assets are asked for once.             *)
ListAssets(c) ==
    /\ In(c, "assets")
    /\ Enters(c, "lock")
    /\ UNCHANGED <<cache, holder, said, trouble>>

AssetsUnavailable(c) ==
    /\ In(c, "assets")
    /\ Trouble
    /\ Leaves(c, "failed")
    /\ UNCHANGED cache

(* One run locks the directory; another one gives up at once.              *)
LockCache(c) ==
    /\ In(c, "lock")
    /\ IF holder = Nobody
       THEN holder' = c /\ Enters(c, "manifest") /\ UNCHANGED said
       ELSE Leaves(c, "failed")
    /\ UNCHANGED <<cache, trouble>>

(* A manifest that is there must be the pinned one.                        *)
CachedManifest(c) ==
    /\ In(c, "manifest") /\ manifest # "none"
    /\ IF manifest = "whole"
       THEN client' = [client EXCEPT ![c].at = "file", ![c].tries = 0]
            /\ UNCHANGED <<said, holder>>
       ELSE Leaves(c, "failed")
    /\ UNCHANGED <<cache, trouble>>

(* What arrives is compared with the pin, then written under its name.     *)
OpenManifest(c) ==
    /\ In(c, "manifest") /\ manifest = "none"
    /\ manifest' = "torn"
    /\ Enters(c, "writing")
    /\ UNCHANGED <<partial, archive, holder, said, trouble>>

WriteManifest(c) ==
    /\ In(c, "writing")
    /\ manifest' = "whole"
    /\ client' = [client EXCEPT ![c].at = "file", ![c].tries = 0]
    /\ UNCHANGED <<partial, archive, holder, said, trouble>>

(* A broken transfer is repeated; other bytes end the run.  When the disk  *)
(* is full while it is written, every attempt left finds its own file.     *)
ManifestFails(c) ==
    /\ Trouble
    /\ \/ In(c, "manifest") /\ manifest = "none" /\ NextAttempt(c)
       \/ In(c, "manifest") /\ manifest = "none" /\ Leaves(c, "failed")
       \/ In(c, "writing") /\ Leaves(c, "failed")
    /\ UNCHANGED cache

----------------------------------------------------------------------------
(* The archive, if it is there, is hashed; what is wrong is put aside.     *)
LookAtArchive(c) ==
    /\ In(c, "file")
    /\ IF archive = "right" THEN Enters(c, "check") ELSE Enters(c, "attempt")
    /\ archive' = IF archive = "right" THEN archive ELSE "none"
    /\ UNCHANGED <<manifest, partial, holder, said, trouble>>

Whole == partial.there /\ partial.blocks >= Size

(* A partial file of the full length is promoted, or put aside.            *)
PromotePartial(c) ==
    /\ In(c, "attempt") /\ Whole /\ partial.right
    /\ partial' = NoPartial /\ archive' = "right"
    /\ Enters(c, "check")
    /\ UNCHANGED <<manifest, holder, said, trouble>>

\* Mutant: a partial file of the full length is asked to go on.
KeepsPartial == partial

Kept == IF Whole THEN NoPartial ELSE partial

Connect(c, offset) ==
    client' = [client EXCEPT ![c].at = "stream", ![c].offset = offset]

(* The range that is missing is asked for, and sent.                       *)
SendRange(c) ==
    /\ In(c, "attempt") /\ ~(Whole /\ partial.right)
    /\ Kept.blocks \in 1 .. Size - 1
    /\ partial' = Kept
    /\ Connect(c, Kept.blocks)
    /\ UNCHANGED <<manifest, archive, holder, said, trouble>>

(* All of it is sent, asked for or not: the partial file begins anew.      *)
SendAll(c) ==
    /\ In(c, "attempt") /\ ~(Whole /\ partial.right)
    /\ IF Kept.blocks > 0 THEN Trouble ELSE UNCHANGED trouble
    /\ partial' = Partial(0, TRUE)
    /\ Connect(c, 0)
    /\ UNCHANGED <<manifest, archive, holder, said>>

(* An error, another range, another length, an encoding, a redirection.    *)
Refused(c) ==
    /\ In(c, "attempt") /\ ~(Whole /\ partial.right)
    /\ Trouble
    /\ partial' = Kept
    /\ NextAttempt(c)
    /\ UNCHANGED <<manifest, archive>>

Streams(c) == In(c, "stream") /\ client[c].offset < Size

Receive(c) ==
    /\ Streams(c)
    /\ \/ /\ partial' = Partial(partial.blocks + 1,
                    partial.right /\ partial.blocks = client[c].offset)
          /\ UNCHANGED trouble
       \/ partial' = Partial(partial.blocks + 1, FALSE) /\ Trouble
    /\ client' = [client EXCEPT ![c].offset = @ + 1]
    /\ UNCHANGED <<manifest, archive, holder, said>>

(* The connection breaks, or the archive is longer than it should be.      *)
Break(c) ==
    /\ Streams(c)
    /\ Trouble
    /\ NextAttempt(c)
    /\ UNCHANGED cache

Matches(c) == partial.right /\ partial.blocks = Size

(* The whole partial file is hashed, promoted or put aside.                *)
Promote(c) ==
    /\ In(c, "stream") /\ client[c].offset = Size
    /\ partial' = NoPartial
    /\ IF Matches(c)
       THEN /\ archive' = IF partial.right /\ partial.blocks = Size
                          THEN "right" ELSE "wrong"
            /\ Enters(c, "check") /\ UNCHANGED <<said, holder>>
       ELSE NextAttempt(c) /\ UNCHANGED archive
    /\ UNCHANGED <<manifest, trouble>>

(* Everything in the directory is verified once more, member by member.    *)
Check(c) ==
    /\ In(c, "check")
    /\ Leaves(c, IF manifest = "whole" /\ archive = "right"
                 THEN "complete" ELSE "failed")
    /\ UNCHANGED <<cache, trouble>>

----------------------------------------------------------------------------
KillClient(c) ==
    /\ ~In(c, "out")
    /\ Trouble
    /\ client' = [client EXCEPT ![c] = Out]
    /\ holder' = IF holder = c THEN Nobody ELSE holder
    /\ UNCHANGED <<cache, said>>

Rot ==
    /\ Trouble
    /\ \/ archive = "right" /\ archive' = "wrong" /\ UNCHANGED partial
       \/ partial.blocks > 0 /\ partial' = [partial EXCEPT !.right = FALSE]
          /\ UNCHANGED archive
    /\ UNCHANGED <<manifest, client, holder, said>>

Fetches(c) ==
    \/ StartDownload(c) \/ ListAssets(c) \/ LockCache(c)
    \/ CachedManifest(c) \/ OpenManifest(c)
    \/ WriteManifest(c) \/ LookAtArchive(c) \/ PromotePartial(c)
    \/ SendRange(c) \/ SendAll(c) \/ Receive(c) \/ Promote(c) \/ Check(c)

DownloadNext ==
    \/ \E c \in Clients :
          \/ Fetches(c)
          \/ AssetsUnavailable(c) \/ ManifestFails(c)
          \/ Refused(c) \/ Break(c) \/ KillClient(c)
    \/ Rot

=============================================================================
