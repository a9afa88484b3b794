--------------------------- MODULE RemoteTransport ---------------------------
(***************************************************************************)
(* The way of one sealed packet to a worker's machine and back: the step   *)
(* that RemoteBatch calls Receive.  The coordinator sends the manifest and *)
(* the references, asks for the rendering over ssh and fetches the output, *)
(* each with checked(): a lost connection, and a renderer that is already  *)
(* at work, are tried again.  A lost connection does not end what runs on  *)
(* the other machine, so renderers may be left over from earlier tries.    *)
(*                                                                         *)
(* A picture is the number of the rendering that made it, so two           *)
(* renderings differ; Torn is a file that has arrived in part (rsync       *)
(* --partial leaves it under its name).                                    *)
(***************************************************************************)
EXTENDS Integers

CONSTANTS
    Items,       \* the jobs of the packet
    Renderers,   \* processes on the worker's machine, one per ssh command
    MaxRetries,  \* 30 in the code
    MaxFaults,   \* bound: lost connections, dead and failing processes
    None

ASSUME TransportConstants ==
    /\ None \notin Items \cup Renderers
    /\ MaxRetries \in Nat /\ MaxFaults \in Nat

VARIABLES
    coord,     \* the coordinator: [at, tries, session]
    stop,      \* REMOTE_STOP exists
    far,       \* far[f]: the packet on the worker's machine
    renderer,  \* renderer[r]: [at, done, item, number]
    held,      \* the renderer that has worker.lock, or None
    out,       \* output/: [image, told, results]
    back,      \* returned/: the same, here
    imported,  \* the pictures import_results() took over, or None
    rendered,  \* renderings so far
    faults

vars == <<coord, stop, far, renderer, held, out, back, imported, rendered,
          faults>>
machine == <<renderer, held, out, rendered>>

Torn == -1
Packet == {"manifest", "references"}

NoFiles == [image |-> [i \in Items |-> 0], told |-> [i \in Items |-> 0],
            results |-> None]
Off == [at |-> "off", done |-> {}, item |-> None, number |-> 0]
Waiting == [at |-> "idle", tries |-> 0, session |-> None]

Init ==
    /\ coord = Waiting
    /\ stop = FALSE
    /\ far = [f \in Packet |-> 0]
    /\ renderer = [r \in Renderers |-> Off]
    /\ held = None
    /\ out = NoFiles
    /\ back = NoFiles
    /\ imported = None
    /\ rendered = 0
    /\ faults = 0

Fault == faults < MaxFaults /\ faults' = faults + 1

----------------------------------------------------------------------------
(* checked(): the stop file ends a command before each try and while it    *)
(* waits for the next one; only a transport loss and the renderer's "lock  *)
(* is busy" are tried again, a bounded number of times per command.        *)

Commands == {"manifest", "references", "render", "fetch"}
Tries == coord.at \in Commands /\ coord.session = None /\ ~stop

Follows(at) == [at |-> at, tries |-> 0, session |-> None]

Again ==
    IF coord.tries < MaxRetries
    THEN [at |-> coord.at, tries |-> coord.tries + 1, session |-> None]
    ELSE Follows("attention")

StopSeen ==
    /\ stop
    /\ coord.at \in Commands \cup {"idle"}
    /\ coord.session = None
    /\ coord' = Follows("stopped")
    /\ UNCHANGED <<stop, far, back, imported, machine, faults>>

(* coordinate() returns to the packet that is reserved.                    *)
Begin ==
    /\ coord.at = "idle" /\ ~stop /\ imported = None
    /\ coord' = Follows("manifest")
    /\ UNCHANGED <<stop, far, back, imported, machine, faults>>

AfterSending(f) == IF f = "manifest" THEN "references" ELSE "render"

Send(f) ==
    /\ Tries /\ coord.at = f
    /\ far' = [far EXCEPT ![f] = 1]
    /\ coord' = Follows(AfterSending(f))
    /\ UNCHANGED <<stop, back, imported, machine, faults>>

(* What is there whole is not sent a second time.                          *)
SendingLost(f) ==
    /\ Tries /\ coord.at = f
    /\ Fault
    /\ far' = [far EXCEPT ![f] = IF @ = 1 THEN 1 ELSE Torn]
    /\ coord' = Again
    /\ UNCHANGED <<stop, back, imported, machine>>

(* The command reaches the machine; its process has still to take the      *)
(* lock.  The connection may already be gone by then.                      *)
Ask(r) ==
    /\ Tries /\ coord.at = "render"
    /\ renderer[r].at = "off"
    /\ renderer' = [renderer EXCEPT ![r] = [Off EXCEPT !.at = "started"]]
    /\ coord' = [coord EXCEPT !.session = r]
    /\ UNCHANGED <<stop, far, back, imported, held, out, rendered, faults>>

SessionLost ==
    /\ coord.session # None
    /\ Fault
    /\ coord' = Again
    /\ UNCHANGED <<stop, far, back, imported, machine>>

Fetch ==
    /\ Tries /\ coord.at = "fetch"
    /\ back' = out
    /\ coord' = Follows("import")
    /\ UNCHANGED <<stop, far, imported, machine, faults>>

(* Some files are there, one of them in part.                              *)
Arrived(S, T) ==
    [i \in Items |-> IF i \in T THEN Torn
                     ELSE IF i \in S THEN out.image[i] ELSE back.image[i]]

FetchLost ==
    /\ Tries /\ coord.at = "fetch"
    /\ Fault
    /\ \E S \in SUBSET Items : \E T \in {{}} \cup {{i} : i \in Items \ S} :
          back' = [image |-> Arrived(S, T),
                   told |-> [i \in Items |->
                       IF i \in S THEN out.told[i] ELSE back.told[i]],
                   results |-> back.results]
    /\ coord' = Again
    /\ UNCHANGED <<stop, far, imported, machine>>

(* inspect_results(): the results list every job, and the bytes are those  *)
(* that they list.                                                         *)
Complete(files) ==
    files.results # None /\ \A i \in Items : files.image[i] = files.results[i]

Import ==
    /\ coord.at = "import"
    /\ IF Complete(back)
       THEN imported' = back.image /\ coord' = Waiting
       ELSE coord' = Follows("attention") /\ UNCHANGED imported
    /\ UNCHANGED <<stop, far, back, machine, faults>>

CoordinatorDies ==
    /\ coord.at \notin {"idle", "stopped", "attention"}
    /\ Fault
    /\ coord' = Waiting
    /\ UNCHANGED <<stop, far, back, imported, machine>>

PutStop ==
    /\ ~stop /\ stop' = TRUE
    /\ UNCHANGED <<coord, far, back, imported, machine, faults>>

(* People look at it, take the stop file away and start it again.          *)
StartAgain ==
    /\ coord.at \in {"stopped", "attention"}
    /\ Fault
    /\ stop' = FALSE
    /\ coord' = Waiting
    /\ UNCHANGED <<far, back, imported, machine>>

----------------------------------------------------------------------------
(* render() on the worker's machine.                                       *)

Moves(r, state) == renderer' = [renderer EXCEPT ![r] = state]

(* What the coordinator hears when the process of its session ends.        *)
\* Mutant: the coordinator misses the end of a session that brought no results.
HeardOnlyResults(r, next) ==
    coord' = IF coord.session = r /\ next.at = "fetch" THEN next ELSE coord

Heard(r, next) ==
    coord' = IF coord.session = r THEN next ELSE coord

Leaves(r) ==
    /\ Moves(r, Off)
    /\ held' = IF held = r THEN None ELSE held

(* worker.lock, and the manifest as it was sealed.                         *)
Enter(r) ==
    /\ renderer[r].at = "started"
    /\ held = None /\ far["manifest"] = 1
    /\ held' = r
    /\ Moves(r, [renderer[r] EXCEPT !.at = "next"])
    /\ UNCHANGED <<coord, stop, far, back, imported, out, rendered, faults>>

(* Exit 73.                                                                *)
LockBusy(r) ==
    /\ renderer[r].at = "started"
    /\ held # None
    /\ Leaves(r) /\ Heard(r, Again)
    /\ UNCHANGED <<stop, far, back, imported, out, rendered, faults>>

(* An existing picture is kept, when its metadata describes it.            *)
Keep(r, i) ==
    /\ renderer[r].at = "next"
    /\ i \notin renderer[r].done
    /\ out.image[i] # 0 /\ out.told[i] = out.image[i]
    /\ Moves(r, [renderer[r] EXCEPT !.done = renderer[r].done \cup {i}])
    /\ UNCHANGED <<coord, stop, far, back, imported, held, out, rendered,
                   faults>>

\* Mutant: an existing picture is rendered again.
RenderAgain(r, i) ==
    /\ renderer[r].at = "next"
    /\ i \notin renderer[r].done
    /\ far["references"] = 1
    /\ rendered' = rendered + 1
    /\ out' = [out EXCEPT !.told[i] = rendered + 1]
    /\ Moves(r, [at |-> "publish", done |-> renderer[r].done, item |-> i,
                 number |-> rendered + 1])
    /\ UNCHANGED <<coord, stop, far, back, imported, held, faults>>

(* The renderer writes what it made under another name, then its metadata, *)
Describe(r, i) ==
    /\ renderer[r].at = "next"
    /\ i \notin renderer[r].done
    /\ out.image[i] = 0 /\ far["references"] = 1
    /\ rendered' = rendered + 1
    /\ out' = [out EXCEPT !.told[i] = rendered + 1]
    /\ Moves(r, [at |-> "publish", done |-> renderer[r].done, item |-> i,
                 number |-> rendered + 1])
    /\ UNCHANGED <<coord, stop, far, back, imported, held, faults>>

(* and then gives it its name.                                             *)
Publish(r) ==
    /\ renderer[r].at = "publish"
    /\ out' = [out EXCEPT !.image[renderer[r].item] = renderer[r].number]
    /\ Moves(r, [at |-> "next", done |-> renderer[r].done \cup {renderer[r].item},
                 item |-> None, number |-> 0])
    /\ UNCHANGED <<coord, stop, far, back, imported, held, rendered, faults>>

Results(r) ==
    /\ renderer[r].at = "next"
    /\ renderer[r].done = Items
    /\ out' = [out EXCEPT !.results = out.told]
    /\ Leaves(r) /\ Heard(r, Follows("fetch"))
    /\ UNCHANGED <<stop, far, back, imported, rendered, faults>>

(* A packet, a picture or the model is not as it should be, or the machine *)
(* cannot: a fatal exit.                                                   *)
Fatal(r) == Follows("attention")

RendererFails(r) ==
    /\ renderer[r].at \in {"started", "next"}
    /\ \/ Fault
       \/ /\ renderer[r].at = "started" => held = None /\ far["manifest"] # 1
          /\ renderer[r].at = "next" =>
                \E i \in Items \ renderer[r].done :
                    \/ out.image[i] # 0 /\ out.told[i] # out.image[i]
                    \/ far["references"] # 1
          /\ UNCHANGED faults
    /\ Leaves(r) /\ Heard(r, Fatal(r))
    /\ UNCHANGED <<stop, far, back, imported, out, rendered>>

(* The process or its machine ends at any point; ssh reports a loss.       *)
RendererDies(r) ==
    /\ renderer[r].at # "off"
    /\ Fault
    /\ Leaves(r) /\ Heard(r, Again)
    /\ UNCHANGED <<stop, far, back, imported, out, rendered>>

----------------------------------------------------------------------------
Coordinates ==
    \/ Begin \/ StopSeen \/ Fetch \/ Import
    \/ \E f \in Packet : Send(f)
    \/ \E r \in Renderers : Ask(r)

Renders(r) ==
    \/ Enter(r) \/ LockBusy(r) \/ Publish(r) \/ Results(r)
    \/ \E i \in Items : Keep(r, i) \/ Describe(r, i)

Losses ==
    \/ \E f \in Packet : SendingLost(f)
    \/ SessionLost \/ FetchLost \/ CoordinatorDies

Next ==
    \/ Coordinates
    \/ Losses
    \/ PutStop \/ StartAgain
    \/ \E r \in Renderers : Renders(r) \/ RendererFails(r) \/ RendererDies(r)

Spec == Init /\ [][Next]_vars

(* Both programs run on, unless they fail.                                 *)
FairSpec ==
    /\ Spec
    /\ WF_vars(Coordinates)
    /\ \A r \in Renderers : WF_vars(Renders(r)) /\ WF_vars(RendererFails(r))

----------------------------------------------------------------------------
(* Properties.                                                             *)

\* checked(): "renderer locking and per-image hashes prevent races": however
\* often the command is repeated, each picture is made once, and what is
\* imported is all of the pictures that were made.
Delivery == INSTANCE PacketDelivery WITH made <- out.image,
                                         delivered <- imported

DeliveredAsMade == Delivery!Spec

\* coordinate(): a begun packet is imported, or the coordinator stops because
\* somebody asked for it or it needs attention, or it died.
PacketEnds ==
    coord.at = "manifest"
        ~> imported # None \/ coord.at \in {"stopped", "attention", "idle"}
=============================================================================
