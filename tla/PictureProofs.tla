---------------------------- MODULE PictureProofs ----------------------------
(***************************************************************************)
(* Pictures on their way: the transport of a packet to a renderer and      *)
(* back, what people say of pictures, and the earlier generators.          *)
(*                                                                         *)
(* For any number of pictures, renderers, retries and losses: the packet's *)
(* way there and back implements PacketDelivery.                           *)
(*                                                                         *)
(* The argument: the renderer with the lock is alone (Alone), so the       *)
(* picture it is about to publish is not there and is the one its metadata *)
(* tells of (InHand); what a renderer has done is there (InHand), so the   *)
(* results list every picture for good (Listed); and what was fetched with *)
(* the results are these very results (Fetched).                           *)
(*                                                                         *)
(* For any numbers of pictures, decisions, revisions of the source and     *)
(* deaths: corrections keep their budget, what is accepted was seen, and   *)
(* only people end their Keeps.                                            *)
(*                                                                         *)
(* The argument: a row's attempts, with those that are about to be         *)
(* entered, are accounted for by the pictures made and by deaths (Counted),*)
(* so the next attempt always has a number.  Whoever works finds the row   *)
(* as it left it: generator and reviewer divide it by its state            *)
(* (MakerFits, CriticFits), and applying scripts shut out both             *)
(* (ClerkAlone, ClerkFits, FiledFits).  Every receipt in a row or a plan   *)
(* is of a Keep that was recorded and of the picture it names (Witnessed,  *)
(* KeepsKnown).  Corrected files lie in the ticket's budget (WithinRoom).  *)
(*                                                                         *)
(* For any number of jobs, renderings, edits and failures, and for any     *)
(* generators that may meet in a directory: records tell of the pictures   *)
(* that are there, one directory answers one request, and what is listed   *)
(* as imported is shown.                                                   *)
(*                                                                         *)
(* The argument: a generator that does not overwrite saves a picture only  *)
(* where there was none, so nobody has recorded that job or is about to    *)
(* (RecordFits): links because they never replace, the one without links   *)
(* because its jobs are its own and were open (Fresh).  One request per    *)
(* directory follows from the descriptor, which is never written twice     *)
(* (PinnedFits), or from a scan under a lock that lasts until the record   *)
(* (ScanFits, Locked).                                                     *)
(***************************************************************************)
EXTENDS RemoteTransport, HumanFeedback, GenerationRun, FiniteSetTheorems, TLAPS

Files == [image : [Items -> Int], told : [Items -> Int],
          results : [Items -> Int] \cup {None}]
Processes == [at : {"off", "started", "next", "publish"}, done : SUBSET Items,
              item : Items \cup {None}, number : Nat]
Coordinators == [at : Commands \cup {"idle", "import", "stopped", "attention"},
                 tries : Nat, session : Renderers \cup {None}]

TypeOK ==
    /\ coord \in Coordinators
    /\ renderer \in [Renderers -> Processes]
    /\ out \in Files /\ back \in Files
    /\ rendered \in Nat

Alone == \A r \in Renderers : renderer[r].at \in {"next", "publish"} => held = r

\* One packet is under way at a time, and a session belongs to it.
UnderWay ==
    /\ coord.at \in Commands \cup {"import"} => imported = None
    /\ coord.session # None => coord.at = "render"

InHand ==
    \A r \in Renderers :
        /\ renderer[r].at = "started" => renderer[r].done = {}
        /\ renderer[r].at \in {"next", "publish"} =>
              \A i \in renderer[r].done : out.image[i] # 0
        /\ renderer[r].at = "publish" =>
              /\ renderer[r].item \in Items /\ renderer[r].number # 0
              /\ out.image[renderer[r].item] = 0
              /\ out.told[renderer[r].item] = renderer[r].number

Listed ==
    /\ \A i \in Items : out.image[i] # 0 => out.told[i] = out.image[i]
    /\ out.results # None => \A i \in Items :
          out.results[i] = out.image[i] /\ out.image[i] # 0

Fetched == back.results # None => out.results = back.results

IInv == TypeOK /\ Alone /\ UnderWay /\ InHand /\ Listed /\ Fetched

-----------------------------------------------------------------------------
(* Records.                                                                *)

LEMMA FollowsIs ==
  ASSUME NEW at \in Commands \cup {"idle", "import", "stopped", "attention"}
  PROVE  /\ Follows(at) \in Coordinators
         /\ Follows(at).at = at /\ Follows(at).session = None
  BY DEF Follows, Coordinators

LEMMA WaitingIs == Waiting \in Coordinators /\ Waiting.at = "idle" /\ Waiting.session = None
  BY DEF Waiting, Coordinators

LEMMA AgainIs ==
  ASSUME TypeOK
  PROVE  /\ Again \in Coordinators /\ Again.session = None
         /\ Again.at \in {coord.at, "attention"}
  <1>1. CASE coord.tries < MaxRetries
    <2> DEFINE old == coord
               new == [at |-> old.at, tries |-> old.tries + 1, session |-> None]
    <2>1. Again = new /\ old \in Coordinators
      BY <1>1 DEF Again, TypeOK
    <2> HIDE DEF old
    <2>2. new \in Coordinators /\ new.session = None /\ new.at = old.at
      BY <2>1 DEF Coordinators
    <2> QED
      BY <2>1, <2>2 DEF old
  <1>2. CASE ~(coord.tries < MaxRetries)
    BY <1>2, FollowsIs DEF Again
  <1> QED
    BY <1>1, <1>2

LEMMA OffIs == Off \in Processes /\ Off.at = "off" /\ Off.done = {}
  BY DEF Off, Processes

\* A renderer moves and the others do not.
LEMMA Moved ==
  ASSUME TypeOK, NEW r \in Renderers, NEW state \in Processes, Moves(r, state)
  PROVE  /\ renderer' \in [Renderers -> Processes] /\ renderer'[r] = state
         /\ \A q \in Renderers : q # r => renderer'[q] = renderer[q]
  BY DEF TypeOK, Moves

\* What the coordinator hears of a renderer's end leaves the packet under way.
LEMMA HeardIs ==
  ASSUME TypeOK, UnderWay, NEW r \in Renderers, NEW next \in Coordinators, Heard(r, next),
         next.session = None, next.at \in {coord.at, "attention", "fetch"},
         UNCHANGED imported
  PROVE  coord' \in Coordinators /\ UnderWay'
  <1>1. r # None
    BY TransportConstants
  <1>2. CASE coord.session = r
    BY <1>1, <1>2 DEF Heard, UnderWay, Commands
  <1>3. CASE coord.session # r
    BY <1>3 DEF Heard, UnderWay, TypeOK
  <1> QED
    BY <1>2, <1>3

LEMMA InitIInv == Init => IInv
  <1> SUFFICES ASSUME Init PROVE IInv
    OBVIOUS
  <1>1. /\ NoFiles \in Files /\ NoFiles.results = None
        /\ \A i \in Items : NoFiles.image[i] = 0
    BY DEF NoFiles, Files
  <1> HIDE DEF NoFiles
  <1> QED
    BY <1>1, WaitingIs, OffIs DEF Init, IInv, TypeOK, Alone, UnderWay, InHand,
                                  Listed, Fetched

-----------------------------------------------------------------------------
(* Steps that touch no renderer and nothing of its output.                 *)

LEMMA CoordinatorOnly ==
  ASSUME IInv, UNCHANGED machine, coord' \in Coordinators, UnderWay',
         back' \in Files, Fetched'
  PROVE  IInv'
  BY DEF IInv, TypeOK, Alone, InHand, Listed, machine

LEMMA CoordinatorIInv ==
  ASSUME IInv,
         \/ StopSeen \/ Begin \/ SessionLost \/ Import \/ CoordinatorDies
         \/ PutStop \/ StartAgain
         \/ \E f \in Packet : Send(f) \/ SendingLost(f)
  PROVE  IInv'
  <1>1. UNCHANGED machine /\ UNCHANGED back /\ TypeOK /\ UnderWay /\ Fetched
    BY DEF IInv, StopSeen, Begin, SessionLost, Import, CoordinatorDies, PutStop,
           StartAgain, Send, SendingLost
  <1>2. back' \in Files /\ Fetched'
    BY <1>1 DEF TypeOK, Fetched, machine
  <1>3. coord' \in Coordinators /\ UnderWay'
    <2>1. CASE PutStop
      BY <1>1, <2>1 DEF PutStop, TypeOK, UnderWay
    <2>2. CASE StopSeen \/ CoordinatorDies \/ StartAgain
      BY <1>1, <2>2, FollowsIs, WaitingIs
         DEF StopSeen, CoordinatorDies, StartAgain, UnderWay, Commands
    <2>3. CASE Begin
      BY <1>1, <2>3, FollowsIs DEF Begin, UnderWay, Commands
    <2>4. CASE SessionLost
      BY <1>1, <2>4, AgainIs DEF SessionLost, UnderWay, Commands
    <2>5. CASE Import
      BY <1>1, <2>5, FollowsIs, WaitingIs DEF Import, UnderWay, Commands
    <2>6. ASSUME NEW f \in Packet, Send(f) PROVE coord' \in Coordinators /\ UnderWay'
      <3>1. AfterSending(f) \in Commands /\ coord.at \in Commands
        BY <2>6 DEF AfterSending, Commands, Packet, Send
      <3> QED
        BY <1>1, <2>6, <3>1, FollowsIs DEF Send, UnderWay, Commands
    <2>7. ASSUME NEW f \in Packet, SendingLost(f)
          PROVE  coord' \in Coordinators /\ UnderWay'
      BY <1>1, <2>7, AgainIs DEF SendingLost, UnderWay, Commands, Tries
    <2> QED
      BY <2>1, <2>2, <2>3, <2>4, <2>5, <2>6, <2>7
  <1> QED
    BY <1>1, <1>2, <1>3, CoordinatorOnly

LEMMA FetchIInv == ASSUME IInv, Fetch \/ FetchLost PROVE IInv'
  <1>1. /\ UNCHANGED machine /\ UNCHANGED imported /\ TypeOK /\ UnderWay /\ Fetched
        /\ coord.at = "fetch" /\ UNCHANGED out
    BY DEF IInv, Fetch, FetchLost, machine
  <1>2. CASE Fetch
    <2>1. coord' = Follows("import") /\ back' = out
      BY <1>2 DEF Fetch
    <2>2. coord' \in Coordinators /\ UnderWay'
      BY <1>1, <2>1, FollowsIs DEF UnderWay, Commands
    <2>3. back' \in Files /\ Fetched'
      BY <1>1, <2>1 DEF TypeOK, Fetched
    <2> QED
      BY <1>1, <2>2, <2>3, CoordinatorOnly
  <1>3. CASE FetchLost
    <2>1. coord' = Again
      BY <1>3 DEF FetchLost
    <2>2. coord' \in Coordinators /\ UnderWay'
      BY <1>1, <2>1, AgainIs DEF UnderWay, Commands
    <2>3. PICK S \in SUBSET Items, T \in SUBSET Items :
            back' = [image |-> Arrived(S, T),
                     told |-> [i \in Items |->
                         IF i \in S THEN out.told[i] ELSE back.told[i]],
                     results |-> back.results]
      BY <1>3 DEF FetchLost
    <2> DEFINE old == back
               came == [i \in Items |-> IF i \in S THEN out.told[i] ELSE back.told[i]]
    <2>4. Arrived(S, T) \in [Items -> Int] /\ came \in [Items -> Int]
      BY <1>1 DEF Arrived, TypeOK, Files, Torn
    <2>5. back' = [image |-> Arrived(S, T), told |-> came, results |-> old.results]
      BY <2>3
    <2>6. old \in Files
      BY <1>1 DEF TypeOK
    <2> HIDE DEF came, old
    <2>7. back' \in Files /\ back'.results = old.results
      BY <2>4, <2>5, <2>6 DEF Files
    <2>8. Fetched'
      BY <1>1, <2>7 DEF Fetched, old
    <2> QED
      BY <1>1, <2>2, <2>7, <2>8, CoordinatorOnly
  <1> QED
    BY <1>2, <1>3

-----------------------------------------------------------------------------
(* Renderers.                                                              *)

\* A renderer that leaves, for whatever reason, takes its lock along.
LEMMA LeavesIInv ==
  ASSUME IInv, NEW r \in Renderers, Leaves(r), coord' \in Coordinators, UnderWay',
         UNCHANGED <<back, rendered>>, out' \in Files,
         out'.image = out.image, out'.told = out.told, Listed', Fetched'
  PROVE  IInv'
  <1>1. TypeOK /\ Moves(r, Off)
    BY DEF IInv, Leaves
  <1>2. /\ renderer' \in [Renderers -> Processes] /\ renderer'[r] = Off
        /\ \A q \in Renderers : q # r => renderer'[q] = renderer[q]
    BY <1>1, OffIs, Moved
  <1>3. TypeOK'
    BY <1>1, <1>2 DEF TypeOK
  <1>4. Alone'
    BY <1>2, OffIs DEF IInv, Alone, Leaves
  <1>5. InHand'
    BY <1>2, OffIs DEF IInv, InHand
  <1> QED
    BY <1>3, <1>4, <1>5 DEF IInv

LEMMA LeavingIInv ==
  ASSUME IInv, NEW r \in Renderers, LockBusy(r) \/ RendererFails(r) \/ RendererDies(r)
  PROVE  IInv'
  <1>1. /\ TypeOK /\ UnderWay /\ Listed /\ Fetched /\ Leaves(r)
        /\ UNCHANGED <<back, rendered, out, imported>>
    BY DEF IInv, LockBusy, RendererFails, RendererDies
  <1>2. coord' \in Coordinators /\ UnderWay'
    <2>1. CASE Heard(r, Again)
      BY <1>1, <2>1, AgainIs, HeardIs
    <2>2. CASE Heard(r, Fatal(r))
      BY <1>1, <2>2, FollowsIs, HeardIs DEF Fatal
    <2> QED
      BY <2>1, <2>2 DEF LockBusy, RendererFails, RendererDies
  <1>3. Listed' /\ Fetched' /\ out' \in Files
    BY <1>1 DEF Listed, Fetched, TypeOK
  <1> QED
    BY <1>1, <1>2, <1>3, LeavesIInv

\* The results list every picture, for good.
LEMMA ResultsIInv == ASSUME IInv, NEW r \in Renderers, Results(r) PROVE IInv'
  <1>1. /\ TypeOK /\ UnderWay /\ Listed /\ Fetched /\ Leaves(r)
        /\ UNCHANGED <<back, rendered, imported>> /\ Heard(r, Follows("fetch"))
        /\ out' = [out EXCEPT !.results = out.told]
        /\ \A i \in Items : out.image[i] # 0
    BY DEF IInv, Results, InHand
  <1>2. coord' \in Coordinators /\ UnderWay'
    BY <1>1, FollowsIs, HeardIs DEF Commands
  <1>3. /\ out' \in Files /\ out'.image = out.image /\ out'.told = out.told
        /\ out'.results = out.told
    BY <1>1 DEF TypeOK, Files
  <1>4. \A i \in Items : out.told[i] = out.image[i]
    BY <1>1 DEF Listed
  <1>5. Listed'
    BY <1>1, <1>3, <1>4 DEF Listed
  <1>6. Fetched'
    <2> SUFFICES ASSUME back.results # None PROVE out.told = back.results
      BY <1>1, <1>3 DEF Fetched
    <2>1. out.results = back.results /\ out.results \in [Items -> Int]
      BY <1>1 DEF Fetched, TypeOK, Files
    <2>2. \A i \in Items : out.results[i] = out.told[i]
      BY <1>1, <1>4, <2>1 DEF Listed
    <2>3. out.told \in [Items -> Int]
      BY <1>1 DEF TypeOK, Files
    <2> QED
      BY <2>1, <2>2, <2>3
  <1> QED
    BY <1>1, <1>2, <1>3, <1>5, <1>6, LeavesIInv

\* A command's process starts, takes the lock, or keeps what is there.
LEMMA KeepingIInv ==
  ASSUME IInv, NEW r \in Renderers, Ask(r) \/ Enter(r) \/ \E i \in Items : Keep(r, i)
  PROVE  IInv'
  <1> DEFINE old == renderer[r]
  <1>1. /\ TypeOK /\ UnderWay /\ Alone /\ InHand /\ Listed /\ Fetched
        /\ UNCHANGED <<back, rendered, out, imported>> /\ old \in Processes
    BY DEF IInv, Ask, Enter, Keep, TypeOK
  <1>2. Listed' /\ Fetched' /\ out' \in Files
    BY <1>1 DEF Listed, Fetched, TypeOK
  <1>3. CASE Ask(r)
    <2> DEFINE new == [Off EXCEPT !.at = "started"]
    <2>1. Moves(r, new) /\ UNCHANGED held /\ old.at = "off"
      BY <1>3 DEF Ask, Moves
    <2>2. new \in Processes /\ new.at = "started" /\ new.done = {}
      BY OffIs DEF Processes
    <2> HIDE DEF new
    <2>3. /\ renderer' \in [Renderers -> Processes] /\ renderer'[r] = new
          /\ \A q \in Renderers : q # r => renderer'[q] = renderer[q]
      BY <1>1, <2>1, <2>2, Moved
    <2>4. coord' \in Coordinators /\ UnderWay'
      <3>1. coord' = [coord EXCEPT !.session = r] /\ coord.at = "render"
        BY <1>3 DEF Ask
      <3> QED
        BY <1>1, <3>1 DEF TypeOK, Coordinators, UnderWay, Commands
    <2> QED
      BY <1>1, <1>2, <2>1, <2>2, <2>3, <2>4 DEF IInv, TypeOK, Alone, InHand
  <1>4. CASE Enter(r)
    <2> DEFINE new == [old EXCEPT !.at = "next"]
    <2>1. /\ Moves(r, new) /\ held' = r /\ held = None /\ UNCHANGED coord
          /\ old.at = "started" /\ old.done = {}
      BY <1>1, <1>4 DEF Enter, InHand
    <2> HIDE DEF old
    <2>2. new \in Processes /\ new.at = "next" /\ new.done = old.done
      BY <1>1 DEF Processes
    <2> HIDE DEF new
    <2>3. /\ renderer' \in [Renderers -> Processes] /\ renderer'[r] = new
          /\ \A q \in Renderers : q # r => renderer'[q] = renderer[q]
      BY <1>1, <2>1, <2>2, Moved
    <2>4. \A q \in Renderers : renderer[q].at \notin {"next", "publish"}
      BY <1>1, <2>1, TransportConstants DEF Alone
    <2>5. coord' \in Coordinators /\ UnderWay'
      BY <1>1, <2>1 DEF TypeOK, UnderWay
    <2> QED
      BY <1>1, <1>2, <2>1, <2>2, <2>3, <2>4, <2>5 DEF IInv, TypeOK, Alone, InHand
  <1>5. ASSUME NEW i \in Items, Keep(r, i) PROVE IInv'
    <2> DEFINE new == [old EXCEPT !.done = old.done \cup {i}]
    <2>1. /\ Moves(r, new) /\ UNCHANGED <<held, coord>> /\ out.image[i] # 0
          /\ old.at = "next"
      BY <1>5 DEF Keep
    <2>2. held = r /\ \A j \in old.done : out.image[j] # 0
      BY <1>1, <2>1 DEF Alone, InHand
    <2> HIDE DEF old
    <2>3. new \in Processes /\ new.at = "next" /\ new.done = old.done \cup {i}
      BY <1>1, <2>1 DEF Processes
    <2> HIDE DEF new
    <2>4. /\ renderer' \in [Renderers -> Processes] /\ renderer'[r] = new
          /\ \A q \in Renderers : q # r => renderer'[q] = renderer[q]
      BY <1>1, <2>1, <2>3, Moved
    <2>5. coord' \in Coordinators /\ UnderWay'
      BY <1>1, <2>1 DEF TypeOK, UnderWay
    <2> QED
      BY <1>1, <1>2, <2>1, <2>2, <2>3, <2>4, <2>5 DEF IInv, TypeOK, Alone, InHand
  <1> QED
    BY <1>3, <1>4, <1>5

\* The metadata are written first.
LEMMA DescribeIInv ==
  ASSUME IInv, NEW r \in Renderers, NEW i \in Items, Describe(r, i)
  PROVE  IInv'
  <1> DEFINE old == renderer[r]
             new == [at |-> "publish", done |-> old.done, item |-> i,
                     number |-> rendered + 1]
  <1>1. /\ TypeOK /\ UnderWay /\ Alone /\ InHand /\ Listed /\ Fetched
        /\ UNCHANGED <<back, imported, held, coord>> /\ old \in Processes
        /\ old.at = "next" /\ out.image[i] = 0 /\ rendered' = rendered + 1
        /\ rendered \in Nat
        /\ out' = [out EXCEPT !.told[i] = rendered + 1] /\ Moves(r, new)
    BY DEF IInv, Describe, TypeOK
  <1>2. held = r /\ \A j \in old.done : out.image[j] # 0
    BY <1>1 DEF Alone, InHand
  <1> HIDE DEF old
  <1>3. /\ new \in Processes /\ new.at = "publish" /\ new.item = i
        /\ new.number = rendered + 1 /\ new.done = old.done
    BY <1>1 DEF Processes
  <1> HIDE DEF new
  <1>4. /\ renderer' \in [Renderers -> Processes] /\ renderer'[r] = new
        /\ \A q \in Renderers : q # r => renderer'[q] = renderer[q]
    BY <1>1, <1>3, Moved
  <1>5. /\ out' \in Files /\ out'.image = out.image /\ out'.results = out.results
        /\ out'.told[i] = rendered + 1
        /\ \A j \in Items : j # i => out'.told[j] = out.told[j]
    BY <1>1 DEF TypeOK, Files
  <1>6. TypeOK'
    BY <1>1, <1>4, <1>5 DEF TypeOK
  <1>7. Alone' /\ UnderWay'
    BY <1>1, <1>2, <1>3, <1>4 DEF Alone, UnderWay
  <1>8. \A q \in Renderers : q # r => renderer[q].at \notin {"next", "publish"}
    BY <1>1, <1>2 DEF Alone
  <1>9. InHand'
    <2>1. rendered + 1 # 0
      BY <1>1
    <2> QED
      BY <1>1, <1>2, <1>3, <1>4, <1>5, <1>8, <2>1 DEF InHand
  <1>10. Listed' /\ Fetched'
    BY <1>1, <1>5 DEF Listed, Fetched
  <1> QED
    BY <1>6, <1>7, <1>9, <1>10 DEF IInv

\* And then the picture gets its name, which was free.
LEMMA PublishIInv ==
  ASSUME IInv, NEW r \in Renderers, Publish(r)
  PROVE  /\ IInv' /\ UNCHANGED imported
         /\ \E i \in Items : /\ out.image[i] = 0 /\ out'.image[i] \in Nat \ {0}
                            /\ out'.image = [out.image EXCEPT ![i] = out'.image[i]]
  <1> DEFINE old == renderer[r]
             i == old.item
             new == [at |-> "next", done |-> old.done \cup {i}, item |-> None,
                     number |-> 0]
  <1>1. /\ TypeOK /\ UnderWay /\ Alone /\ InHand /\ Listed /\ Fetched
        /\ UNCHANGED <<back, imported, held, coord, rendered>> /\ old \in Processes
        /\ old.at = "publish" /\ Moves(r, new)
        /\ out' = [out EXCEPT !.image[i] = old.number]
    BY DEF IInv, Publish, TypeOK
  <1>2. /\ held = r /\ (\A j \in old.done : out.image[j] # 0)
        /\ i \in Items /\ old.number # 0 /\ old.number \in Nat
        /\ out.image[i] = 0 /\ out.told[i] = old.number
    BY <1>1 DEF Alone, InHand, Processes
  <1>3. old.done \cup {i} \in SUBSET Items
    BY <1>1, <1>2 DEF Processes
  <1>4. i = old.item
    OBVIOUS
  <1> HIDE DEF i
  <1> HIDE DEF old
  <1>5. new \in Processes /\ new.at = "next" /\ new.done = old.done \cup {i}
    BY <1>1, <1>3 DEF Processes
  <1> HIDE DEF new
  <1>6. /\ renderer' \in [Renderers -> Processes] /\ renderer'[r] = new
        /\ \A q \in Renderers : q # r => renderer'[q] = renderer[q]
    BY <1>1, <1>5, Moved
  <1>7. /\ out' \in Files /\ out'.told = out.told /\ out'.results = out.results
        /\ out'.image = [out.image EXCEPT ![i] = old.number]
        /\ out'.image[i] = old.number
        /\ \A j \in Items : j # i => out'.image[j] = out.image[j]
    BY <1>1, <1>2 DEF TypeOK, Files
  <1>8. TypeOK'
    BY <1>1, <1>6, <1>7 DEF TypeOK
  <1>9. Alone' /\ UnderWay'
    BY <1>1, <1>2, <1>5, <1>6 DEF Alone, UnderWay
  <1>10. \A q \in Renderers : q # r => renderer[q].at \notin {"next", "publish"}
    BY <1>1, <1>2 DEF Alone
  <1>11. InHand'
    BY <1>1, <1>2, <1>3, <1>5, <1>6, <1>7, <1>10 DEF InHand
  <1>12. Listed'
    BY <1>1, <1>2, <1>7 DEF Listed
  <1>13. Fetched'
    BY <1>1, <1>7 DEF Fetched
  <1> QED
    BY <1>1, <1>2, <1>7, <1>8, <1>9, <1>11, <1>12, <1>13 DEF IInv

-----------------------------------------------------------------------------
(* The invariant is inductive.                                             *)

LEMMA RenderIInv ==
  ASSUME IInv, NEW r \in Renderers,
         Ask(r) \/ Renders(r) \/ RendererFails(r) \/ RendererDies(r)
  PROVE  IInv'
  BY LeavingIInv, ResultsIInv, KeepingIInv, DescribeIInv, PublishIInv DEF Renders

LEMMA StepIInv == ASSUME IInv, [Next]_vars PROVE IInv'
  <1>1. CASE UNCHANGED vars
    BY <1>1 DEF vars, IInv, TypeOK, Alone, UnderWay, InHand, Listed, Fetched
  <1>2. CASE Next
    BY <1>2, CoordinatorIInv, FetchIInv, RenderIInv DEF Next, Coordinates, Losses
  <1> QED
    BY <1>1, <1>2

\* The lock, the metadata and the results agree in every state (render(),
\* inspect_results()).
THEOREM Invariance == Spec => []IInv
  BY InitIInv, StepIInv, PTL DEF Spec

-----------------------------------------------------------------------------
(* The refinement.                                                         *)

\* Every step makes one picture, delivers all of them, or does neither.
LEMMA DeliveryStep ==
  ASSUME IInv, [Next]_vars
  PROVE  [Delivery!Next]_<<out.image, imported>>
  <1>1. ASSUME NEW r \in Renderers, Publish(r) PROVE Delivery!Next
    <2>1. PICK i \in Items : /\ out.image[i] = 0 /\ out'.image[i] \in Nat \ {0}
                             /\ out'.image = [out.image EXCEPT ![i] = out'.image[i]]
      BY <1>1, PublishIInv
    <2>2. UNCHANGED imported
      BY <1>1, PublishIInv
    <2>3. Delivery!Make(i)
      BY <2>1, <2>2 DEF Delivery!Make
    <2> QED
      BY <2>3 DEF Delivery!Next
  <1>2. CASE Import /\ Complete(back)
    <2>1. /\ imported = None /\ imported' = back.image /\ UNCHANGED out
          /\ back.results # None
          /\ \A i \in Items : back.image[i] = back.results[i]
      BY <1>2 DEF Import, IInv, UnderWay, Complete, machine
    <2>2. \A i \in Items : back.image[i] = out.image[i] /\ out.image[i] # 0
      BY <2>1 DEF IInv, Fetched, Listed
    <2>3. back.image \in [Items -> Int] /\ out.image \in [Items -> Int]
      BY DEF IInv, TypeOK, Files
    <2>4. back.image = out.image
      BY <2>2, <2>3
    <2>5. Delivery!Deliver
      BY <2>1, <2>2, <2>4 DEF Delivery!Deliver
    <2> QED
      BY <2>5 DEF Delivery!Next
  <1>3. CASE Import /\ ~Complete(back)
    BY <1>3 DEF Import, machine
  <1>4. ASSUME NEW r \in Renderers, NEW i \in Items, Describe(r, i)
        PROVE  UNCHANGED <<out.image, imported>>
    BY <1>4 DEF Describe, IInv, TypeOK, Files
  <1>5. ASSUME NEW r \in Renderers, Results(r)
        PROVE  UNCHANGED <<out.image, imported>>
    BY <1>5 DEF Results, IInv, TypeOK, Files
  <1>6. ASSUME NEW r \in Renderers,
               \/ Ask(r) \/ Enter(r) \/ LockBusy(r) \/ RendererFails(r) \/ RendererDies(r)
               \/ \E i \in Items : Keep(r, i)
        PROVE  UNCHANGED <<out.image, imported>>
    BY <1>6 DEF Ask, Enter, LockBusy, RendererFails, RendererDies, Keep
  <1>7. CASE \/ StopSeen \/ Begin \/ SessionLost \/ CoordinatorDies \/ Fetch \/ FetchLost
             \/ PutStop \/ StartAgain
             \/ \E f \in Packet : Send(f) \/ SendingLost(f)
    BY <1>7 DEF StopSeen, Begin, SessionLost, CoordinatorDies, Fetch, FetchLost,
                PutStop, StartAgain, Send, SendingLost, machine
  <1>8. CASE UNCHANGED vars
    BY <1>8 DEF vars
  <1> QED
    BY <1>1, <1>2, <1>3, <1>4, <1>5, <1>6, <1>7, <1>8
       DEF Next, Coordinates, Losses, Renders

\* Coordinator, renderers, partial files and losses implement the delivery of
\* pictures that are made once (checked(), render(), inspect_results()).
THEOREM TransportImplementsDelivery == Spec => DeliveredAsMade
  <1>1. Init => Delivery!Init
    BY DEF Init, NoFiles, Delivery!Init
  <1> QED
    BY <1>1, Invariance, DeliveryStep, PTL DEF Spec, DeliveredAsMade, Delivery!Spec

-----------------------------------------------------------------------------
(* What people say of pictures (HumanFeedback).                            *)

Decisions == [choice : Answers \cup {"none"}, revision : Nat]
KeepPlans == [kind : {"keep"}, row : Rows, review : Reviews]
CleanupPlans == [kind : {"cleanup"}, row : Rows, image : Pictures, review : Reviews]
CorrectPlans == [kind : {"correct"}, row : Rows, mode : Modes, direct : Decisions]
Drafts == KeepPlans \cup CleanupPlans \cup CorrectPlans
Makers ==
    {Idle} \cup [at : {"queued"}, row : Rows]
    \cup [at : {"planned", "rendering", "linked"}, row : Rows,
          told : {"before", "after"}, source : Nat]
Critics ==
    {Idle} \cup [at : {"looking"}] \cup [at : {"keeping", "inspecting"}, row : Rows]
Clerks ==
    {Idle} \cup [at : {"keep"}, plan : KeepPlans, filed : BOOLEAN]
    \cup [at : {"cleanup"}, plan : CleanupPlans, filed : BOOLEAN]
    \cup [at : {"correct"}, plan : CorrectPlans, filed : BOOLEAN]
    \cup [at : {"execute"}, plan : [kind : {"execute"}], filed : BOOLEAN]
    \cup [at : {"category"}, plan : [kind : {"category"}], filed : BOOLEAN]

RowsTyped == row \in Rows /\ ticket \in {Nothing} \cup Tickets
FilesTyped == files \in [Numbers -> {Nothing} \cup Attempts]
PeopleTyped ==
    /\ decisions \in [Pictures -> Decisions]
    /\ source \in Nat
    /\ made \in Pictures /\ deaths \in 0..MaxDeaths
ActorsTyped ==
    /\ maker \in Makers /\ critic \in Critics /\ clerk \in Clerks
    /\ draft = Nothing \/ draft \in Drafts

\* Attempts that are entered, or will be, are pictures that were made, or
\* cost a death; the one being rendered may be either.
Due ==
    (IF draft # Nothing /\ draft.kind = "cleanup" THEN 1 ELSE 0)
    + (IF clerk # Idle /\ (clerk.at = "cleanup" \/ clerk.filed) THEN 1 ELSE 0)
Counted ==
    row.attempts + Due <=
        made + deaths + (IF maker.at = "rendering" THEN 1 ELSE 0)

ClerkAlone == clerk # Idle => maker = Idle /\ critic = Idle

Entered(n) == files[n] # Nothing

MakerFits ==
    /\ maker.at \in {"queued", "planned"} =>
          /\ maker.row.attempts = row.attempts
          /\ row.state \in {"rejected", "pending", "interrupted", "accepted"}
    /\ maker.at \in {"rendering", "linked"} =>
          row.attempts = maker.row.attempts + 1 /\ row.state = "generating"
    /\ maker.at = "rendering" => ~Entered(row.attempts)
    /\ maker.at = "linked" => Entered(row.attempts)

CriticFits ==
    /\ critic.at = "looking" => row.state = "reviewing" /\ maker = Idle
    /\ critic.at = "keeping" => critic.row.state \in Held
    /\ critic.at = "inspecting" =>
          profile \in Categories /\ critic.row.state \in {"accepted", "rejected", "pending"}

\* A picture that waits for a review, or has had one, is the newest attempt.
Newest(r) == Entered(r.attempts) /\ files[r.attempts].image = r.image
RowFits ==
    /\ row.state \in {"generated", "reviewing", "accepted", "rejected"} => Newest(row)
    /\ row.state \in {"accepted", "rejected"} => row.review \in Reviews
    /\ row.state = "pending" => ticket # Nothing

Witnessed(review) ==
    review.keep # Nothing => <<review.keep.of, review.keep.revision>> \in keeps
AcceptedFits ==
    row.state = "accepted" =>
        /\ row.review.image = row.image
        /\ Witnessed(row.review)
        /\ row.review.keep # Nothing /\ row.review.keep.of # row.image =>
              files[row.attempts].told = "cleanup"

KeepsKnown ==
    \A i \in Pictures :
        decisions[i].choice = "keep" => <<i, decisions[i].revision>> \in keeps

TicketFits ==
    /\ category # Nothing => profile \in Categories
    /\ ticket # Nothing =>
          /\ profile = "other"
          /\ ticket.row.state \in {"rejected", "interrupted"}
          /\ ticket.row.state = "rejected" =>
                Newest(ticket.row) /\ ticket.row.review \in Reviews

DraftFits ==
    draft # Nothing =>
        /\ draft.kind \in {"keep", "cleanup"} =>
              draft.row.state \in Held /\ draft.review.keep.of = draft.row.image
        /\ draft.kind = "correct" => draft.row.state \in Queueable /\ profile = "other"

ClerkFits ==
    /\ clerk.at = "keep" =>
          /\ row.state \in Held
          /\ clerk.plan.review.image = row.image
          /\ clerk.plan.review.keep.of = row.image
          /\ Witnessed(clerk.plan.review)
    /\ clerk.at = "cleanup" =>
          /\ row.state \in Held
          /\ clerk.plan.review.image = clerk.plan.image
          /\ Witnessed(clerk.plan.review)
    /\ clerk.at = "correct" =>
          /\ ticket = Nothing /\ profile = "other"
          /\ row.state \in {"rejected", "interrupted"}
    /\ clerk.at = "execute" => row.state \in Held
    /\ clerk.at = "category" => profile \in Categories

FiledFits ==
    clerk # Idle /\ clerk.filed =>
        /\ Brings
        /\ Entered(row.attempts + 1)
        /\ files[row.attempts + 1].told = Told
        /\ clerk.at = "cleanup" => files[row.attempts + 1].image = clerk.plan.image

Corrected(n) == Entered(n) /\ files[n].told = "after"
Room == Baseline + 1 .. Baseline + Budget
WithinRoom ==
    /\ ticket = Nothing => \A n \in Numbers : Corrected(n) => n = row.attempts + 1
    /\ ticket # Nothing => \A n \in Numbers : Corrected(n) => n \in Room
    /\ maker.at \in {"planned", "rendering", "linked"} /\ maker.told = "after" =>
          ticket # Nothing /\ maker.row.attempts + 1 \in Room

FeedbackInv ==
    /\ RowsTyped /\ FilesTyped /\ PeopleTyped /\ ActorsTyped
    /\ Counted /\ ClerkAlone /\ MakerFits /\ CriticFits
    /\ RowFits /\ AcceptedFits /\ KeepsKnown /\ TicketFits
    /\ DraftFits /\ ClerkFits /\ FiledFits /\ WithinRoom

-----------------------------------------------------------------------------
(* The actors, by where they are.                                          *)

LEMMA Numbering ==
  /\ MaxPictures \in Nat /\ MaxPictures > 0 /\ ExtraAttempts \in Nat /\ ExtraAttempts > 0
  /\ MaxDeaths \in Nat
  /\ Pictures \subseteq Nat /\ Numbers \subseteq Nat /\ 1 \in Pictures /\ 1 \in Numbers
  /\ \A n : n \in Numbers <=> n \in Nat /\ 1 <= n /\ n <= MaxPictures + MaxDeaths + 1
  /\ \A i : i \in Pictures <=> i \in Nat /\ 1 <= i /\ i <= MaxPictures
  <1>1. /\ MaxPictures \in Nat /\ MaxPictures > 0 /\ ExtraAttempts \in Nat
        /\ ExtraAttempts > 0 /\ MaxDeaths \in Nat
    BY FeedbackBounds
  <1> QED
    BY <1>1 DEF Pictures, Numbers

LEMMA MakerIs ==
  ASSUME maker \in Makers
  PROVE  /\ maker.at \in {"idle", "queued", "planned", "rendering", "linked"}
         /\ maker = Idle <=> maker.at = "idle"
         /\ maker.at # "idle" => maker.row \in Rows
         /\ maker.at \in {"planned", "rendering", "linked"} =>
               maker \in [at : {"planned", "rendering", "linked"}, row : Rows,
                          told : {"before", "after"}, source : Nat]
  BY DEF Makers, Idle

LEMMA CriticIs ==
  ASSUME critic \in Critics
  PROVE  /\ critic.at \in {"idle", "looking", "keeping", "inspecting"}
         /\ critic = Idle <=> critic.at = "idle"
         /\ critic.at \in {"keeping", "inspecting"} => critic.row \in Rows
  BY DEF Critics, Idle

LEMMA ClerkIs ==
  ASSUME clerk \in Clerks
  PROVE  /\ clerk.at \in {"idle", "keep", "cleanup", "correct", "execute", "category"}
         /\ clerk = Idle <=> clerk.at = "idle"
         /\ clerk.at # "idle" => clerk.filed \in BOOLEAN
         /\ clerk.at = "keep" => clerk.plan \in KeepPlans
         /\ clerk.at = "cleanup" => clerk.plan \in CleanupPlans
         /\ clerk.at = "correct" => clerk.plan \in CorrectPlans
  <1>1. CASE clerk = Idle
    BY <1>1 DEF Idle
  <1>2. CASE clerk \in [at : {"keep"}, plan : KeepPlans, filed : BOOLEAN]
    BY <1>2 DEF Idle
  <1>3. CASE clerk \in [at : {"cleanup"}, plan : CleanupPlans, filed : BOOLEAN]
    BY <1>3 DEF Idle
  <1>4. CASE clerk \in [at : {"correct"}, plan : CorrectPlans, filed : BOOLEAN]
    BY <1>4 DEF Idle
  <1>5. CASE clerk \in [at : {"execute"}, plan : [kind : {"execute"}], filed : BOOLEAN]
    BY <1>5 DEF Idle
  <1>6. CASE clerk \in [at : {"category"}, plan : [kind : {"category"}], filed : BOOLEAN]
    BY <1>6 DEF Idle
  <1> QED
    BY <1>1, <1>2, <1>3, <1>4, <1>5, <1>6 DEF Clerks

LEMMA DueIs ==
  ASSUME clerk \in Clerks
  PROVE  /\ Due \in 0..2
         /\ clerk # Idle /\ (clerk.at = "cleanup" \/ clerk.filed) => Due >= 1
  BY DEF Due

\* The next attempt has a number.
LEMMA RowNumber ==
  ASSUME RowsTyped, PeopleTyped, ActorsTyped, Counted, maker.at # "rendering"
  PROVE  row.attempts \in Numbers /\ row.attempts + 1 \in Numbers
  <1>1. row.attempts \in Numbers
    BY DEF RowsTyped, Rows
  <1>2. row.attempts <= made + deaths
    BY <1>1, DueIs, Numbering DEF Counted, ActorsTyped, PeopleTyped
  <1> QED
    BY <1>1, <1>2, Numbering DEF PeopleTyped

\* A file that is entered where none was changes no other.
LEMMA FileIs ==
  ASSUME FilesTyped, NEW n \in Numbers, NEW f \in Attempts,
         files' = [files EXCEPT ![n] = f]
  PROVE  /\ FilesTyped' /\ files'[n] = f /\ f # Nothing
         /\ \A m \in Numbers : m # n => files'[m] = files[m]
         /\ files[n] = Nothing => \A m \in Numbers : Entered(m) => files'[m] = files[m]
  BY NothingIsNothingElse DEF FilesTyped, Entered

LEMMA InitFeedbackInv == ASSUME FeedbackInit PROVE FeedbackInv
  <1> DEFINE first == [image |-> 1, told |-> "before", source |-> 1]
  <1>1. /\ profile \in Categories \cup {"other"}
        /\ row.state = "rejected" /\ row.attempts = 1 /\ row.image = 1
        /\ row \in Rows /\ row.review \in Reviews
        /\ ticket = Nothing /\ category = Nothing /\ draft = Nothing
        /\ maker = Idle /\ critic = Idle /\ clerk = Idle
        /\ made = 1 /\ deaths = 0 /\ source = 1
    <2>1. PICK clear \in BOOLEAN :
              row = [state |-> "rejected", attempts |-> 1, image |-> 1,
                     asks |-> "before",
                     review |-> [image |-> 1, clear |-> clear, source |-> 1,
                                 keep |-> Nothing]]
      BY DEF FeedbackInit, Held
    <2>2. row.review \in Reviews
      BY <2>1, Numbering DEF Reviews
    <2>3. row \in Rows
      BY <2>1, <2>2, Numbering DEF Rows, States
    <2> QED
      BY <2>1, <2>2, <2>3 DEF FeedbackInit
  <1>2. files = [n \in Numbers |-> IF n = 1 THEN first ELSE Nothing]
    BY DEF FeedbackInit
  <1>3. first \in Attempts /\ first # Nothing
    BY Numbering, NothingIsNothingElse DEF Attempts
  <1>4. files[1] = first /\ \A n \in Numbers : n # 1 => files[n] = Nothing
    BY <1>2, Numbering
  <1>5. decisions = [i \in Pictures |-> [choice |-> "none", revision |-> 0]]
    BY DEF FeedbackInit
  <1>6. RowsTyped /\ FilesTyped
    BY <1>1, <1>2, <1>3 DEF RowsTyped, FilesTyped
  <1>7. PeopleTyped /\ KeepsKnown
    BY <1>1, <1>5, Numbering DEF PeopleTyped, Decisions, KeepsKnown
  <1>8. /\ Idle.at = "idle" /\ Idle \in Makers /\ Idle \in Critics /\ Idle \in Clerks
    BY DEF Idle, Makers, Critics, Clerks
  <1>9. ActorsTyped /\ ClerkAlone /\ Counted
    BY <1>1, <1>8 DEF ActorsTyped, ClerkAlone, Counted, Due
  <1>10. MakerFits /\ CriticFits /\ ClerkFits /\ FiledFits
    BY <1>1, <1>8 DEF MakerFits, CriticFits, ClerkFits, FiledFits
  <1>11. RowFits /\ AcceptedFits
    BY <1>1, <1>3, <1>4 DEF RowFits, AcceptedFits, Newest, Entered
  <1>12. TicketFits /\ WithinRoom
    <2>1. \A n \in Numbers : ~Corrected(n)
      BY <1>3, <1>4 DEF Corrected, Entered
    <2> QED
      BY <1>1, <1>8, <2>1 DEF TicketFits, WithinRoom
  <1>13. DraftFits
    BY <1>1 DEF DraftFits
  <1> QED
    BY <1>6, <1>7, <1>9, <1>10, <1>11, <1>12, <1>13 DEF FeedbackInv

-----------------------------------------------------------------------------
(* What stays with what it is about.                                       *)

LEMMA Idles ==
  Idle.at = "idle" /\ Idle \in Makers /\ Idle \in Critics /\ Idle \in Clerks
  BY DEF Idle, Makers, Critics, Clerks

LEMMA Actors ==
  ASSUME FeedbackInv
  PROVE  /\ maker.at \in {"idle", "queued", "planned", "rendering", "linked"}
         /\ maker = Idle <=> maker.at = "idle"
         /\ critic.at \in {"idle", "looking", "keeping", "inspecting"}
         /\ critic = Idle <=> critic.at = "idle"
         /\ clerk.at \in {"idle", "keep", "cleanup", "correct", "execute", "category"}
         /\ clerk = Idle <=> clerk.at = "idle"
  <1>1. maker \in Makers /\ critic \in Critics /\ clerk \in Clerks
    BY DEF FeedbackInv, ActorsTyped
  <1> QED
    BY <1>1, MakerIs, CriticIs, ClerkIs

LEMMA LedgerStays ==
  ASSUME FeedbackInv, UNCHANGED <<profile, row, files, ticket, category>>, keeps \subseteq keeps'
  PROVE  /\ RowsTyped' /\ FilesTyped' /\ RowFits' /\ AcceptedFits' /\ TicketFits'
  BY DEF FeedbackInv, RowsTyped, FilesTyped, RowFits, AcceptedFits, TicketFits, Newest, Entered,
         Witnessed

LEMMA PeopleStay ==
  ASSUME FeedbackInv, UNCHANGED <<decisions, keeps, source>>, made' \in Pictures,
         deaths' \in 0..MaxDeaths
  PROVE  PeopleTyped' /\ KeepsKnown'
  BY DEF FeedbackInv, PeopleTyped, KeepsKnown

LEMMA ActorsStay ==
  ASSUME FeedbackInv, UNCHANGED <<profile, row, files, ticket, draft, maker, critic, clerk>>,
         keeps \subseteq keeps'
  PROVE  /\ ActorsTyped' /\ ClerkAlone' /\ MakerFits' /\ CriticFits' /\ DraftFits'
         /\ ClerkFits' /\ FiledFits' /\ WithinRoom' /\ Due' = Due
  <1>1. ActorsTyped' /\ ClerkAlone' /\ MakerFits' /\ CriticFits' /\ DraftFits' /\ Due' = Due
    BY DEF FeedbackInv, ActorsTyped, ClerkAlone, MakerFits, CriticFits, DraftFits, Entered, Due
  <1>2. ClerkFits' /\ FiledFits'
    BY DEF FeedbackInv, ClerkFits, FiledFits, Entered, Brings, Told, Witnessed
  <1>3. WithinRoom'
    BY DEF FeedbackInv, WithinRoom, Corrected, Entered, Room, Baseline, Budget
  <1> QED
    BY <1>1, <1>2, <1>3

\* The clerk is idle and the plan on disk stays.
LEMMA DraftStays ==
  ASSUME FeedbackInv, UNCHANGED <<profile, draft>>
  PROVE  DraftFits' /\ (draft = Nothing \/ draft \in Drafts)'
  BY DEF FeedbackInv, ActorsTyped, DraftFits

LEMMA NoClerk ==
  ASSUME FeedbackInv, clerk' = Idle, draft' \in {draft, Nothing}
  PROVE  /\ ClerkAlone' /\ ClerkFits' /\ FiledFits'
         /\ clerk' \in Clerks
         /\ Due' \in 0..2 /\ Due' <= Due
         /\ clerk # Idle /\ (clerk.at = "cleanup" \/ clerk.filed) => Due' <= Due - 1
  <1>1. ClerkAlone' /\ ClerkFits' /\ FiledFits' /\ clerk' \in Clerks
    BY Idles DEF ClerkAlone, ClerkFits, FiledFits
  <1>2. clerk \in Clerks
    BY DEF FeedbackInv, ActorsTyped
  <1> DEFINE planned == IF draft # Nothing /\ draft.kind = "cleanup" THEN 1 ELSE 0
             busy == IF clerk # Idle /\ (clerk.at = "cleanup" \/ clerk.filed) THEN 1 ELSE 0
  <1>3. Due = planned + busy /\ planned \in 0..1 /\ busy \in 0..1
    BY DEF Due
  <1>4. Due' \in {0, planned}
    BY DEF Due
  <1>5. clerk # Idle /\ (clerk.at = "cleanup" \/ clerk.filed) => busy = 1
    OBVIOUS
  <1> HIDE DEF planned, busy
  <1> QED
    BY <1>1, <1>3, <1>4, <1>5

-----------------------------------------------------------------------------
(* People.                                                                 *)

LEMMA SaveIInv ==
  ASSUME FeedbackInv, NEW i \in 1..made, NEW choice \in Answers, Save(i, choice)
  PROVE  FeedbackInv'
  <1> DEFINE next == decisions[i].revision + 1
  <1>1. /\ UNCHANGED <<profile, row, files, ticket, category, draft, maker, critic, clerk>>
        /\ UNCHANGED <<source, made, deaths>>
        /\ decisions' = [decisions EXCEPT ![i] = [choice |-> choice, revision |-> next]]
        /\ keeps' = IF choice = "keep" THEN keeps \cup {<<i, next>>} ELSE keeps
    BY DEF Save, ledger
  <1>2. keeps \subseteq keeps'
    BY <1>1
  <1>3. i \in Pictures /\ next \in Nat /\ PeopleTyped
    BY Numbering DEF FeedbackInv, PeopleTyped, Decisions
  <1>4. [choice |-> choice, revision |-> next] \in Decisions
    BY <1>3 DEF Decisions
  <1>5. PeopleTyped'
    BY <1>1, <1>3, <1>4 DEF PeopleTyped
  <1>6. KeepsKnown'
    <2> SUFFICES ASSUME NEW j \in Pictures, decisions'[j].choice = "keep"
                 PROVE  <<j, decisions'[j].revision>> \in keeps'
      BY DEF KeepsKnown
    <2>1. CASE j = i
      <3>1. decisions'[j] = [choice |-> choice, revision |-> next]
        BY <1>1, <1>3, <2>1 DEF PeopleTyped
      <3> QED
        BY <1>1, <2>1, <3>1
    <2>2. CASE j # i
      <3>1. decisions'[j] = decisions[j]
        BY <1>1, <1>3, <2>2 DEF PeopleTyped
      <3> QED
        BY <1>2, <3>1 DEF FeedbackInv, KeepsKnown
    <2> QED
      BY <2>1, <2>2
  <1>7. Counted'
    BY <1>1, <1>2, ActorsStay DEF FeedbackInv, Counted
  <1> QED
    BY <1>1, <1>2, <1>5, <1>6, <1>7, LedgerStays, ActorsStay DEF FeedbackInv

LEMMA RepairSourceIInv == ASSUME FeedbackInv, RepairSource PROVE FeedbackInv'
  <1>1. /\ UNCHANGED <<profile, row, files, ticket, category, draft, maker, critic, clerk>>
        /\ UNCHANGED <<decisions, keeps, made, deaths>>
        /\ source' = source + 1
    BY DEF RepairSource, ledger
  <1>2. PeopleTyped' /\ KeepsKnown'
    BY <1>1 DEF FeedbackInv, PeopleTyped, KeepsKnown
  <1>3. Counted'
    BY <1>1, ActorsStay DEF FeedbackInv, Counted
  <1> QED
    BY <1>1, <1>2, <1>3, LedgerStays, ActorsStay DEF FeedbackInv

-----------------------------------------------------------------------------
(* The generator.                                                          *)

\* Only the generator is at work, and no plan is made meanwhile.
LEMMA MakerWorks ==
  ASSUME FeedbackInv, UNCHANGED <<profile, ticket, category, decisions, keeps, source, draft>>,
         UNCHANGED <<critic, clerk>>
  PROVE  /\ KeepsKnown' /\ DraftFits' /\ (draft = Nothing \/ draft \in Drafts)'
         /\ critic' \in Critics /\ clerk' \in Clerks
         /\ Due' = Due /\ Due \in 0..2
         /\ decisions' \in [Pictures -> Decisions] /\ source' \in Nat
  <1>1. KeepsKnown' /\ DraftFits' /\ (draft = Nothing \/ draft \in Drafts)'
    BY DraftStays DEF FeedbackInv, KeepsKnown
  <1>2. critic' \in Critics /\ clerk' \in Clerks
    BY DEF FeedbackInv, ActorsTyped
  <1>3. Due' = Due /\ Due \in 0..2
    BY DueIs DEF FeedbackInv, ActorsTyped, Due
  <1> QED
    BY <1>1, <1>2, <1>3 DEF FeedbackInv, PeopleTyped

\* A generator at work leaves no clerk and no look at the row's picture.
LEMMA Working ==
  ASSUME FeedbackInv, maker # Idle
  PROVE  clerk = Idle /\ critic.at # "looking"
  BY DEF FeedbackInv, ClerkAlone, CriticFits

LEMMA StartGenerateIInv == ASSUME FeedbackInv, StartGenerate PROVE FeedbackInv'
  <1>1. /\ UNCHANGED <<profile, files, ticket, category, decisions, keeps, source, draft>>
        /\ UNCHANGED <<critic, clerk, made, deaths>>
        /\ maker = Idle /\ clerk = Idle
        /\ maker' = [at |-> "queued", row |-> row'] /\ row'.state \in Queueable
    BY DEF StartGenerate, people
  <1>2. row \in Rows
    BY DEF FeedbackInv, RowsTyped
  <1>3. \/ row' = row
        \/ row.state = "generating" /\ row' = [row EXCEPT !.state = "interrupted"]
        \/ row.state = "accepted" /\ row' = [row EXCEPT !.state = "rejected"]
    BY DEF StartGenerate, SourceChanged
  <1>4. /\ row' \in Rows /\ row'.attempts = row.attempts /\ row'.image = row.image
        /\ row'.review = row.review
        /\ \/ row'.state = row.state /\ row'.state \in Queueable
           \/ row.state = "generating" /\ row'.state = "interrupted"
           \/ row.state = "accepted" /\ row'.state = "rejected"
    BY <1>1, <1>2, <1>3 DEF Rows, States
  <1>5. maker' \in Makers /\ maker'.at = "queued" /\ maker'.row = row' /\ maker.at = "idle"
    BY <1>1, <1>4, Idles DEF Makers
  <1>6. RowsTyped' /\ FilesTyped' /\ PeopleTyped' /\ ActorsTyped'
    BY <1>1, <1>4, <1>5, MakerWorks DEF FeedbackInv, RowsTyped, FilesTyped, PeopleTyped, ActorsTyped
  <1>7. Counted'
    BY <1>1, <1>4, <1>5, MakerWorks DEF FeedbackInv, Counted
  <1>8. MakerFits'
    BY <1>4, <1>5 DEF MakerFits, Queueable, Held
  <1>9. ClerkAlone' /\ ClerkFits' /\ FiledFits'
    BY <1>1, NoClerk
  <1>10. CriticFits'
    BY <1>1, <1>4 DEF FeedbackInv, CriticFits, Queueable, Held
  <1>11. RowFits' /\ AcceptedFits' /\ TicketFits'
    <2>1. row'.state = "rejected" => Newest(row) /\ row.review \in Reviews
      BY <1>4 DEF FeedbackInv, RowFits
    <2>2. row'.state = "pending" => ticket # Nothing
      BY <1>4 DEF FeedbackInv, RowFits
    <2>3. row'.state # "generated" /\ row'.state # "reviewing" /\ row'.state # "accepted"
      BY <1>1 DEF Queueable, Held
    <2>4. RowFits' /\ AcceptedFits'
      BY <1>1, <1>4, <2>1, <2>2, <2>3 DEF RowFits, AcceptedFits, Newest, Entered
    <2> QED
      BY <1>1, <2>4 DEF FeedbackInv, TicketFits, Newest, Entered
  <1>12. WithinRoom'
    BY <1>1, <1>4, <1>5 DEF FeedbackInv, WithinRoom, Corrected, Entered, Room, Baseline, Budget
  <1> QED
    BY <1>1, <1>6, <1>7, <1>8, <1>9, <1>10, <1>11, <1>12, MakerWorks DEF FeedbackInv

LEMMA PlanAttemptIInv == ASSUME FeedbackInv, PlanAttempt PROVE FeedbackInv'
  <1> DEFINE prompt == Input(maker.row)
  <1>1. /\ UNCHANGED <<profile, row, files, ticket, category, decisions, keeps, source, draft>>
        /\ UNCHANGED <<critic, clerk, made, deaths>>
        /\ maker.at = "queued"
        /\ maker' = IF prompt \in {"skip", "error"} THEN Idle
                    ELSE [at |-> "planned", row |-> maker.row, told |-> prompt,
                          source |-> source]
    BY DEF PlanAttempt, ledger, people
  <1>2. prompt \in {"skip", "error", "before", "after"}
    BY DEF Input
  <1>3. maker # Idle /\ maker.row \in Rows /\ source \in Nat
    BY <1>1, Actors, MakerIs DEF FeedbackInv, ActorsTyped, PeopleTyped
  <1>4. prompt = "after" => ticket # Nothing /\ maker.row.attempts + 1 \in Room
    <2>1. prompt = "after" => Active /\ ~Exhausted(maker.row) /\ ticket.mode # "reuse"
      BY DEF Input
    <2>2. ticket # Nothing => Baseline \in Nat /\ Budget \in Nat
      BY Numbering DEF FeedbackInv, RowsTyped, Tickets, Rows, Baseline, Budget
    <2>3. maker.row.attempts \in Nat
      BY <1>3, Numbering DEF Rows
    <2> QED
      BY <2>1, <2>2, <2>3 DEF Active, Exhausted, Room
  <1> HIDE DEF prompt
  <1>5. maker' = Idle \/
        /\ maker' = [at |-> "planned", row |-> maker.row, told |-> prompt, source |-> source]
        /\ prompt \in {"before", "after"}
    BY <1>1, <1>2
  <1>6. /\ maker' \in Makers
        /\ maker' = Idle \/ (/\ maker'.at = "planned" /\ maker'.row = maker.row
                             /\ maker'.told = prompt)
    BY <1>3, <1>5, Idles DEF Makers
  <1>7. RowsTyped' /\ FilesTyped' /\ RowFits' /\ AcceptedFits' /\ TicketFits'
    BY <1>1, LedgerStays
  <1>8. PeopleTyped' /\ ActorsTyped' /\ KeepsKnown' /\ DraftFits'
    BY <1>1, <1>6, MakerWorks DEF FeedbackInv, PeopleTyped, ActorsTyped
  <1>9. Counted'
    BY <1>1, <1>6, Idles, MakerWorks DEF FeedbackInv, Counted
  <1>10. ClerkAlone' /\ ClerkFits' /\ FiledFits'
    BY <1>1, <1>3, Working, NoClerk
  <1>11. MakerFits' /\ CriticFits'
    BY <1>1, <1>3, <1>6, Idles, Working DEF FeedbackInv, MakerFits, CriticFits, Entered
  <1>12. WithinRoom'
    BY <1>1, <1>4, <1>6, Idles DEF FeedbackInv, WithinRoom, Corrected, Entered, Room, Baseline, Budget
  <1> QED
    BY <1>7, <1>8, <1>9, <1>10, <1>11, <1>12 DEF FeedbackInv

LEMMA BeginAttemptIInv == ASSUME FeedbackInv, BeginAttempt PROVE FeedbackInv'
  <1>1. /\ UNCHANGED <<profile, files, ticket, category, decisions, keeps, source, draft>>
        /\ UNCHANGED <<critic, clerk, made, deaths>>
        /\ maker.at = "planned" /\ made < MaxPictures
    BY DEF BeginAttempt, people
  <1>2. maker # Idle /\ maker.row \in Rows /\ row \in Rows /\ clerk = Idle
    BY <1>1, Actors, Working, MakerIs DEF FeedbackInv, ActorsTyped, RowsTyped
  <1>3. maker.row.attempts = row.attempts
    BY <1>1 DEF FeedbackInv, MakerFits
  <1>4. /\ RowsTyped /\ PeopleTyped /\ ActorsTyped /\ Counted
        /\ row.attempts \in Numbers /\ row.attempts + 1 \in Numbers
    BY <1>1, RowNumber DEF FeedbackInv
  <1>5. ClerkAlone' /\ ClerkFits' /\ FiledFits'
    BY <1>1, <1>2, NoClerk
  <1>6. PeopleTyped' /\ KeepsKnown' /\ DraftFits'
    BY <1>1, MakerWorks DEF FeedbackInv, PeopleTyped
  <1>7. CASE maker' = Idle /\ UNCHANGED row
    <2>1. RowsTyped' /\ FilesTyped' /\ RowFits' /\ AcceptedFits' /\ TicketFits'
      BY <1>1, <1>7, LedgerStays
    <2>2. ActorsTyped' /\ Counted'
      BY <1>1, <1>7, Idles, MakerWorks DEF FeedbackInv, ActorsTyped, Counted
    <2>3. MakerFits' /\ CriticFits'
      BY <1>1, <1>2, <1>7, Idles, Working DEF FeedbackInv, MakerFits, CriticFits
    <2>4. WithinRoom'
      BY <1>1, <1>7, Idles DEF FeedbackInv, WithinRoom, Corrected, Entered, Room, Baseline, Budget
    <2> QED
      BY <1>5, <1>6, <2>1, <2>2, <2>3, <2>4 DEF FeedbackInv
  <1>8. CASE /\ ~Entered(row.attempts + 1)
             /\ row' = [row EXCEPT !.state = "generating", !.attempts = row.attempts + 1]
             /\ maker' = [maker EXCEPT !.at = "rendering"]
    <2>1. /\ row' \in Rows /\ row'.state = "generating" /\ row'.attempts = row.attempts + 1
      BY <1>2, <1>4, <1>8 DEF Rows, States
    <2>2. /\ maker' \in Makers /\ maker'.at = "rendering" /\ maker'.row = maker.row
          /\ maker'.told = maker.told
      <3>1. maker \in [at : {"planned", "rendering", "linked"}, row : Rows,
                       told : {"before", "after"}, source : Nat]
        BY <1>1, MakerIs DEF FeedbackInv, ActorsTyped
      <3> QED
        BY <1>8, <3>1 DEF Makers
    <2>3. RowsTyped' /\ FilesTyped' /\ ActorsTyped'
      BY <1>1, <2>1, <2>2, MakerWorks DEF FeedbackInv, RowsTyped, FilesTyped, ActorsTyped
    <2>4. Counted'
      BY <1>1, <1>4, <2>1, <2>2, Numbering, MakerWorks DEF FeedbackInv, Counted, PeopleTyped
    <2>5. RowFits' /\ AcceptedFits' /\ TicketFits'
      BY <1>1, <2>1 DEF FeedbackInv, RowFits, AcceptedFits, TicketFits, Newest, Entered
    <2>6. MakerFits' /\ CriticFits'
      BY <1>1, <1>2, <1>3, <1>8, <2>1, <2>2, Working DEF FeedbackInv, MakerFits, CriticFits, Entered
    <2>7. WithinRoom'
      <3>1. ticket = Nothing => \A n \in Numbers : ~Corrected(n)
        BY <1>8 DEF FeedbackInv, WithinRoom, Corrected
      <3> QED
        BY <1>1, <2>1, <2>2, <3>1
        DEF FeedbackInv, WithinRoom, Corrected, Entered, Room, Baseline, Budget
    <2> QED
      BY <1>5, <1>6, <2>3, <2>4, <2>5, <2>6, <2>7 DEF FeedbackInv
  <1> QED
    BY <1>3, <1>7, <1>8 DEF BeginAttempt, Free, Next1, Entered

\* A picture of the attempt that is entered, put where none was.
LEMMA PictureEntered ==
  ASSUME FeedbackInv, made < MaxPictures, maker.at = "rendering",
         NEW prompt \in {"before", "after", "nothing"},
         File(Next1(maker.row), prompt, maker.source)
  PROVE  /\ FilesTyped' /\ made' \in Pictures /\ made' = made + 1
         /\ row.attempts \in Numbers
         /\ Next1(maker.row) = row.attempts
         /\ files[row.attempts] = Nothing /\ files'[row.attempts] # Nothing
         /\ files'[row.attempts].told = prompt
         /\ \A m \in Numbers : m # row.attempts => files'[m] = files[m]
  <1>1. Next1(maker.row) = row.attempts /\ files[row.attempts] = Nothing
    BY DEF FeedbackInv, MakerFits, Next1, Entered
  <1>2. row.attempts \in Numbers
    BY DEF FeedbackInv, RowsTyped, Rows
  <1>3. made + 1 \in Pictures
    BY Numbering DEF FeedbackInv, PeopleTyped
  <1>4. maker.source \in Nat
    BY MakerIs DEF FeedbackInv, ActorsTyped
  <1> DEFINE f == [image |-> made + 1, told |-> prompt, source |-> maker.source]
  <1>5. f \in Attempts /\ f.told = prompt
    BY <1>3, <1>4 DEF Attempts
  <1>6. files' = [files EXCEPT ![row.attempts] = f] /\ made' = made + 1
    BY <1>1 DEF File
  <1> HIDE DEF f
  <1>7. FilesTyped
    BY DEF FeedbackInv
  <1> QED
    BY <1>1, <1>2, <1>3, <1>5, <1>6, <1>7, FileIs

LEMMA LinkAttemptIInv == ASSUME FeedbackInv, LinkAttempt PROVE FeedbackInv'
  <1>1. /\ UNCHANGED <<profile, row, ticket, category, decisions, keeps, source, draft>>
        /\ UNCHANGED <<critic, clerk, deaths>>
        /\ maker.at = "rendering" /\ made < MaxPictures
        /\ maker' = [maker EXCEPT !.at = "linked"]
        /\ File(Next1(maker.row), maker.told, maker.source)
    BY DEF LinkAttempt, people
  <1>2. maker \in [at : {"planned", "rendering", "linked"}, row : Rows,
                   told : {"before", "after"}, source : Nat]
    BY <1>1, MakerIs DEF FeedbackInv, ActorsTyped
  <1>3. /\ maker' \in Makers /\ maker'.at = "linked" /\ maker'.row = maker.row
        /\ maker'.told = maker.told
    BY <1>1, <1>2 DEF Makers
  <1>4. /\ FilesTyped' /\ made' \in Pictures /\ made' = made + 1
        /\ row.attempts \in Numbers /\ Next1(maker.row) = row.attempts
        /\ files[row.attempts] = Nothing /\ files'[row.attempts] # Nothing
        /\ files'[row.attempts].told = maker.told
        /\ \A m \in Numbers : m # row.attempts => files'[m] = files[m]
    BY <1>1, <1>2, PictureEntered
  <1>5. maker # Idle /\ clerk = Idle /\ critic.at # "looking"
    BY <1>1, Actors, Working
  <1>6. row.state = "generating" /\ row.attempts = maker.row.attempts + 1
    BY <1>1 DEF FeedbackInv, MakerFits
  <1>7. RowsTyped' /\ PeopleTyped' /\ ActorsTyped' /\ KeepsKnown' /\ DraftFits'
    BY <1>1, <1>3, <1>4, MakerWorks DEF FeedbackInv, RowsTyped, PeopleTyped, ActorsTyped
  <1>8. Counted'
    BY <1>1, <1>3, <1>4, MakerWorks, Numbering DEF FeedbackInv, Counted, PeopleTyped
  <1>9. ClerkAlone' /\ ClerkFits' /\ FiledFits'
    BY <1>1, <1>5, NoClerk
  <1>10. MakerFits' /\ CriticFits'
    BY <1>1, <1>3, <1>4, <1>5, <1>6 DEF FeedbackInv, MakerFits, CriticFits, Entered
  <1>11. RowFits' /\ AcceptedFits' /\ TicketFits'
    <2>1. ticket # Nothing => ticket.row.attempts \in Numbers
      BY DEF FeedbackInv, RowsTyped, Tickets, Rows
    <2>2. ticket # Nothing /\ Newest(ticket.row) => Newest(ticket.row)'
      BY <1>1, <1>4, <2>1 DEF Newest, Entered
    <2>3. RowFits' /\ AcceptedFits'
      BY <1>1, <1>6 DEF FeedbackInv, RowFits, AcceptedFits
    <2> QED
      BY <1>1, <2>2, <2>3 DEF FeedbackInv, TicketFits
  <1>12. WithinRoom'
    <2>1. maker.told = "after" => ticket # Nothing /\ row.attempts \in Room
      BY <1>1, <1>4, <1>6 DEF FeedbackInv, WithinRoom
    <2>2. \A n \in Numbers : n # row.attempts => (Corrected(n)' <=> Corrected(n))
      BY <1>4 DEF Corrected, Entered
    <2>3. Corrected(row.attempts)' => maker.told = "after"
      BY <1>1, <1>4 DEF Corrected, Entered
    <2>4. Room' = Room
      BY <1>1 DEF Room, Baseline, Budget
    <2> QED
      BY <1>1, <1>3, <2>1, <2>2, <2>3, <2>4 DEF FeedbackInv, WithinRoom
  <1> QED
    BY <1>4, <1>7, <1>8, <1>9, <1>10, <1>11, <1>12 DEF FeedbackInv

LEMMA RecordAttemptIInv == ASSUME FeedbackInv, RecordAttempt PROVE FeedbackInv'
  <1>1. /\ UNCHANGED <<profile, files, ticket, category, decisions, keeps, source, draft>>
        /\ UNCHANGED <<critic, clerk, made, deaths>>
        /\ maker.at = "linked" /\ maker' = Idle
        /\ row' = [row EXCEPT !.state = "generated", !.review = Nothing,
                              !.image = files[Next1(maker.row)].image]
    BY DEF RecordAttempt, people
  <1>2. maker # Idle /\ clerk = Idle /\ critic.at # "looking"
    BY <1>1, Actors, Working
  <1>3. /\ row.attempts = maker.row.attempts + 1 /\ Entered(row.attempts)
        /\ row \in Rows /\ row.attempts \in Numbers
    BY <1>1 DEF FeedbackInv, MakerFits, RowsTyped, Rows
  <1>4. files[row.attempts].image \in Pictures
    BY <1>3 DEF FeedbackInv, FilesTyped, Entered, Attempts
  <1>5. /\ row' \in Rows /\ row'.state = "generated" /\ row'.attempts = row.attempts
        /\ row'.image = files[row.attempts].image
    BY <1>1, <1>3, <1>4 DEF Rows, States, Next1
  <1>6. RowsTyped' /\ FilesTyped' /\ PeopleTyped' /\ ActorsTyped' /\ KeepsKnown' /\ DraftFits'
    BY <1>1, <1>5, Idles, MakerWorks DEF FeedbackInv, RowsTyped, FilesTyped, PeopleTyped, ActorsTyped
  <1>7. Counted'
    BY <1>1, <1>5, Idles, MakerWorks DEF FeedbackInv, Counted
  <1>8. ClerkAlone' /\ ClerkFits' /\ FiledFits'
    BY <1>1, <1>2, NoClerk
  <1>9. MakerFits' /\ CriticFits'
    BY <1>1, <1>2, Idles DEF FeedbackInv, MakerFits, CriticFits
  <1>10. RowFits' /\ AcceptedFits' /\ TicketFits'
    BY <1>1, <1>3, <1>5 DEF FeedbackInv, RowFits, AcceptedFits, TicketFits, Newest, Entered
  <1>11. WithinRoom'
    BY <1>1, <1>5, Idles DEF FeedbackInv, WithinRoom, Corrected, Entered, Room, Baseline, Budget
  <1> QED
    BY <1>6, <1>7, <1>8, <1>9, <1>10, <1>11 DEF FeedbackInv

LEMMA FailAttemptIInv == ASSUME FeedbackInv, FailAttempt PROVE FeedbackInv'
  <1>1. /\ UNCHANGED <<profile, files, ticket, category, decisions, keeps, source, draft>>
        /\ UNCHANGED <<critic, clerk, made>>
        /\ maker.at = "rendering" /\ maker' = Idle
        /\ deaths < MaxDeaths /\ deaths' = deaths + 1
        /\ row' = [row EXCEPT !.state = "generation_error"]
    BY DEF FailAttempt, people
  <1>2. maker # Idle /\ clerk = Idle /\ critic.at # "looking"
    BY <1>1, Actors, Working
  <1>3. row \in Rows /\ deaths' \in 0..MaxDeaths
    BY <1>1, Numbering DEF FeedbackInv, RowsTyped, PeopleTyped
  <1>4. row' \in Rows /\ row'.state = "generation_error" /\ row'.attempts = row.attempts
    BY <1>1, <1>3 DEF Rows, States
  <1>5. RowsTyped' /\ FilesTyped' /\ PeopleTyped' /\ ActorsTyped' /\ KeepsKnown' /\ DraftFits'
    BY <1>1, <1>3, <1>4, Idles, MakerWorks
    DEF FeedbackInv, RowsTyped, FilesTyped, PeopleTyped, ActorsTyped
  <1>6. Counted'
    <2>1. /\ row.attempts \in Nat /\ made \in Nat /\ deaths \in Nat
          /\ row.attempts + Due <= made + deaths + 1
      BY <1>1, <1>3, Numbering DEF FeedbackInv, Counted, PeopleTyped, Rows
    <2> QED
      BY <1>1, <1>4, <2>1, Idles, MakerWorks DEF Counted
  <1>7. ClerkAlone' /\ ClerkFits' /\ FiledFits'
    BY <1>1, <1>2, NoClerk
  <1>8. MakerFits' /\ CriticFits'
    BY <1>1, <1>2, Idles DEF FeedbackInv, MakerFits, CriticFits
  <1>9. RowFits' /\ AcceptedFits' /\ TicketFits'
    BY <1>1, <1>4 DEF FeedbackInv, RowFits, AcceptedFits, TicketFits, Newest, Entered
  <1>10. WithinRoom'
    BY <1>1, <1>4, Idles DEF FeedbackInv, WithinRoom, Corrected, Entered, Room, Baseline, Budget
  <1> QED
    BY <1>5, <1>6, <1>7, <1>8, <1>9, <1>10 DEF FeedbackInv

LEMMA MakerDiesIInv == ASSUME FeedbackInv, MakerDies PROVE FeedbackInv'
  <1>1. /\ UNCHANGED <<profile, row, ticket, category, decisions, keeps, source, draft>>
        /\ UNCHANGED <<critic, clerk>>
        /\ maker.at \in {"planned", "rendering", "linked"} /\ maker' = Idle
        /\ deaths < MaxDeaths /\ deaths' = deaths + 1
    BY DEF MakerDies, people
  <1>2. maker # Idle /\ clerk = Idle /\ critic.at # "looking"
    BY <1>1, Actors, Working
  <1>3. deaths' \in 0..MaxDeaths /\ made \in Pictures /\ row.attempts \in Numbers
    BY <1>1, Numbering DEF FeedbackInv, PeopleTyped, RowsTyped, Rows
  <1>4. ActorsTyped' /\ RowsTyped' /\ KeepsKnown' /\ DraftFits'
    BY <1>1, Idles, MakerWorks DEF FeedbackInv, RowsTyped, ActorsTyped
  <1>5. ClerkAlone' /\ ClerkFits' /\ FiledFits'
    BY <1>1, <1>2, NoClerk
  <1>6. MakerFits' /\ CriticFits'
    BY <1>1, <1>2, Idles DEF FeedbackInv, MakerFits, CriticFits
  <1>7. /\ row.attempts \in Nat /\ made \in Nat /\ deaths \in Nat
        /\ row.attempts + Due <= made + deaths + 1
    BY <1>1, <1>3, MakerWorks, Numbering DEF FeedbackInv, Counted, PeopleTyped
  <1>8. CASE UNCHANGED <<files, made>>
    <2>1. RowFits' /\ AcceptedFits' /\ TicketFits' /\ FilesTyped'
      BY <1>1, <1>8, LedgerStays
    <2>2. PeopleTyped'
      BY <1>1, <1>3, <1>8, PeopleStay
    <2>3. Counted'
      BY <1>1, <1>7, <1>8, Idles, MakerWorks DEF Counted
    <2>4. WithinRoom'
      BY <1>1, <1>8, Idles DEF FeedbackInv, WithinRoom, Corrected, Entered, Room, Baseline, Budget
    <2> QED
      BY <1>4, <1>5, <1>6, <2>1, <2>2, <2>3, <2>4 DEF FeedbackInv
  <1>9. CASE maker.at = "rendering" /\ made < MaxPictures
             /\ File(Next1(maker.row), "nothing", maker.source)
    <2>1. /\ FilesTyped' /\ made' \in Pictures /\ made' = made + 1
          /\ files[row.attempts] = Nothing /\ files'[row.attempts] # Nothing
          /\ files'[row.attempts].told = "nothing"
          /\ \A m \in Numbers : m # row.attempts => files'[m] = files[m]
      BY <1>9, PictureEntered
    <2>2. row.state = "generating"
      BY <1>9 DEF FeedbackInv, MakerFits
    <2>3. RowFits' /\ AcceptedFits' /\ TicketFits'
      <3>1. ticket # Nothing => ticket.row.attempts \in Numbers
        BY DEF FeedbackInv, RowsTyped, Tickets, Rows
      <3>2. ticket # Nothing /\ Newest(ticket.row) => Newest(ticket.row)'
        BY <1>1, <2>1, <3>1 DEF Newest, Entered
      <3>3. RowFits' /\ AcceptedFits'
        BY <1>1, <2>2 DEF FeedbackInv, RowFits, AcceptedFits
      <3> QED
        BY <1>1, <3>2, <3>3 DEF FeedbackInv, TicketFits
    <2>4. PeopleTyped'
      BY <1>1, <1>3, <2>1, PeopleStay
    <2>5. Counted'
      BY <1>1, <1>7, <2>1, Idles, MakerWorks DEF Counted
    <2>6. WithinRoom'
      <3>1. \A n \in Numbers : Corrected(n)' => Corrected(n)
        BY <1>1, <2>1 DEF Corrected, Entered
      <3>2. Room' = Room
        BY <1>1 DEF Room, Baseline, Budget
      <3> QED
        BY <1>1, <3>1, <3>2, Idles DEF FeedbackInv, WithinRoom
    <2> QED
      BY <1>4, <1>5, <1>6, <2>1, <2>3, <2>4, <2>5, <2>6 DEF FeedbackInv
  <1> QED
    BY <1>8, <1>9 DEF MakerDies

-----------------------------------------------------------------------------
(* The reviewer and the auditor.                                           *)

\* Only the reviewer is at work.
LEMMA CriticWorks ==
  ASSUME FeedbackInv, UNCHANGED <<profile, files, ticket, category, decisions, keeps, source, draft>>,
         UNCHANGED <<maker, clerk, made>>
  PROVE  /\ FilesTyped' /\ KeepsKnown' /\ DraftFits' /\ (draft = Nothing \/ draft \in Drafts)'
         /\ maker' \in Makers /\ clerk' \in Clerks
         /\ Due' = Due /\ Due \in 0..2
         /\ deaths' \in 0..MaxDeaths => PeopleTyped'
  <1>1. FilesTyped' /\ KeepsKnown' /\ DraftFits' /\ (draft = Nothing \/ draft \in Drafts)'
    BY DraftStays DEF FeedbackInv, FilesTyped, KeepsKnown
  <1>2. maker' \in Makers /\ clerk' \in Clerks
    BY DEF FeedbackInv, ActorsTyped
  <1>3. Due' = Due /\ Due \in 0..2
    BY DueIs DEF FeedbackInv, ActorsTyped, Due
  <1> QED
    BY <1>1, <1>2, <1>3 DEF FeedbackInv, PeopleTyped

\* A row keeps its number under review, and with it the pictures' accounts.
LEMMA ReviewedRow ==
  ASSUME FeedbackInv, UNCHANGED <<profile, files, ticket, category, decisions, keeps, source, draft>>,
         UNCHANGED <<maker, clerk, made, deaths>>,
         row' \in Rows, row'.attempts = row.attempts, clerk = Idle, critic' \in Critics
  PROVE  /\ RowsTyped' /\ FilesTyped' /\ PeopleTyped' /\ ActorsTyped'
         /\ Counted' /\ ClerkAlone' /\ KeepsKnown' /\ TicketFits' /\ DraftFits'
         /\ ClerkFits' /\ FiledFits' /\ WithinRoom'
  <1>1. RowsTyped' /\ FilesTyped' /\ PeopleTyped' /\ ActorsTyped' /\ KeepsKnown' /\ DraftFits'
    BY CriticWorks DEF FeedbackInv, RowsTyped, ActorsTyped, PeopleTyped
  <1>2. Counted'
    BY CriticWorks DEF FeedbackInv, Counted
  <1>3. ClerkAlone' /\ ClerkFits' /\ FiledFits'
    BY NoClerk
  <1>4. TicketFits'
    BY DEF FeedbackInv, TicketFits, Newest, Entered
  <1>5. WithinRoom'
    BY DEF FeedbackInv, WithinRoom, Corrected, Entered, Room, Baseline, Budget
  <1> QED
    BY <1>1, <1>2, <1>3, <1>4, <1>5

LEMMA StartReviewIInv == ASSUME FeedbackInv, StartReview PROVE FeedbackInv'
  <1>1. /\ UNCHANGED <<profile, files, ticket, category, decisions, keeps, source, draft>>
        /\ UNCHANGED <<maker, clerk, made, deaths>>
        /\ critic = Idle /\ clerk = Idle /\ critic' = [at |-> "looking"]
        /\ row.state \in {"generated", "reviewing"}
        /\ row' = [row EXCEPT !.state = "reviewing"]
    BY DEF StartReview, people
  <1>2. row \in Rows
    BY DEF FeedbackInv, RowsTyped
  <1>3. /\ row' \in Rows /\ row'.state = "reviewing" /\ row'.attempts = row.attempts
        /\ row'.image = row.image
    BY <1>1, <1>2 DEF Rows, States
  <1>4. critic' \in Critics /\ critic'.at = "looking"
    BY <1>1 DEF Critics
  <1>5. maker = Idle /\ maker.at = "idle"
    BY <1>1, Actors DEF FeedbackInv, MakerFits
  <1>6. MakerFits' /\ CriticFits'
    BY <1>1, <1>3, <1>4, <1>5 DEF MakerFits, CriticFits
  <1>7. RowFits' /\ AcceptedFits'
    BY <1>1, <1>3 DEF FeedbackInv, RowFits, AcceptedFits, Newest, Entered
  <1> QED
    BY <1>1, <1>3, <1>4, <1>6, <1>7, ReviewedRow DEF FeedbackInv

LEMMA EndReviewIInv ==
  ASSUME FeedbackInv, NEW answer \in Held \cup {"accepted"}, NEW clear \in BOOLEAN,
         EndReview(answer, clear)
  PROVE  FeedbackInv'
  <1> DEFINE review == [image |-> row.image, clear |-> clear, source |-> source,
                        keep |-> Nothing]
  <1>1. /\ UNCHANGED <<profile, files, ticket, category, decisions, keeps, source, draft>>
        /\ UNCHANGED <<maker, clerk, made, deaths>>
        /\ critic.at = "looking" /\ critic' = Idle
        /\ row' = [row EXCEPT !.state = answer, !.review = review]
    BY DEF EndReview, people
  <1>2. row \in Rows /\ source \in Nat /\ row.image \in Pictures
    BY DEF FeedbackInv, RowsTyped, Rows, PeopleTyped
  <1>3. review \in Reviews /\ review.image = row.image /\ review.keep = Nothing
    BY <1>2 DEF Reviews
  <1> HIDE DEF review
  <1>4. /\ row' \in Rows /\ row'.state = answer /\ row'.attempts = row.attempts
        /\ row'.image = row.image /\ row'.review = review
        /\ answer \in {"accepted", "rejected"}
    BY <1>1, <1>2, <1>3 DEF Rows, States, Held
  <1>5. /\ clerk = Idle /\ maker = Idle /\ maker.at = "idle" /\ row.state = "reviewing"
    BY <1>1, Actors DEF FeedbackInv, ClerkAlone, CriticFits
  <1>6. critic' \in Critics /\ MakerFits' /\ CriticFits'
    BY <1>1, <1>5, Idles DEF MakerFits, CriticFits
  <1>7. RowFits' /\ AcceptedFits'
    BY <1>1, <1>3, <1>4, <1>5
    DEF FeedbackInv, RowFits, AcceptedFits, Newest, Entered, Witnessed
  <1> QED
    BY <1>1, <1>4, <1>5, <1>6, <1>7, ReviewedRow DEF FeedbackInv

\* What holds of a held row's receipt.
LEMMA ReceiptIs ==
  ASSUME FeedbackInv, row.state \in Held
  PROVE  /\ row.review \in Reviews /\ Receipt(row) \in Reviews
         /\ Receipt(row).image = row.review.image /\ Receipt(row).keep.of = row.image
  <1>1. row.review \in Reviews /\ row.image \in Pictures
    BY DEF FeedbackInv, RowFits, Held, RowsTyped, Rows
  <1>2. decisions[row.image].revision \in Nat
    BY <1>1 DEF FeedbackInv, PeopleTyped, Decisions
  <1> QED
    BY <1>1, <1>2 DEF Receipt, Reviews

\* A receipt that is valid was given by a person.
LEMMA ValidIsWitnessed ==
  ASSUME FeedbackInv, NEW image, NEW review \in Reviews, Valid(image, review)
  PROVE  Witnessed(review) /\ review.image = image
  <1>1. /\ review.keep # Nothing /\ review.keep.of \in Pictures
        /\ decisions[review.keep.of] =
              [choice |-> "keep", revision |-> review.keep.revision]
        /\ review.image = image
    BY DEF Valid, Reviews
  <1> QED
    BY <1>1 DEF FeedbackInv, KeepsKnown, Witnessed

LEMMA StartAuditIInv == ASSUME FeedbackInv, StartAudit PROVE FeedbackInv'
  <1>1. /\ UNCHANGED <<profile, row, files, ticket, category, decisions, keeps, source, draft>>
        /\ UNCHANGED <<maker, clerk, made, deaths>>
        /\ critic = Idle /\ clerk = Idle /\ Registered
    BY DEF StartAudit, ledger, people
  <1>2. row \in Rows
    BY DEF FeedbackInv, RowsTyped
  <1>3. \/ critic' = [at |-> "keeping", row |-> row] /\ row.state \in Held
        \/ /\ critic' = [at |-> "inspecting", row |-> row]
           /\ row.state \in {"accepted", "rejected", "pending"}
    BY DEF StartAudit, Goes, Reconcilable
  <1>4. /\ critic' \in Critics /\ critic'.row = row
        /\ \/ critic'.at = "keeping" /\ row.state \in Held
           \/ critic'.at = "inspecting" /\ row.state \in {"accepted", "rejected", "pending"}
    BY <1>2, <1>3 DEF Critics
  <1>5. profile \in Categories
    BY <1>1 DEF FeedbackInv, TicketFits, Registered
  <1>6. MakerFits' /\ CriticFits'
    BY <1>1, <1>4, <1>5 DEF FeedbackInv, MakerFits, CriticFits, Entered
  <1>7. RowFits' /\ AcceptedFits'
    BY <1>1, LedgerStays
  <1> QED
    BY <1>1, <1>2, <1>4, <1>6, <1>7, ReviewedRow DEF FeedbackInv

LEMMA AuditKeepsIInv == ASSUME FeedbackInv, AuditKeeps PROVE FeedbackInv'
  <1>1. /\ UNCHANGED <<profile, files, ticket, category, decisions, keeps, source, draft>>
        /\ UNCHANGED <<maker, clerk, made, deaths>>
        /\ critic.at = "keeping" /\ critic' = Idle
    BY DEF AuditKeeps, people
  <1>2. clerk = Idle /\ row \in Rows /\ critic.row.state \in Held
    BY <1>1, Actors DEF FeedbackInv, ClerkAlone, RowsTyped, CriticFits
  <1>3. critic' \in Critics /\ CriticFits'
    BY <1>1, Idles DEF CriticFits
  <1>4. CASE row' = row
    <2>1. RowFits' /\ AcceptedFits'
      BY <1>1, <1>4, LedgerStays
    <2>2. MakerFits'
      BY <1>1, <1>4 DEF FeedbackInv, MakerFits, Entered
    <2> QED
      BY <1>1, <1>2, <1>3, <1>4, <2>1, <2>2, ReviewedRow DEF FeedbackInv
  <1>5. CASE /\ Unmoved /\ Valid(row.image, Receipt(row))
             /\ row' = [row EXCEPT !.state = "accepted", !.review = Receipt(row)]
    <2>1. row.state \in Held
      BY <1>2, <1>5 DEF Unmoved
    <2>2. /\ Receipt(row) \in Reviews /\ Receipt(row).keep.of = row.image
          /\ Witnessed(Receipt(row)) /\ Receipt(row).image = row.image
      BY <1>5, <2>1, ReceiptIs, ValidIsWitnessed
    <2>3. /\ row' \in Rows /\ row'.state = "accepted" /\ row'.attempts = row.attempts
          /\ row'.image = row.image /\ row'.review = Receipt(row)
      BY <1>2, <1>5, <2>2 DEF Rows, States
    <2>4. MakerFits'
      BY <1>1, <2>1, <2>3 DEF FeedbackInv, MakerFits, Held, Entered
    <2>5. RowFits'
      BY <1>1, <2>1, <2>2, <2>3 DEF FeedbackInv, RowFits, Held, Newest, Entered
    <2>6. AcceptedFits'
      BY <1>1, <2>2, <2>3 DEF AcceptedFits, Witnessed
    <2> QED
      BY <1>1, <1>2, <1>3, <2>3, <2>4, <2>5, <2>6, ReviewedRow DEF FeedbackInv
  <1> QED
    BY <1>4, <1>5 DEF AuditKeeps

LEMMA EndAuditIInv ==
  ASSUME FeedbackInv, NEW answer \in {"pass", "fail"}, EndAudit(answer)
  PROVE  FeedbackInv'
  <1>1. /\ UNCHANGED <<profile, files, ticket, category, decisions, keeps, source, draft>>
        /\ UNCHANGED <<maker, clerk, made, deaths>>
        /\ critic.at = "inspecting"
    BY DEF EndAudit, people
  <1>2. /\ clerk = Idle /\ row \in Rows /\ profile \in Categories
        /\ critic.row.state \in {"accepted", "rejected", "pending"}
    BY <1>1, Actors DEF FeedbackInv, ClerkAlone, RowsTyped, CriticFits
  <1>3. \/ row' = row
        \/ row = critic.row /\ row' = [row EXCEPT !.state = "rejected"]
    BY DEF EndAudit
  <1>4. \/ critic' = Idle
        \/ critic' = [at |-> "keeping", row |-> row] /\ row.state \in Held
    BY DEF EndAudit, Reconcilable
  <1>5. critic' \in Critics /\ CriticFits'
    <2>1. CASE critic' = Idle
      BY <2>1, Idles DEF CriticFits
    <2>2. CASE critic' = [at |-> "keeping", row |-> row] /\ row.state \in Held
      BY <1>2, <2>2 DEF CriticFits, Critics
    <2> QED
      BY <1>4, <2>1, <2>2
  <1>6. CASE row' = row
    <2>1. RowFits' /\ AcceptedFits'
      BY <1>1, <1>6, LedgerStays
    <2>2. MakerFits'
      BY <1>1, <1>6 DEF FeedbackInv, MakerFits, Entered
    <2> QED
      BY <1>1, <1>2, <1>5, <1>6, <2>1, <2>2, ReviewedRow DEF FeedbackInv
  <1>7. CASE row = critic.row /\ row' = [row EXCEPT !.state = "rejected"]
    <2>1. row.state \in {"accepted", "rejected"}
      <3>1. row.state # "pending"
        BY <1>2 DEF FeedbackInv, RowFits, TicketFits, Categories
      <3> QED
        BY <1>2, <1>7, <3>1
    <2>2. /\ row' \in Rows /\ row'.state = "rejected" /\ row'.attempts = row.attempts
          /\ row'.image = row.image /\ row'.review = row.review
      BY <1>2, <1>7 DEF Rows, States
    <2>3. MakerFits'
      BY <1>1, <2>1, <2>2 DEF FeedbackInv, MakerFits, Entered
    <2>4. RowFits' /\ AcceptedFits'
      BY <1>1, <2>1, <2>2 DEF FeedbackInv, RowFits, AcceptedFits, Newest, Entered
    <2> QED
      BY <1>1, <1>2, <1>5, <2>2, <2>3, <2>4, ReviewedRow DEF FeedbackInv
  <1> QED
    BY <1>3, <1>6, <1>7

LEMMA CriticDiesIInv == ASSUME FeedbackInv, CriticDies PROVE FeedbackInv'
  <1>1. /\ UNCHANGED <<profile, row, files, ticket, category, decisions, keeps, source, draft>>
        /\ UNCHANGED <<maker, clerk, made>>
        /\ critic # Idle /\ critic' = Idle
        /\ deaths < MaxDeaths /\ deaths' = deaths + 1
    BY DEF CriticDies, ledger, people
  <1>2. clerk = Idle /\ deaths' \in 0..MaxDeaths
    BY <1>1, Numbering DEF FeedbackInv, ClerkAlone, PeopleTyped
  <1>3. RowsTyped' /\ FilesTyped' /\ RowFits' /\ AcceptedFits' /\ TicketFits'
    BY <1>1, LedgerStays
  <1>4. PeopleTyped' /\ ActorsTyped' /\ KeepsKnown' /\ DraftFits'
    BY <1>1, <1>2, Idles, CriticWorks DEF ActorsTyped
  <1>5. Counted'
    <2>1. /\ row.attempts \in Nat /\ made \in Nat /\ deaths \in Nat
      BY Numbering DEF FeedbackInv, PeopleTyped, RowsTyped, Rows
    <2> QED
      BY <1>1, <2>1, CriticWorks DEF FeedbackInv, Counted
  <1>6. ClerkAlone' /\ ClerkFits' /\ FiledFits'
    BY <1>1, <1>2, NoClerk
  <1>7. MakerFits' /\ CriticFits'
    BY <1>1, Idles DEF FeedbackInv, MakerFits, CriticFits, Entered
  <1>8. WithinRoom'
    BY <1>1 DEF FeedbackInv, WithinRoom, Corrected, Entered, Room, Baseline, Budget
  <1> QED
    BY <1>3, <1>4, <1>5, <1>6, <1>7, <1>8 DEF FeedbackInv

-----------------------------------------------------------------------------
(* Plans on disk.                                                          *)

\* A plan is written and nothing else happens, but for a picture of its own.
LEMMA DraftWritten ==
  ASSUME FeedbackInv, NEW plan \in Drafts, Draft(plan), draft' # Nothing => DraftFits',
         made' \in Pictures,
         \/ plan.kind # "cleanup" /\ made' = made
         \/ made' = made + 1
  PROVE  FeedbackInv'
  <1>1. /\ UNCHANGED <<profile, row, files, ticket, category, decisions, keeps, source>>
        /\ UNCHANGED <<maker, critic, clerk, deaths>>
        /\ draft' = plan
    BY DEF Draft, ledger, people
  <1>2. RowsTyped' /\ FilesTyped' /\ RowFits' /\ AcceptedFits' /\ TicketFits'
    BY <1>1, LedgerStays
  <1>3. PeopleTyped' /\ KeepsKnown'
    BY <1>1, PeopleStay DEF FeedbackInv, PeopleTyped
  <1>4. ActorsTyped' /\ ClerkAlone' /\ MakerFits' /\ CriticFits'
    BY <1>1 DEF FeedbackInv, ActorsTyped, ClerkAlone, MakerFits, CriticFits, Entered
  <1>5. DraftFits'
    BY DEF DraftFits
  <1>6. ClerkFits' /\ FiledFits'
    BY <1>1 DEF FeedbackInv, ClerkFits, FiledFits, Entered, Brings, Told, Witnessed
  <1>7. WithinRoom'
    BY <1>1 DEF FeedbackInv, WithinRoom, Corrected, Entered, Room, Baseline, Budget
  <1>8. Counted'
    <2> DEFINE planned == IF draft # Nothing /\ draft.kind = "cleanup" THEN 1 ELSE 0
               busy == IF clerk # Idle /\ (clerk.at = "cleanup" \/ clerk.filed) THEN 1 ELSE 0
               next == IF plan # Nothing /\ plan.kind = "cleanup" THEN 1 ELSE 0
    <2>1. Due = planned + busy /\ planned \in 0..1 /\ busy \in 0..1
      BY DEF Due
    <2>2. Due' = next + busy /\ next \in 0..1
      BY <1>1 DEF Due
    <2>3. next = 0 \/ made' = made + 1
      OBVIOUS
    <2>4. made' = made \/ made' = made + 1
      OBVIOUS
    <2> HIDE DEF planned, busy, next
    <2>5. row.attempts \in Nat /\ made \in Nat /\ deaths \in Nat
      BY Numbering DEF FeedbackInv, PeopleTyped, RowsTyped, Rows
    <2> QED
      BY <1>1, <2>1, <2>2, <2>3, <2>4, <2>5 DEF FeedbackInv, Counted
  <1> QED
    BY <1>2, <1>3, <1>4, <1>5, <1>6, <1>7, <1>8 DEF FeedbackInv

LEMMA PrepareKeepIInv == ASSUME FeedbackInv, PrepareKeep PROVE FeedbackInv'
  <1> DEFINE plan == [kind |-> "keep", row |-> row, review |-> Receipt(row)]
  <1>1. row.state \in Held /\ Draft(plan) /\ made' = made /\ made \in Pictures
    BY DEF PrepareKeep, Reconcilable, FeedbackInv, PeopleTyped
  <1>2. Receipt(row) \in Reviews /\ Receipt(row).keep.of = row.image
    BY <1>1, ReceiptIs
  <1>3. plan \in Drafts
    BY <1>2 DEF FeedbackInv, RowsTyped, Drafts, KeepPlans
  <1>4. DraftFits'
    BY <1>1, <1>2 DEF DraftFits, Draft, ledger
  <1>5. plan.kind # "cleanup"
    OBVIOUS
  <1> HIDE DEF plan
  <1> QED
    BY <1>1, <1>3, <1>4, <1>5, DraftWritten

LEMMA PrepareCleanupIInv == ASSUME FeedbackInv, PrepareCleanup PROVE FeedbackInv'
  <1> DEFINE review == [Receipt(row) EXCEPT !.image = made + 1, !.clear = TRUE,
                                            !.source = source]
             plan == [kind |-> "cleanup", row |-> row, image |-> made + 1,
                      review |-> review]
  <1>1. /\ row.state \in Held /\ Draft(plan) /\ made < MaxPictures /\ made' = made + 1
    BY DEF PrepareCleanup
  <1>2. made + 1 \in Pictures /\ source \in Nat /\ row \in Rows
    BY <1>1, Numbering DEF FeedbackInv, PeopleTyped, RowsTyped
  <1>3. Receipt(row) \in Reviews /\ Receipt(row).keep.of = row.image
    BY <1>1, ReceiptIs
  <1>4. review \in Reviews /\ review.keep.of = row.image
    BY <1>2, <1>3 DEF Reviews
  <1> HIDE DEF review
  <1>5. plan \in Drafts
    BY <1>2, <1>4 DEF Drafts, CleanupPlans
  <1>6. DraftFits'
    BY <1>1, <1>4 DEF DraftFits, Draft, ledger
  <1> HIDE DEF plan
  <1> QED
    BY <1>1, <1>2, <1>5, <1>6, DraftWritten

LEMMA PrepareCorrectionIInv ==
  ASSUME FeedbackInv, NEW mode \in Modes, PrepareCorrection(mode)
  PROVE  FeedbackInv'
  <1> DEFINE plan == [kind |-> "correct", row |-> row, mode |-> mode,
                      direct |-> decisions[row.image]]
  <1>1. /\ row.state \in Queueable /\ profile = "other" /\ Draft(plan) /\ made' = made
        /\ made \in Pictures
    BY DEF PrepareCorrection, FeedbackInv, PeopleTyped
  <1>2. row \in Rows /\ decisions[row.image] \in Decisions
    BY DEF FeedbackInv, RowsTyped, Rows, PeopleTyped
  <1>3. plan \in Drafts
    BY <1>2 DEF Drafts, CorrectPlans
  <1>4. DraftFits'
    BY <1>1 DEF DraftFits, Draft, ledger
  <1>5. plan.kind # "cleanup"
    OBVIOUS
  <1> HIDE DEF plan
  <1> QED
    BY <1>1, <1>3, <1>4, <1>5, DraftWritten

-----------------------------------------------------------------------------
(* Plans applied.                                                          *)

\* Under all locks nobody but the clerk changes anything of the ledger.
LEMMA ClerkWorks ==
  ASSUME FeedbackInv, UNCHANGED <<profile, decisions, keeps, source, maker, critic>>,
         maker = Idle, critic = Idle
  PROVE  /\ KeepsKnown' /\ ClerkAlone' /\ MakerFits' /\ CriticFits'
         /\ maker' \in Makers /\ critic' \in Critics
         /\ maker.at = "idle" /\ maker'.at = "idle"
         /\ decisions' \in [Pictures -> Decisions] /\ source' \in Nat
         /\ Due \in 0..2 /\ row.attempts \in Nat /\ made \in Nat /\ deaths \in Nat
         /\ row.attempts + Due <= made + deaths
  <1>1. KeepsKnown' /\ decisions' \in [Pictures -> Decisions] /\ source' \in Nat
    BY DEF FeedbackInv, KeepsKnown, PeopleTyped
  <1>2. ClerkAlone' /\ MakerFits' /\ CriticFits' /\ maker' \in Makers /\ critic' \in Critics
    BY Idles DEF ClerkAlone, MakerFits, CriticFits
  <1>3. row.attempts \in Nat /\ made \in Nat /\ deaths \in Nat /\ Due \in 0..2
    BY Numbering, DueIs DEF FeedbackInv, PeopleTyped, RowsTyped, Rows, ActorsTyped
  <1> QED
    BY <1>1, <1>2, <1>3, Idles DEF FeedbackInv, Counted

\* The clerk has begun, and has filed nothing.
LEMMA ClerkBegins ==
  ASSUME FeedbackInv, LocksFree, NEW p, Takes(p), draft' \in {draft, Nothing},
         UNCHANGED <<profile, row, files, ticket, category, decisions, keeps, source>>,
         UNCHANGED <<maker, critic, made, deaths>>,
         clerk' \in Clerks, ClerkFits',
         p.kind = "cleanup" => draft = p /\ p # Nothing /\ draft' = Nothing
  PROVE  FeedbackInv'
  <1>1. maker = Idle /\ critic = Idle /\ clerk = Idle
    BY DEF LocksFree
  <1>2. RowsTyped' /\ FilesTyped' /\ RowFits' /\ AcceptedFits' /\ TicketFits'
    BY LedgerStays
  <1>3. PeopleTyped' /\ KeepsKnown'
    BY PeopleStay DEF FeedbackInv, PeopleTyped
  <1>4. ActorsTyped' /\ DraftFits'
    BY <1>1, Idles DEF FeedbackInv, ActorsTyped, DraftFits
  <1>5. ClerkAlone' /\ MakerFits' /\ CriticFits'
    BY <1>1, ClerkWorks
  <1>6. FiledFits'
    BY DEF FiledFits, Takes
  <1>7. Counted'
    <2> DEFINE planned == IF draft # Nothing /\ draft.kind = "cleanup" THEN 1 ELSE 0
    <2>1. Due = planned /\ planned \in 0..1
      BY <1>1 DEF Due
    <2>2. clerk'.at = p.kind /\ ~clerk'.filed
      BY DEF Takes
    <2>3. Due' <= planned /\ Due' \in Nat
      <3>1. p.kind = "cleanup" => Due' <= 1 /\ Due' \in Nat /\ planned = 1
        BY <2>2 DEF Due
      <3>2. p.kind # "cleanup" => Due' \in {0, planned}
        BY <2>2 DEF Due
      <3> QED
        BY <2>1, <3>1, <3>2
    <2> HIDE DEF planned
    <2> QED
      BY <1>1, <2>1, <2>3, ClerkWorks DEF Counted
  <1>8. WithinRoom'
    BY DEF FeedbackInv, WithinRoom, Corrected, Entered, Room, Baseline, Budget
  <1> QED
    BY <1>2, <1>3, <1>4, <1>5, <1>6, <1>7, <1>8 DEF FeedbackInv

LEMMA StartApplyIInv == ASSUME FeedbackInv, StartApply PROVE FeedbackInv'
  <1>1. /\ UNCHANGED <<profile, row, files, ticket, category, decisions, keeps, source>>
        /\ UNCHANGED <<maker, critic, made, deaths>>
        /\ LocksFree /\ draft # Nothing /\ Admits(draft) /\ Takes(draft) /\ draft' = Nothing
    BY DEF StartApply, ledger, people
  <1>2. draft \in Drafts /\ row \in Rows
    BY <1>1 DEF FeedbackInv, ActorsTyped, RowsTyped
  <1>3. clerk' = [at |-> draft.kind, plan |-> draft, filed |-> FALSE]
    BY <1>1 DEF Takes
  <1>4. CASE draft \in KeepPlans
    <2>1. draft.kind = "keep" /\ draft.review \in Reviews
      BY <1>4 DEF KeepPlans
    <2>2. AdmitsKeep(draft)
      BY <1>1, <2>1 DEF Admits
    <2>3. Witnessed(draft.review) /\ draft.review.image = row.image
      BY <2>1, <2>2, ValidIsWitnessed DEF AdmitsKeep
    <2>4. row.state \in Held /\ draft.review.keep.of = row.image
      BY <1>1, <2>1, <2>2 DEF FeedbackInv, DraftFits, AdmitsKeep
    <2>5. clerk' \in Clerks
      BY <1>3, <1>4, <2>1 DEF Clerks
    <2>6. ClerkFits'
      BY <1>1, <1>3, <2>1, <2>3, <2>4 DEF ClerkFits, Witnessed
    <2> QED
      BY <1>1, <2>1, <2>5, <2>6, ClerkBegins
  <1>5. CASE draft \in CleanupPlans
    <2>1. draft.kind = "cleanup" /\ draft.review \in Reviews
      BY <1>5 DEF CleanupPlans
    <2>2. AdmitsCleanup(draft)
      BY <1>1, <2>1 DEF Admits
    <2>3. Witnessed(draft.review) /\ draft.review.image = draft.image
      BY <2>1, <2>2, ValidIsWitnessed DEF AdmitsCleanup
    <2>4. row.state \in Held
      BY <1>1, <2>1, <2>2 DEF FeedbackInv, DraftFits, AdmitsCleanup
    <2>5. clerk' \in Clerks
      BY <1>3, <1>5, <2>1 DEF Clerks
    <2>6. ClerkFits'
      BY <1>1, <1>3, <2>1, <2>3, <2>4 DEF ClerkFits, Witnessed
    <2> QED
      BY <1>1, <2>1, <2>5, <2>6, ClerkBegins
  <1>6. CASE draft \in CorrectPlans
    <2>1. draft.kind = "correct"
      BY <1>6 DEF CorrectPlans
    <2>2. AdmitsCorrection(draft)
      BY <1>1, <2>1 DEF Admits
    <2>3. /\ ticket = Nothing /\ profile = "other" /\ row.state \in Queueable
      BY <1>1, <2>1, <2>2 DEF FeedbackInv, DraftFits, AdmitsCorrection
    <2>4. row.state \in {"rejected", "interrupted"}
      BY <2>3 DEF FeedbackInv, RowFits, Queueable, Held
    <2>5. clerk' \in Clerks
      BY <1>3, <1>6, <2>1 DEF Clerks
    <2>6. ClerkFits'
      BY <1>1, <1>3, <2>1, <2>3, <2>4 DEF ClerkFits
    <2> QED
      BY <1>1, <2>1, <2>5, <2>6, ClerkBegins
  <1> QED
    BY <1>2, <1>4, <1>5, <1>6 DEF Drafts

LEMMA StartRecipeIInv == ASSUME FeedbackInv, StartRecipe PROVE FeedbackInv'
  <1> DEFINE p == [kind |-> "execute"]
  <1>1. /\ UNCHANGED <<profile, row, files, ticket, category, decisions, keeps, source>>
        /\ UNCHANGED <<draft, maker, critic, made, deaths>>
        /\ LocksFree /\ Takes(p) /\ row.state \in Held
    BY DEF StartRecipe, ledger, people
  <1>2. clerk' = [at |-> "execute", plan |-> p, filed |-> FALSE]
    BY <1>1 DEF Takes
  <1>3. clerk' \in Clerks
    BY <1>2 DEF Clerks
  <1>4. ClerkFits'
    BY <1>1, <1>2 DEF ClerkFits
  <1>5. p.kind # "cleanup"
    OBVIOUS
  <1> QED
    BY <1>1, <1>3, <1>4, <1>5, ClerkBegins

LEMMA StartCategoryIInv == ASSUME FeedbackInv, StartCategory PROVE FeedbackInv'
  <1> DEFINE p == [kind |-> "category"]
  <1>1. /\ UNCHANGED <<profile, row, files, ticket, category, decisions, keeps, source>>
        /\ UNCHANGED <<draft, maker, critic, made, deaths>>
        /\ LocksFree /\ Takes(p) /\ profile \in Categories
    BY DEF StartCategory, ledger, people
  <1>2. clerk' = [at |-> "category", plan |-> p, filed |-> FALSE]
    BY <1>1 DEF Takes
  <1>3. clerk' \in Clerks
    BY <1>2 DEF Clerks
  <1>4. ClerkFits'
    BY <1>1, <1>2 DEF ClerkFits
  <1>5. p.kind # "cleanup"
    OBVIOUS
  <1> QED
    BY <1>1, <1>3, <1>4, <1>5, ClerkBegins

\* The states in which a clerk finds the row.
LEMMA Handled ==
  ASSUME FeedbackInv, clerk # Idle
  PROVE  /\ maker = Idle /\ critic = Idle
         /\ clerk.at # "category" => row.state \in {"rejected", "interrupted"}
         /\ clerk.filed \in BOOLEAN
         /\ clerk.at \in {"keep", "cleanup", "correct", "execute", "category"}
         /\ clerk.at = "keep" => clerk.plan \in KeepPlans
         /\ clerk.at = "cleanup" => clerk.plan \in CleanupPlans
         /\ clerk.at = "correct" => clerk.plan \in CorrectPlans
  <1>1. clerk \in Clerks
    BY DEF FeedbackInv, ActorsTyped
  <1> QED
    BY <1>1, ClerkIs DEF FeedbackInv, ClerkAlone, ClerkFits, Held

\* A picture of a plan is put behind the row's attempts.
LEMMA PlanFiled ==
  ASSUME FeedbackInv, FileAttempt, NEW f \in Attempts, f.told = Told, Brings, ~Entered(row.attempts + 1),
         clerk.at = "cleanup" => f.image = clerk.plan.image,
         files' = [files EXCEPT ![row.attempts + 1] = f],
         clerk' = [clerk EXCEPT !.filed = TRUE],
         made' \in Pictures,
         \/ clerk.at = "cleanup" /\ made' = made
         \/ made' = made + 1
  PROVE  FeedbackInv'
  <1>1. /\ UNCHANGED <<profile, row, ticket, category, decisions, keeps, source, draft>>
        /\ UNCHANGED <<maker, critic, deaths>>
        /\ clerk # Idle /\ ~clerk.filed
    BY DEF FileAttempt, people
  <1>2. /\ maker = Idle /\ critic = Idle /\ clerk.at \in {"cleanup", "correct", "execute"}
        /\ row.state \in {"rejected", "interrupted"}
    BY <1>1, Handled DEF Brings
  <1>3. row.attempts \in Numbers /\ row.attempts + 1 \in Numbers
    BY <1>2, ClerkWorks, RowNumber DEF FeedbackInv, Idle
  <1>4. /\ FilesTyped' /\ files'[row.attempts + 1] = f /\ f # Nothing
        /\ \A m \in Numbers : m # row.attempts + 1 => files'[m] = files[m]
        /\ \A m \in Numbers : Entered(m) => files'[m] = files[m]
    BY <1>3, FileIs DEF FeedbackInv, Entered
  <1>5. /\ clerk' \in Clerks /\ clerk'.at = clerk.at /\ clerk'.plan = clerk.plan
        /\ clerk'.filed /\ clerk' # Idle
    <2>1. clerk \in Clerks
      BY DEF FeedbackInv, ActorsTyped
    <2>2. CASE clerk \in [at : {"cleanup"}, plan : CleanupPlans, filed : BOOLEAN]
      BY <2>2 DEF Clerks, Idle
    <2>3. CASE clerk \in [at : {"correct"}, plan : CorrectPlans, filed : BOOLEAN]
      BY <2>3 DEF Clerks, Idle
    <2>4. CASE clerk \in [at : {"execute"}, plan : [kind : {"execute"}], filed : BOOLEAN]
      BY <2>4 DEF Clerks, Idle
    <2> QED
      BY <1>1, <1>2, <2>1, <2>2, <2>3, <2>4 DEF Clerks
  <1>6. RowsTyped' /\ PeopleTyped' /\ ActorsTyped' /\ KeepsKnown' /\ DraftFits'
    BY <1>1, <1>5, PeopleStay, DraftStays DEF FeedbackInv, RowsTyped, PeopleTyped, ActorsTyped
  <1>7. ClerkAlone' /\ MakerFits' /\ CriticFits'
    BY <1>1, <1>2, ClerkWorks
  <1>8. RowFits' /\ AcceptedFits' /\ TicketFits'
    <2>1. ticket # Nothing => ticket.row.attempts \in Numbers
      BY DEF FeedbackInv, RowsTyped, Tickets, Rows
    <2>2. ticket # Nothing /\ Newest(ticket.row) => Newest(ticket.row)'
      BY <1>1, <1>4, <2>1 DEF Newest, Entered
    <2>3. Newest(row) => Newest(row)'
      BY <1>1, <1>3, <1>4 DEF Newest, Entered
    <2> QED
      BY <1>1, <1>2, <2>2, <2>3 DEF FeedbackInv, RowFits, AcceptedFits, TicketFits
  <1>9. ClerkFits'
    BY <1>1, <1>5 DEF FeedbackInv, ClerkFits, Witnessed
  <1>10. Brings' /\ Told' = Told
    BY <1>5 DEF Brings, Told
  <1>11. FiledFits'
    BY <1>1, <1>4, <1>5, <1>10 DEF FiledFits, Entered
  <1>12. WithinRoom'
    <2>1. Corrected(row.attempts + 1)' => ticket = Nothing
      <3>1. Corrected(row.attempts + 1)' => Told = "after"
        BY <1>1, <1>4 DEF Corrected
      <3>2. Told = "after" => clerk.at = "correct"
        BY <1>2 DEF Told
      <3> QED
        BY <3>1, <3>2 DEF FeedbackInv, ClerkFits
    <2>2. \A n \in Numbers : n # row.attempts + 1 => (Corrected(n)' <=> Corrected(n))
      BY <1>4 DEF Corrected, Entered
    <2>3. Room' = Room
      BY <1>1 DEF Room, Baseline, Budget
    <2> QED
      BY <1>1, <1>2, <2>1, <2>2, <2>3, Idles DEF FeedbackInv, WithinRoom
  <1>13. Counted'
    <2> DEFINE planned == IF draft # Nothing /\ draft.kind = "cleanup" THEN 1 ELSE 0
    <2>1. planned \in 0..1 /\ Due' = planned + 1
      BY <1>1, <1>5 DEF Due
    <2>2. Due = planned + (IF clerk.at = "cleanup" THEN 1 ELSE 0)
      BY <1>1 DEF Due
    <2> HIDE DEF planned
    <2> QED
      BY <1>1, <1>2, <2>1, <2>2, ClerkWorks DEF Counted
  <1> QED
    BY <1>4, <1>6, <1>7, <1>8, <1>9, <1>11, <1>12, <1>13 DEF FeedbackInv

\* The clerk is done, or dead, and leaves the row as it is.
LEMMA ClerkLeaves ==
  ASSUME FeedbackInv, clerk # Idle, clerk' = Idle,
         UNCHANGED <<profile, row, files, ticket, decisions, keeps, source, draft>>,
         UNCHANGED <<maker, critic, made>>,
         deaths' \in 0..MaxDeaths, deaths' >= deaths,
         category' = category \/ profile \in Categories
  PROVE  FeedbackInv'
  <1>1. maker = Idle /\ critic = Idle
    BY Handled
  <1>2. RowsTyped' /\ FilesTyped' /\ RowFits' /\ AcceptedFits'
    BY DEF FeedbackInv, RowsTyped, FilesTyped, RowFits, AcceptedFits, Newest, Entered, Witnessed
  <1>3. TicketFits'
    BY DEF FeedbackInv, TicketFits, Newest, Entered
  <1>4. PeopleTyped' /\ KeepsKnown'
    BY PeopleStay DEF FeedbackInv, PeopleTyped
  <1>5. ActorsTyped' /\ DraftFits'
    BY <1>1, Idles, DraftStays DEF ActorsTyped
  <1>6. ClerkAlone' /\ ClerkFits' /\ FiledFits' /\ Due' \in 0..2 /\ Due' <= Due
    BY NoClerk
  <1>7. MakerFits' /\ CriticFits'
    BY <1>1, ClerkWorks
  <1>8. Counted'
    <2>1. deaths' \in Nat
      BY Numbering
    <2> QED
      BY <1>1, <1>6, <2>1, ClerkWorks DEF Counted
  <1>9. WithinRoom'
    BY DEF FeedbackInv, WithinRoom, Corrected, Entered, Room, Baseline, Budget
  <1> QED
    BY <1>2, <1>3, <1>4, <1>5, <1>6, <1>7, <1>8, <1>9 DEF FeedbackInv

LEMMA FileAttemptIInv == ASSUME FeedbackInv, FileAttempt PROVE FeedbackInv'
  <1>1. /\ UNCHANGED <<profile, row, ticket, category, decisions, keeps, source, draft>>
        /\ UNCHANGED <<maker, critic, deaths>>
        /\ clerk # Idle /\ Brings
    BY DEF FileAttempt, people
  <1>2. /\ made \in Pictures /\ source \in Nat /\ deaths \in 0..MaxDeaths
        /\ clerk.at \in {"cleanup", "correct", "execute"}
    BY <1>1 DEF FeedbackInv, PeopleTyped, Brings
  <1>3. CASE clerk' = Idle /\ UNCHANGED <<files, made>>
    <2>1. deaths' >= deaths
      BY <1>1, <1>2, Numbering
    <2> QED
      BY <1>1, <1>2, <1>3, <2>1, ClerkLeaves
  <1>4. CASE /\ ~Entered(row.attempts + 1) /\ clerk' = [clerk EXCEPT !.filed = TRUE]
             /\ clerk.at = "cleanup" /\ made' = made
             /\ files' = [files EXCEPT ![row.attempts + 1] =
                            [image |-> clerk.plan.image, told |-> Told,
                             source |-> clerk.plan.review.source]]
    <2> DEFINE f == [image |-> clerk.plan.image, told |-> Told,
                     source |-> clerk.plan.review.source]
    <2>1. clerk.plan \in CleanupPlans
      BY <1>1, <1>4, Handled
    <2>2. clerk.plan.image \in Pictures /\ clerk.plan.review.source \in Nat
      BY <2>1 DEF CleanupPlans, Reviews
    <2>3. Told = "cleanup"
      BY <1>4 DEF Told
    <2>4. f \in Attempts /\ f.told = Told /\ f.image = clerk.plan.image
      BY <2>2, <2>3 DEF Attempts
    <2>5. files' = [files EXCEPT ![row.attempts + 1] = f]
      BY <1>4
    <2> HIDE DEF f
    <2> QED
      BY <1>1, <1>2, <1>4, <2>4, <2>5, PlanFiled
  <1>5. CASE /\ ~Entered(row.attempts + 1) /\ clerk' = [clerk EXCEPT !.filed = TRUE]
             /\ clerk.at # "cleanup" /\ made < MaxPictures
             /\ File(row.attempts + 1, Told, source)
    <2> DEFINE f == [image |-> made + 1, told |-> Told, source |-> source]
    <2>1. made' = made + 1 /\ made' \in Pictures
      BY <1>2, <1>5, Numbering DEF File
    <2>2. Told \in {"after", "execute"}
      BY <1>2, <1>5 DEF Told
    <2>3. f \in Attempts /\ f.told = Told
      BY <1>2, <2>1, <2>2 DEF Attempts
    <2>4. files' = [files EXCEPT ![row.attempts + 1] = f]
      BY <1>5 DEF File
    <2> HIDE DEF f
    <2> QED
      BY <1>1, <1>5, <2>1, <2>3, <2>4, PlanFiled
  <1> QED
    BY <1>3, <1>4, <1>5 DEF FileAttempt, Free, Next1, Entered

LEMMA ClerkDiesIInv == ASSUME FeedbackInv, ClerkDies PROVE FeedbackInv'
  <1>1. /\ UNCHANGED <<profile, row, files, ticket, category, decisions, keeps, source, draft>>
        /\ UNCHANGED <<maker, critic, made>>
        /\ clerk # Idle /\ clerk' = Idle
        /\ deaths < MaxDeaths /\ deaths' = deaths + 1
    BY DEF ClerkDies, ledger, people
  <1>2. deaths' \in 0..MaxDeaths /\ deaths' >= deaths
    BY <1>1, Numbering DEF FeedbackInv, PeopleTyped
  <1> QED
    BY <1>1, <1>2, ClerkLeaves

LEMMA CommitCategoryIInv == ASSUME FeedbackInv, CommitCategory PROVE FeedbackInv'
  <1>1. /\ UNCHANGED <<profile, row, files, ticket, decisions, keeps, source, draft>>
        /\ UNCHANGED <<maker, critic, made, deaths>>
        /\ clerk.at = "category" /\ clerk' = Idle
    BY DEF CommitCategory, Commits, people
  <1>2. clerk # Idle /\ profile \in Categories
    BY <1>1, Actors DEF FeedbackInv, ClerkFits
  <1>3. deaths' \in 0..MaxDeaths /\ deaths' >= deaths
    BY <1>1, Numbering DEF FeedbackInv, PeopleTyped
  <1> QED
    BY <1>1, <1>2, <1>3, ClerkLeaves

\* A plan is committed: the row has changed, and what the plan brought is
\* its newest attempt.
LEMMA Committed ==
  ASSUME FeedbackInv, clerk # Idle, clerk' = Idle,
         UNCHANGED <<profile, files, category, decisions, keeps, source, draft>>,
         UNCHANGED <<maker, critic, made, deaths>>,
         RowsTyped', RowFits', AcceptedFits', TicketFits', WithinRoom',
         \/ row'.attempts = row.attempts
         \/ row'.attempts = row.attempts + 1 /\ clerk.filed
  PROVE  FeedbackInv'
  <1>1. maker = Idle /\ critic = Idle
    BY Handled
  <1>2. FilesTyped' /\ PeopleTyped' /\ KeepsKnown'
    BY PeopleStay DEF FeedbackInv, FilesTyped, PeopleTyped
  <1>3. ActorsTyped' /\ DraftFits'
    BY <1>1, Idles, DraftStays DEF ActorsTyped
  <1>4. /\ ClerkAlone' /\ ClerkFits' /\ FiledFits' /\ Due' \in 0..2 /\ Due' <= Due
        /\ clerk.filed => Due' <= Due - 1
    BY NoClerk
  <1>5. MakerFits' /\ CriticFits'
    BY <1>1, ClerkWorks
  <1>6. Counted'
    BY <1>1, <1>4, ClerkWorks DEF Counted
  <1> QED
    BY <1>2, <1>3, <1>4, <1>5, <1>6 DEF FeedbackInv

LEMMA CommitKeepIInv == ASSUME FeedbackInv, CommitKeep PROVE FeedbackInv'
  <1>1. /\ UNCHANGED <<profile, files, ticket, category, decisions, keeps, source, draft>>
        /\ UNCHANGED <<maker, critic, made, deaths>>
        /\ clerk.at = "keep" /\ clerk' = Idle
        /\ row' = [row EXCEPT !.state = "accepted", !.review = clerk.plan.review]
    BY DEF CommitKeep, Commits, people
  <1>2. /\ clerk # Idle /\ maker = Idle /\ clerk.plan.review \in Reviews /\ row \in Rows
    BY <1>1, Actors, Handled DEF FeedbackInv, RowsTyped, KeepPlans
  <1>3. /\ row.state \in Held /\ clerk.plan.review.image = row.image
        /\ clerk.plan.review.keep.of = row.image /\ Witnessed(clerk.plan.review)
    BY <1>1 DEF FeedbackInv, ClerkFits
  <1>4. /\ row' \in Rows /\ row'.state = "accepted" /\ row'.attempts = row.attempts
        /\ row'.image = row.image /\ row'.review = clerk.plan.review
    BY <1>1, <1>2 DEF Rows, States
  <1>5. RowsTyped' /\ TicketFits'
    BY <1>1, <1>4 DEF FeedbackInv, RowsTyped, TicketFits, Newest, Entered
  <1>6. RowFits'
    BY <1>1, <1>2, <1>3, <1>4 DEF FeedbackInv, RowFits, Held, Newest, Entered
  <1>7. AcceptedFits'
    BY <1>1, <1>3, <1>4 DEF AcceptedFits, Witnessed
  <1>8. WithinRoom'
    BY <1>1, <1>4 DEF FeedbackInv, WithinRoom, Corrected, Entered, Room, Baseline, Budget
  <1> QED
    BY <1>1, <1>2, <1>4, <1>5, <1>6, <1>7, <1>8, Committed

\* The row that a plan with a picture of its own leaves.
LEMMA FiledIs ==
  ASSUME FeedbackInv, clerk # Idle, Brings, clerk.filed,
         NEW state \in {"accepted", "generated"}, NEW review \in {Nothing} \cup Reviews
  PROVE  /\ Filed(state, review) \in Rows
         /\ Filed(state, review).state = state /\ Filed(state, review).review = review
         /\ Filed(state, review).attempts = row.attempts + 1
         /\ Filed(state, review).image = files[row.attempts + 1].image
         /\ Filed(state, review).asks = row.asks
         /\ row.attempts \in Numbers /\ row.attempts + 1 \in Numbers
         /\ Entered(row.attempts + 1)
  <1>1. Entered(row.attempts + 1) /\ row \in Rows
    BY DEF FeedbackInv, FiledFits, RowsTyped
  <1>2. row.attempts \in Numbers /\ row.attempts + 1 \in Numbers
    BY Handled, ClerkWorks, RowNumber DEF FeedbackInv, Idle
  <1>3. files[row.attempts + 1].image \in Pictures
    BY <1>1, <1>2 DEF FeedbackInv, FilesTyped, Entered, Attempts
  <1> QED
    BY <1>1, <1>2, <1>3 DEF Filed, Rows, States

LEMMA CommitCleanupIInv == ASSUME FeedbackInv, CommitCleanup PROVE FeedbackInv'
  <1>1. /\ UNCHANGED <<profile, files, ticket, category, decisions, keeps, source, draft>>
        /\ UNCHANGED <<maker, critic, made, deaths>>
        /\ clerk.at = "cleanup" /\ clerk' = Idle /\ Brings /\ clerk.filed
        /\ row' = Filed("accepted", clerk.plan.review)
    BY DEF CommitCleanup, Commits, people, Brings
  <1>2. /\ clerk # Idle /\ maker = Idle /\ maker.at = "idle" /\ clerk.plan.review \in Reviews
    BY <1>1, Actors, Handled DEF CleanupPlans
  <1>3. /\ clerk.plan.review.image = clerk.plan.image /\ Witnessed(clerk.plan.review)
    BY <1>1 DEF FeedbackInv, ClerkFits
  <1>4. /\ files[row.attempts + 1].told = "cleanup"
        /\ files[row.attempts + 1].image = clerk.plan.image
    BY <1>1, <1>2 DEF FeedbackInv, FiledFits, Told
  <1>5. /\ row' \in Rows /\ row'.state = "accepted" /\ row'.attempts = row.attempts + 1
        /\ row'.image = files[row.attempts + 1].image /\ row'.review = clerk.plan.review
        /\ row.attempts + 1 \in Numbers /\ Entered(row.attempts + 1)
    BY <1>1, <1>2, FiledIs
  <1>6. RowsTyped' /\ TicketFits'
    BY <1>1, <1>5 DEF FeedbackInv, RowsTyped, TicketFits, Newest, Entered
  <1>7. RowFits'
    BY <1>1, <1>2, <1>5 DEF RowFits, Newest, Entered
  <1>8. AcceptedFits'
    BY <1>1, <1>3, <1>4, <1>5 DEF AcceptedFits, Witnessed
  <1>9. WithinRoom'
    <2>1. ~Corrected(row.attempts + 1)
      BY <1>4 DEF Corrected
    <2> QED
      BY <1>1, <1>2, <1>5, <2>1 DEF FeedbackInv, WithinRoom, Corrected, Entered, Room, Baseline, Budget
  <1> QED
    BY <1>1, <1>2, <1>5, <1>6, <1>7, <1>8, <1>9, Committed

LEMMA CommitRecipeIInv == ASSUME FeedbackInv, CommitRecipe PROVE FeedbackInv'
  <1>1. /\ UNCHANGED <<profile, files, ticket, category, decisions, keeps, source, draft>>
        /\ UNCHANGED <<maker, critic, made, deaths>>
        /\ clerk.at = "execute" /\ clerk' = Idle /\ Brings /\ clerk.filed
        /\ row' = Filed("generated", Nothing)
    BY DEF CommitRecipe, Commits, people, Brings
  <1>2. clerk # Idle /\ maker = Idle /\ maker.at = "idle"
    BY <1>1, Actors, Handled
  <1>3. files[row.attempts + 1].told = "execute"
    BY <1>1, <1>2 DEF FeedbackInv, FiledFits, Told
  <1>4. /\ row' \in Rows /\ row'.state = "generated" /\ row'.attempts = row.attempts + 1
        /\ row'.image = files[row.attempts + 1].image
        /\ row.attempts + 1 \in Numbers /\ Entered(row.attempts + 1)
    BY <1>1, <1>2, FiledIs
  <1>5. RowsTyped' /\ TicketFits'
    BY <1>1, <1>4 DEF FeedbackInv, RowsTyped, TicketFits, Newest, Entered
  <1>6. RowFits' /\ AcceptedFits'
    BY <1>1, <1>4 DEF RowFits, AcceptedFits, Newest, Entered
  <1>7. WithinRoom'
    <2>1. ~Corrected(row.attempts + 1)
      BY <1>3 DEF Corrected
    <2> QED
      BY <1>1, <1>2, <1>4, <2>1 DEF FeedbackInv, WithinRoom, Corrected, Entered, Room, Baseline, Budget
  <1> QED
    BY <1>1, <1>2, <1>4, <1>5, <1>6, <1>7, Committed

LEMMA CommitCorrectionIInv == ASSUME FeedbackInv, CommitCorrection PROVE FeedbackInv'
  <1>1. /\ UNCHANGED <<profile, files, category, decisions, keeps, source, draft>>
        /\ UNCHANGED <<maker, critic, made, deaths>>
        /\ clerk.at = "correct" /\ clerk' = Idle /\ (Brings => clerk.filed)
        /\ ticket' = [active |-> TRUE, row |-> row, mode |-> clerk.plan.mode]
    BY DEF CommitCorrection, Commits, people
  <1>2. /\ clerk # Idle /\ maker = Idle /\ maker.at = "idle" /\ clerk.plan.mode \in Modes
        /\ row \in Rows
    BY <1>1, Actors, Handled DEF FeedbackInv, RowsTyped, CorrectPlans
  <1>3. /\ ticket = Nothing /\ profile = "other" /\ row.state \in {"rejected", "interrupted"}
    BY <1>1 DEF FeedbackInv, ClerkFits
  <1>4. /\ ticket' \in Tickets /\ ticket' # Nothing /\ ticket'.row = row
        /\ ticket'.mode \in Modes
    <2>1. ticket' \in Tickets
      BY <1>1, <1>2 DEF Tickets
    <2> QED
      BY <1>1, <1>2, <2>1, NothingIsNothingElse
  <1>5. /\ row' \in Rows
        /\ \/ row'.state = "pending" /\ row'.attempts = row.attempts
           \/ /\ row'.state = "generated" /\ row'.attempts = row.attempts + 1
              /\ row'.image = files[row.attempts + 1].image
              /\ clerk.filed /\ Entered(row.attempts + 1)
    <2>1. CASE Brings
      <3> DEFINE r == Filed("generated", Nothing)
      <3>1. /\ r \in Rows /\ r.state = "generated" /\ r.attempts = row.attempts + 1
            /\ r.image = files[row.attempts + 1].image /\ Entered(row.attempts + 1)
        BY <1>1, <1>2, <2>1, FiledIs
      <3>2. row' = [r EXCEPT !.asks = "after"]
        BY <2>1 DEF CommitCorrection
      <3> HIDE DEF r
      <3> QED
        BY <1>1, <2>1, <3>1, <3>2 DEF Rows
    <2>2. CASE ~Brings
      <3>1. row' = [[row EXCEPT !.state = "pending", !.review = Nothing]
                    EXCEPT !.asks = "after"]
        BY <2>2 DEF CommitCorrection
      <3> QED
        BY <1>2, <3>1 DEF Rows, States
    <2> QED
      BY <2>1, <2>2
  <1>6. RowsTyped'
    BY <1>4, <1>5 DEF RowsTyped
  <1>7. RowFits' /\ AcceptedFits'
    BY <1>1, <1>4, <1>5 DEF RowFits, AcceptedFits, Newest, Entered
  <1>8. TicketFits'
    <2>1. row.state = "rejected" => Newest(row) /\ row.review \in Reviews
      BY DEF FeedbackInv, RowFits
    <2> QED
      BY <1>1, <1>3, <1>4, <2>1 DEF FeedbackInv, TicketFits, Newest, Entered
  <1>9. WithinRoom'
    <2>1. Baseline' = row.attempts /\ Budget' \in Nat /\ Budget' >= 1
      BY <1>4, Numbering DEF Baseline, Budget
    <2>2. row.attempts \in Nat
      BY <1>2, Numbering DEF Rows
    <2>3. row.attempts + 1 \in Room'
      BY <2>1, <2>2 DEF Room
    <2>4. \A n \in Numbers : Corrected(n)' => n = row.attempts + 1
      BY <1>1, <1>3 DEF FeedbackInv, WithinRoom, Corrected, Entered
    <2> QED
      BY <1>1, <1>2, <1>4, <2>3, <2>4 DEF WithinRoom
  <1> QED
    BY <1>1, <1>2, <1>5, <1>6, <1>7, <1>8, <1>9, Committed

LEMMA RollBackIInv == ASSUME FeedbackInv, RollBack PROVE FeedbackInv'
  <1>1. /\ UNCHANGED <<profile, files, category, decisions, keeps, source, draft>>
        /\ UNCHANGED <<maker, critic, clerk, made, deaths>>
        /\ maker = Idle /\ critic = Idle /\ clerk = Idle
        /\ ticket # Nothing /\ row.attempts = ticket.row.attempts
        /\ row.image = ticket.row.image
        /\ row' = Restored /\ ticket' = [ticket EXCEPT !.active = FALSE]
    BY DEF RollBack, LocksFree, Untouched, people
  <1>2. ticket \in Tickets /\ row \in Rows
    BY <1>1 DEF FeedbackInv, RowsTyped
  <1>3. ticket.row \in Rows
    BY <1>2 DEF Tickets
  <1>4. /\ row' \in Rows /\ row'.attempts = row.attempts /\ row'.image = row.image
        /\ row'.state = ticket.row.state /\ row'.review = ticket.row.review
    BY <1>1, <1>2, <1>3 DEF Restored, Rows
  <1>5. /\ ticket' \in Tickets /\ ticket' # Nothing /\ ticket'.row = ticket.row
        /\ ticket'.mode = ticket.mode
    BY <1>1, <1>2, NothingIsNothingElse DEF Tickets
  <1>6. /\ profile = "other" /\ row'.state \in {"rejected", "interrupted"}
        /\ row'.state = "rejected" => Newest(ticket.row) /\ ticket.row.review \in Reviews
    BY <1>1, <1>4 DEF FeedbackInv, TicketFits
  <1>7. RowsTyped' /\ FilesTyped' /\ PeopleTyped' /\ ActorsTyped' /\ KeepsKnown' /\ DraftFits'
    BY <1>1, <1>4, <1>5, PeopleStay, DraftStays
    DEF FeedbackInv, RowsTyped, FilesTyped, PeopleTyped, ActorsTyped
  <1>8. ClerkAlone' /\ ClerkFits' /\ FiledFits' /\ Due' \in 0..2 /\ Due' <= Due
    BY <1>1, NoClerk
  <1>9. MakerFits' /\ CriticFits'
    BY <1>1, ClerkWorks
  <1>10. Counted'
    BY <1>1, <1>4, <1>8, ClerkWorks DEF Counted
  <1>11. RowFits' /\ AcceptedFits' /\ TicketFits'
    <2>1. RowFits' /\ AcceptedFits'
      BY <1>1, <1>4, <1>6 DEF RowFits, AcceptedFits, Newest, Entered
    <2> QED
      BY <1>1, <1>5, <2>1 DEF FeedbackInv, TicketFits, Newest, Entered
  <1>12. WithinRoom'
    <2>1. Room' = Room
      BY <1>5 DEF Room, Baseline, Budget
    <2> QED
      BY <1>1, <1>5, <2>1, ClerkWorks DEF FeedbackInv, WithinRoom, Corrected, Entered
  <1> QED
    BY <1>7, <1>8, <1>9, <1>10, <1>11, <1>12 DEF FeedbackInv

-----------------------------------------------------------------------------
(* The theorems.                                                           *)

LEMMA StutterIInv == ASSUME FeedbackInv, UNCHANGED feedbackVars PROVE FeedbackInv'
  <1>1. /\ UNCHANGED <<profile, row, files, ticket, category, decisions, keeps, source>>
        /\ UNCHANGED <<draft, maker, critic, clerk, made, deaths>>
    BY DEF feedbackVars, ledger, people
  <1>2. PeopleTyped' /\ KeepsKnown'
    BY <1>1, PeopleStay DEF FeedbackInv, PeopleTyped
  <1>3. Counted'
    BY <1>1, ActorsStay DEF FeedbackInv, Counted
  <1> QED
    BY <1>1, <1>2, <1>3, LedgerStays, ActorsStay DEF FeedbackInv

LEMMA NextKeepsFeedbackInv == ASSUME FeedbackInv, FeedbackNext PROVE FeedbackInv'
  <1>1. ASSUME NEW i \in 1..made, NEW choice \in Answers, Save(i, choice) PROVE FeedbackInv'
    BY <1>1, SaveIInv
  <1>2. CASE RepairSource
    BY <1>2, RepairSourceIInv
  <1>3. CASE Generate
    BY <1>3, StartGenerateIInv, PlanAttemptIInv, BeginAttemptIInv, LinkAttemptIInv,
       RecordAttemptIInv, FailAttemptIInv, MakerDiesIInv DEF Generate
  <1>4. CASE Review
    <2>1. ASSUME NEW answer \in Held \cup {"accepted"}, NEW clear \in BOOLEAN,
                 EndReview(answer, clear)
          PROVE  FeedbackInv'
      BY <2>1, EndReviewIInv
    <2>2. ASSUME NEW answer \in {"pass", "fail"}, EndAudit(answer) PROVE FeedbackInv'
      BY <2>2, EndAuditIInv
    <2> QED
      BY <1>4, <2>1, <2>2, StartReviewIInv, StartAuditIInv, AuditKeepsIInv, CriticDiesIInv
      DEF Review
  <1>5. CASE Prepare
    <2>1. ASSUME NEW mode \in Modes, PrepareCorrection(mode) PROVE FeedbackInv'
      BY <2>1, PrepareCorrectionIInv
    <2> QED
      BY <1>5, <2>1, PrepareKeepIInv, PrepareCleanupIInv DEF Prepare
  <1>6. CASE Apply
    BY <1>6, StartApplyIInv, StartRecipeIInv, StartCategoryIInv, FileAttemptIInv,
       CommitKeepIInv, CommitCleanupIInv, CommitRecipeIInv, CommitCorrectionIInv,
       CommitCategoryIInv, ClerkDiesIInv, RollBackIInv
    DEF Apply
  <1> QED
    BY <1>1, <1>2, <1>3, <1>4, <1>5, <1>6 DEF FeedbackNext

\* The inductive invariant: everything of a known kind; attempts accounted
\* for by pictures and deaths; whoever is at work finds the row as it left
\* it; and what corrections rendered lies in their room.
THEOREM FeedbackInvariance == FeedbackSpec => []FeedbackInv
  <1>1. FeedbackInv /\ [FeedbackNext]_feedbackVars => FeedbackInv'
    BY NextKeepsFeedbackInv, StutterIInv
  <1> QED
    BY InitFeedbackInv, <1>1, PTL DEF FeedbackSpec

\* A correction renders no more attempts than it was given
\* (feedback_reprocessing.py, generation_input), whatever is applied, undone
\* or dies.
THEOREM CorrectionsKeepTheirBudget == FeedbackSpec => []CorrectedWithinBudget
  <1>1. FeedbackInv => CorrectedWithinBudget
    <2> SUFFICES ASSUME FeedbackInv PROVE CorrectedWithinBudget
      OBVIOUS
    <2> DEFINE S == {n \in Numbers : files[n] # Nothing /\ files[n].told = "after"}
    <2>1. row.attempts \in Nat /\ \A n \in S : n \in Numbers /\ Corrected(n)
      BY Numbering DEF FeedbackInv, RowsTyped, Rows, Corrected, Entered
    <2>2. CASE ticket = Nothing
      <3>1. S \subseteq {row.attempts + 1}
        BY <2>1, <2>2 DEF FeedbackInv, WithinRoom
      <3>2. IsFiniteSet({row.attempts + 1}) /\ Cardinality({row.attempts + 1}) = 1
        BY FS_Singleton
      <3>3. Cardinality(S) <= 1
        BY <3>1, <3>2, FS_Subset
      <3> QED
        BY <2>2, <3>3 DEF CorrectedWithinBudget
    <2>3. CASE ticket # Nothing
      <3>1. Baseline \in Nat /\ Budget \in Nat
        BY <2>3, Numbering DEF FeedbackInv, RowsTyped, Tickets, Rows, Baseline, Budget
      <3>2. S \subseteq Baseline + 1 .. Baseline + Budget
        BY <2>1, <2>3 DEF FeedbackInv, WithinRoom, Room
      <3>3. \A a, b \in Nat : IsFiniteSet(a + 1 .. a + b) /\ Cardinality(a + 1 .. a + b) = b
        <4> SUFFICES ASSUME NEW a \in Nat, NEW b \in Nat
                     PROVE  IsFiniteSet(a + 1 .. a + b) /\ Cardinality(a + 1 .. a + b) = b
          OBVIOUS
        <4>1. a + 1 \in Int /\ a + b \in Int
          OBVIOUS
        <4>2. /\ IsFiniteSet(a + 1 .. a + b)
              /\ Cardinality(a + 1 .. a + b) =
                   IF a + 1 > a + b THEN 0 ELSE a + b - (a + 1) + 1
          BY <4>1, FS_Interval
        <4> QED
          BY <4>2
      <3>4. /\ IsFiniteSet(Baseline + 1 .. Baseline + Budget)
            /\ Cardinality(Baseline + 1 .. Baseline + Budget) = Budget
        BY <3>1, <3>3
      <3>5. Cardinality(S) <= Budget
        BY <3>2, <3>4, FS_Subset
      <3> QED
        BY <2>3, <3>5 DEF CorrectedWithinBudget
    <2> QED
      BY <2>2, <2>3
  <1> QED
    BY FeedbackInvariance, <1>1, PTL

\* What is accepted is the newest picture on disk, reviewed as it is, and
\* where a person accepted it, that person had kept it, or what it was
\* cleaned from (human_keep_acceptance.py).
THEOREM AcceptedWasSeen == FeedbackSpec => []AcceptedIsWhatWasSeen
  <1>1. FeedbackInv => AcceptedIsWhatWasSeen
    BY DEF FeedbackInv, RowFits, AcceptedFits, Newest, Entered, Witnessed, AcceptedIsWhatWasSeen
  <1> QED
    BY FeedbackInvariance, <1>1, PTL

\* A Keep that stands is ended by people only; riser audits and a generator
\* that had planned the row already are the exceptions.
THEOREM StandingKeepsStay == FeedbackSpec => KeepsStand
  <1> DEFINE Unthreatened == /\ Standing(row) /\ maker.at \notin {"planned", "queued"}
                             /\ profile # "monitor-riser"
  <1>1. FeedbackInv /\ [FeedbackNext]_feedbackVars => (Unthreatened => row' = row)
    <2> SUFFICES ASSUME FeedbackInv, FeedbackNext, Unthreatened PROVE row' = row
      BY DEF feedbackVars, ledger
    <2>1. /\ row.state = "accepted" /\ row.review.keep # Nothing
          /\ row.review \in Reviews
          /\ decisions[row.review.keep.of].choice = "keep"
      <3>1. row.state = "accepted" /\ Valid(row.image, row.review)
        BY DEF Standing
      <3> QED
        BY <3>1 DEF Valid, FeedbackInv, RowFits
    <2>2. IsKept(row)
      BY <2>1, NothingIsNothingElse DEF IsKept, KeptPicture
    <2>3. clerk # Idle => clerk.at = "category"
      BY <2>1, Handled
    <2>4. ASSUME NEW i \in 1..made, NEW choice \in Answers, Save(i, choice) PROVE row' = row
      BY <2>4 DEF Save, ledger
    <2>5. CASE RepairSource
      BY <2>5 DEF RepairSource, ledger
    <2>6. CASE Generate
      <3>1. ASSUME StartGenerate PROVE row' = row
        BY <2>1, <3>1 DEF StartGenerate, SourceChanged
      <3>2. ~BeginAttempt
        BY DEF BeginAttempt
      <3>3. maker.at # "rendering" /\ maker.at # "linked"
        BY <2>1 DEF FeedbackInv, MakerFits
      <3> QED
        BY <2>6, <3>1, <3>2, <3>3
        DEF Generate, PlanAttempt, LinkAttempt, RecordAttempt, FailAttempt, MakerDies, ledger
    <2>7. CASE Review
      <3>1. critic.at # "looking" /\ ~StartReview
        BY <2>1 DEF FeedbackInv, CriticFits, StartReview
      <3>2. ASSUME AuditKeeps PROVE row' = row
        BY <2>1, <3>2 DEF FeedbackInv, CriticFits, AuditKeeps, Unmoved, Held
      <3>3. ASSUME NEW answer \in {"pass", "fail"}, EndAudit(answer) PROVE row' = row
        <4>1. critic.at = "inspecting"
          BY <3>3 DEF EndAudit
        <4>2. profile = "shoe-bench"
          BY <4>1 DEF FeedbackInv, CriticFits, Categories
        <4> QED
          BY <2>2, <3>3, <4>2 DEF EndAudit, Bench
      <3> QED
        BY <2>7, <3>1, <3>2, <3>3 DEF Review, EndReview, StartAudit, CriticDies, ledger
    <2>8. CASE Prepare
      BY <2>8 DEF Prepare, PrepareKeep, PrepareCleanup, PrepareCorrection, Draft, ledger
    <2>9. CASE Apply
      <3>1. /\ clerk.at \in {"idle", "category"}
        BY <2>3, Actors
      <3>2. ~RollBack
        BY <2>1 DEF RollBack, Untouched
      <3> QED
        BY <2>9, <3>1, <3>2
        DEF Apply, StartApply, StartRecipe, StartCategory, FileAttempt, CommitKeep,
            CommitCleanup, CommitRecipe, CommitCorrection, CommitCategory, Commits,
            ClerkDies, ledger
    <2> QED
      BY <2>4, <2>5, <2>6, <2>7, <2>8, <2>9 DEF FeedbackNext
  <1> QED
    BY FeedbackInvariance, <1>1, PTL DEF FeedbackSpec, KeepsStand

-----------------------------------------------------------------------------
(* The earlier generators (GenerationRun).                                 *)

Spots == {"idle", "pin", "pinning", "scan", "listing", "child", "take", "draw",
          "record", "audit"}
Generators == [at : Spots, request : {0} \cup Versions, todo : SUBSET Jobs,
            job : Jobs \cup {Absent}, failed : BOOLEAN, last : BOOLEAN,
            orphan : BOOLEAN]
Syncs == [at : {"idle", "import", "save"}, batch : SUBSET Jobs]

\* Generators that meet are of one kind, or all of them link approved
\* pictures; those without a lock have parts of their own.
TeamFits ==
    /\ kind \in [Runners -> Kinds] /\ part \in [Runners -> SUBSET Jobs]
    /\ Alike \/ \A p \in Runners : kind[p] \in {Reference, Gallery, Bulk}
    /\ \A p, q \in Runners : Ranges(kind[p]) /\ p # q => part[p] \cap part[q] = {}
    /\ \A p \in Runners : ~Ranges(kind[p]) => part[p] = Jobs

InputsTyped == input \in Versions /\ refs \in Versions /\ verdict \in Audited
LogTyped ==
    /\ media \in [Jobs -> Nat] /\ drawn \in [Jobs -> Nat]
    /\ recorded \in [Jobs -> {Absent} \cup Records] /\ times \in [Jobs -> Nat]
    /\ pinned \in {Absent} \cup Descriptors
ProcsTyped ==
    /\ holder \in [Locks -> Runners \cup {Absent}]
    /\ proc \in [Runners -> Generators]
SyncTyped == sync \in Syncs /\ attached \in [Jobs -> Nat] /\ listed \subseteq Jobs

Started ==
    \A p \in Runners :
        /\ IF proc[p].at = "idle" THEN proc[p].todo = {}
           ELSE proc[p].request \in Versions
        /\ proc[p].at \in {"listing", "child", "audit"} => kind[p] = Bulk
        /\ proc[p].at = "draw" => Draws(p)

\* What a generator has before it, and the job it is at, are of its part.
OwnJobs ==
    \A p \in Runners :
        /\ proc[p].todo \subseteq part[p]
        /\ proc[p].at \in {"draw", "record"} => proc[p].job \in part[p] \ proc[p].todo

\* Only the bulk workflow can lose the lock it started with.
Locked ==
    \A p \in Runners :
        proc[p].at # "idle" /\ kind[p] # Bulk /\ kind[p].lock # Absent =>
            holder[kind[p].lock] = p

\* Records are counted, and nothing but a text is recorded without a picture.
HasRecord(j) == recorded[j] # Absent
RecordsFit ==
    \A j \in Jobs :
        /\ times[j] = 0 <=> ~HasRecord(j)
        /\ (\A p \in Runners : kind[p] # Overwriting) => times[j] <= 1
        /\ (\A p \in Runners : Draws(p)) => (HasRecord(j) => media[j] # 0)
        /\ Links => (HasRecord(j) => recorded[j].image = media[j])

\* A job that is about to be recorded was not, and one process is about to.
RecordFits ==
    \A p \in Runners :
        proc[p].at = "record" =>
            /\ Draws(p) => media[proc[p].job] # 0
            /\ kind[p] # Overwriting =>
                  /\ ~HasRecord(proc[p].job)
                  /\ \A q \in Runners :
                        q # p /\ proc[q].at = "record" => proc[q].job # proc[p].job

\* What the generators without a check of their own have before them.
Fresh ==
    \A p \in Runners :
        /\ kind[p] = Legacy =>
              /\ \A j \in proc[p].todo : media[j] = 0
              /\ proc[p].at = "draw" => media[proc[p].job] = 0
        /\ kind[p] = Descriptions => \A j \in proc[p].todo : ~HasRecord(j)

\* An audit's word about a version of a reference is final.
Passed ==
    /\ \A p \in Runners :
          kind[p].approves =>
              /\ \A j \in proc[p].todo : verdict[proc[p].request][j] = "pass"
              /\ proc[p].at \in {"draw", "record"} =>
                    verdict[proc[p].request][proc[p].job] = "pass"
    /\ (\A p \in Runners : kind[p].approves) =>
          \A j \in Jobs : HasRecord(j) => verdict[recorded[j].request][j] = "pass"

\* One descriptor, once pinned, is what everything is made from.
PinnedFits ==
    /\ \A p \in Runners :
          kind[p].pins /\ proc[p].at \notin {"idle", "pin", "pinning"} =>
              pinned # Absent /\ pinned.request = proc[p].request
    /\ (\A p \in Runners : kind[p].pins) =>
          \A j \in Jobs :
              HasRecord(j) => pinned # Absent /\ recorded[j].request = pinned.request

\* Without a descriptor, the scan under the lock compares with the records.
Compares == \A p \in Runners : kind[p].links /\ ~kind[p].pins
ScanFits ==
    Alike /\ Compares =>
        /\ \A p \in Runners :
              proc[p].at \in {"take", "draw", "record"} =>
                  \A j \in Jobs : HasRecord(j) => recorded[j].request = proc[p].request
        /\ \A i, j \in Jobs :
              HasRecord(i) /\ HasRecord(j) => recorded[i].request = recorded[j].request

\* What is being imported is there, and stays what it is.
Legacies == \E p \in Runners : kind[p] = Legacy
Shown(j) == attached[j] # 0 /\ (Legacies => attached[j] = media[j])
SyncFits ==
    /\ sync.at # "idle" \/ listed # {} => \A p \in Runners : Ranges(kind[p])
    /\ sync.at # "idle" => \A j \in sync.batch : media[j] # 0
    /\ sync.at = "save" => \A j \in sync.batch : Shown(j)
    /\ \A j \in listed : Shown(j)

GenerationInv ==
    /\ TeamFits /\ InputsTyped /\ LogTyped /\ ProcsTyped /\ SyncTyped
    /\ Started /\ OwnJobs /\ Locked /\ RecordsFit /\ RecordFits /\ Fresh
    /\ Passed /\ PinnedFits /\ ScanFits /\ SyncFits

-----------------------------------------------------------------------------
(* The kinds of generators.                                                *)

LEMMA KindFields ==
  /\ Legacy.name = "images" /\ Overwriting.name = "overwrite"
  /\ Descriptions.name = "texts" /\ Reference.name = "reference"
  /\ Gallery.name = "gallery" /\ Bulk.name = "bulk"
  /\ Completion.name = "completion" /\ Repair.name = "repair"
  /\ Legacy.lock = Absent /\ Overwriting.lock = Absent
  /\ Descriptions.lock = "output" /\ Reference.lock = "generation"
  /\ Gallery.lock = "gallery" /\ Bulk.lock = "pipeline"
  /\ Completion.lock = "bulk" /\ Repair.lock = "generation"
  /\ Legacy.links = FALSE /\ Overwriting.links = FALSE /\ Descriptions.links = FALSE
  /\ Reference.links = TRUE /\ Gallery.links = TRUE /\ Bulk.links = TRUE
  /\ Completion.links = TRUE /\ Repair.links = TRUE
  /\ Legacy.approves = FALSE /\ Overwriting.approves = FALSE
  /\ Descriptions.approves = FALSE /\ Reference.approves = TRUE
  /\ Gallery.approves = TRUE /\ Bulk.approves = TRUE
  /\ Completion.approves = FALSE /\ Repair.approves = FALSE
  /\ Legacy.pins = FALSE /\ Overwriting.pins = FALSE /\ Descriptions.pins = FALSE
  /\ Reference.pins = FALSE /\ Gallery.pins = TRUE /\ Bulk.pins = TRUE
  /\ Completion.pins = TRUE /\ Repair.pins = FALSE
  BY DEF Legacy, Overwriting, Descriptions, Reference, Gallery, Bulk, Completion, Repair

LEMMA KindsDiffer ==
  /\ Legacy \notin {Overwriting, Descriptions, Reference, Gallery, Bulk, Completion, Repair}
  /\ Overwriting \notin {Descriptions, Reference, Gallery, Bulk, Completion, Repair}
  /\ Descriptions \notin {Reference, Gallery, Bulk, Completion, Repair}
  /\ Reference \notin {Gallery, Bulk, Completion, Repair}
  /\ Gallery \notin {Bulk, Completion, Repair}
  /\ Bulk \notin {Completion, Repair} /\ Completion # Repair
  BY KindFields

LEMMA KindsAre ==
  ASSUME NEW k \in Kinds
  PROVE  /\ k.links <=> k \in {Reference, Gallery, Bulk, Completion, Repair}
         /\ k.approves <=> k \in {Reference, Gallery, Bulk}
         /\ k.pins <=> k \in {Gallery, Bulk, Completion}
         /\ k.lock \in Locks \cup {Absent}
         /\ k.lock = Absent <=> k \in {Legacy, Overwriting}
         /\ k = Descriptions => k.lock = "output"
         /\ k \in {Reference, Repair} => k.lock = "generation"
         /\ k.lock = "pipeline" => k = Bulk
         /\ k \in {Gallery, Bulk, Completion} => k.lock # "generation"
  <1>1. Absent \notin Locks
    BY AbsentIsNothing
  <1>2. k \in {Legacy, Overwriting, Descriptions, Reference, Gallery, Bulk, Completion, Repair}
    BY DEF Kinds
  <1>3. /\ k.links <=> k \in {Reference, Gallery, Bulk, Completion, Repair}
        /\ k.approves <=> k \in {Reference, Gallery, Bulk}
        /\ k.pins <=> k \in {Gallery, Bulk, Completion}
    BY <1>2, KindFields, KindsDiffer
  <1>4. /\ k.lock \in Locks \cup {Absent}
        /\ k.lock = Absent <=> k \in {Legacy, Overwriting}
        /\ k = Descriptions => k.lock = "output"
        /\ k \in {Reference, Repair} => k.lock = "generation"
        /\ k.lock = "pipeline" => k = Bulk
        /\ k \in {Gallery, Bulk, Completion} => k.lock # "generation"
    BY <1>1, <1>2, KindFields, KindsDiffer DEF Locks
  <1> QED
    BY <1>3, <1>4

\* Who meets in a directory.
LEMMA TeamsAre ==
  ASSUME NEW team \in Teams
  PROVE  /\ team \in [Runners -> Kinds]
         /\ \/ \A p, q \in Runners : team[p] = team[q]
            \/ \A p \in Runners : team[p] \in {Reference, Gallery, Bulk}
  <1> DEFINE met == {team[p] : p \in Runners}
  <1>1. team \in [Runners -> Kinds]
    BY DEF Teams
  <1>2. Cardinality(met) = 1 \/ met \in {{Gallery, Reference}, {Bulk, Reference}}
    BY DEF Teams
  <1>3. \A p \in Runners : team[p] \in met
    OBVIOUS
  <1>4. IsFiniteSet(met)
    <2>1. met \subseteq Kinds
      BY <1>1
    <2> DEFINE some == (({} \cup {Legacy}) \cup {Overwriting}) \cup {Descriptions}
               more == ((some \cup {Reference}) \cup {Gallery}) \cup {Bulk}
               all == (more \cup {Completion}) \cup {Repair}
    <2>2. IsFiniteSet(some)
      BY FS_EmptySet, FS_AddElement
    <2> HIDE DEF some
    <2>3. IsFiniteSet(more)
      BY <2>2, FS_AddElement
    <2> HIDE DEF more
    <2>4. IsFiniteSet(all)
      BY <2>3, FS_AddElement
    <2>5. Kinds = all
      BY DEF Kinds, some, more
    <2> QED
      BY <2>1, <2>4, <2>5, FS_Subset
  <1>5. CASE Cardinality(met) = 1
    <2>1. \E k : met = {k}
      BY <1>4, <1>5, FS_Singleton
    <2> QED
      BY <1>1, <1>3, <2>1
  <1>6. CASE met \in {{Gallery, Reference}, {Bulk, Reference}}
    BY <1>1, <1>3, <1>6
  <1> QED
    BY <1>2, <1>5, <1>6

-----------------------------------------------------------------------------
(* What the invariant says of the generators that meet.                    *)

LEMMA Met ==
  ASSUME TeamFits
  PROVE  /\ \A p \in Runners :
              /\ kind[p] \in Kinds
              /\ kind[p].links <=> kind[p] \in {Reference, Gallery, Bulk, Completion, Repair}
              /\ kind[p].approves <=> kind[p] \in {Reference, Gallery, Bulk}
              /\ kind[p].pins <=> kind[p] \in {Gallery, Bulk, Completion}
              /\ Draws(p) <=> kind[p] # Descriptions
              /\ kind[p] \in {Legacy, Overwriting, Descriptions, Reference, Gallery,
                              Bulk, Completion, Repair}
         /\ (\E p \in Runners : kind[p].links) => Links /\ \A p \in Runners : Draws(p)
         /\ \A k \in {Legacy, Overwriting, Descriptions, Completion, Repair} :
              (\E p \in Runners : kind[p] = k) => \A p \in Runners : kind[p] = k
  <1>1. \A p \in Runners : kind[p] \in Kinds
    BY DEF TeamFits
  <1>2. \A p \in Runners :
              /\ kind[p].links <=> kind[p] \in {Reference, Gallery, Bulk, Completion, Repair}
              /\ kind[p].approves <=> kind[p] \in {Reference, Gallery, Bulk}
              /\ kind[p].pins <=> kind[p] \in {Gallery, Bulk, Completion}
              /\ Draws(p) <=> kind[p] # Descriptions
              /\ kind[p] \in {Legacy, Overwriting, Descriptions, Reference, Gallery,
                              Bulk, Completion, Repair}
    BY <1>1, KindsAre DEF Draws, Kinds
  <1>3. \A k \in {Legacy, Overwriting, Descriptions, Completion, Repair} :
              (\E p \in Runners : kind[p] = k) => \A p \in Runners : kind[p] = k
    BY KindsDiffer DEF TeamFits, Alike
  <1>4. ASSUME \E p \in Runners : kind[p].links
        PROVE  Links /\ \A p \in Runners : Draws(p)
    <2>1. \A p \in Runners : kind[p] \in {Reference, Gallery, Bulk, Completion, Repair}
      BY <1>2, <1>4 DEF TeamFits, Alike
    <2> QED
      BY <2>1, <1>2, KindsDiffer DEF Links
  <1> QED
    BY <1>1, <1>2, <1>3, <1>4

\* Who is at work and holds a lock of its own kind works alone with it.
LEMMA WorksAlone ==
  ASSUME TeamFits, Locked, NEW p \in Runners, NEW q \in Runners,
         proc[p].at # "idle", proc[q].at # "idle", kind[p] = kind[q],
         kind[p] \in {Descriptions, Reference, Gallery, Completion, Repair}
  PROVE  p = q
  <1>1. kind[p] \in Kinds /\ kind[p] # Bulk /\ kind[p] \notin {Legacy, Overwriting}
    BY KindsDiffer DEF TeamFits
  <1>2. kind[p].lock # Absent
    BY <1>1, KindsAre
  <1> QED
    BY <1>1, <1>2 DEF Locked

\* A generator that has its lock keeps it when others end, when one starts
\* with a lock that was free, and when one takes the lock of the pictures.
LEMMA EndsKeepsLocked ==
  ASSUME TeamFits, ProcsTyped, Locked, NEW p \in Runners, Ends(p), kind' = kind
  PROVE  Locked' /\ holder' \in [Locks -> Runners \cup {Absent}]
  <1>1. holder' \in [Locks -> Runners \cup {Absent}]
    BY DEF ProcsTyped, Ends
  <1>2. ASSUME NEW q \in Runners, proc'[q].at # "idle", kind[q] # Bulk, kind[q].lock # Absent
        PROVE  holder'[kind[q].lock] = q
    <2>1. kind[q].lock \in Locks
      BY <1>2, KindsAre DEF TeamFits
    <2>2. q # p
      BY <1>2 DEF ProcsTyped, Ends, Resting
    <2>3. holder[kind[q].lock] = q
      BY <1>2, <2>2 DEF ProcsTyped, Locked, Ends
    <2> QED
      BY <2>1, <2>2, <2>3 DEF Ends
  <1>3. Locked'
    BY <1>2 DEF Locked
  <1> QED
    BY <1>1, <1>3

LEMMA LockedIsKept ==
  ASSUME TeamFits, ProcsTyped, Locked, NEW p \in Runners, NEW new,
         proc' = [proc EXCEPT ![p] = new], kind' = kind, holder' = holder,
         proc[p].at = "idle" => new.at = "idle"
  PROVE  Locked'
  BY DEF ProcsTyped, Locked

LEMMA LockedByTaking ==
  ASSUME TeamFits, ProcsTyped, Locked, NEW p \in Runners, NEW new, NEW l \in Locks,
         proc' = [proc EXCEPT ![p] = new], kind' = kind,
         holder[l] = Absent, holder' = [holder EXCEPT ![l] = p],
         \/ kind[p] = Bulk
         \/ kind[p].lock = l
  PROVE  Locked' /\ holder' \in [Locks -> Runners \cup {Absent}]
  <1>1. holder' \in [Locks -> Runners \cup {Absent}]
    BY DEF ProcsTyped
  <1>2. ASSUME NEW q \in Runners, proc'[q].at # "idle", kind[q] # Bulk, kind[q].lock # Absent
        PROVE  holder'[kind[q].lock] = q
    <2>1. kind[q].lock \in Locks
      BY <1>2, KindsAre DEF TeamFits
    <2>2. CASE q = p
      BY <1>2, <2>1, <2>2 DEF ProcsTyped
    <2>3. CASE q # p
      <3>1. holder[kind[q].lock] = q
        BY <1>2, <2>3 DEF ProcsTyped, Locked
      <3>2. q # Absent
        BY AbsentIsNothing
      <3> QED
        BY <2>1, <3>1, <3>2 DEF ProcsTyped
    <2> QED
      BY <2>2, <2>3
  <1>3. Locked'
    BY <1>2 DEF Locked
  <1> QED
    BY <1>1, <1>3

-----------------------------------------------------------------------------
(* Steps that change what one generator does.                              *)

\* What a generator may be doing, given the log, the pictures and the audit.
May(p, g) ==
    /\ g \in Generators
    /\ IF g.at = "idle" THEN g.todo = {} ELSE g.request \in Versions
    /\ g.at \in {"listing", "child", "audit"} => kind[p] = Bulk
    /\ g.at = "draw" => Draws(p)
    /\ g.todo \subseteq part[p]
    /\ g.at \in {"draw", "record"} => g.job \in part[p] \ g.todo
    /\ g.at = "record" =>
          /\ Draws(p) => media[g.job] # 0
          /\ kind[p] # Overwriting => ~HasRecord(g.job)
    /\ kind[p] = Legacy =>
          /\ \A j \in g.todo : media[j] = 0
          /\ g.at = "draw" => media[g.job] = 0
    /\ kind[p] = Descriptions => \A j \in g.todo : ~HasRecord(j)
    /\ kind[p].approves =>
          /\ \A j \in g.todo : verdict[g.request][j] = "pass"
          /\ g.at \in {"draw", "record"} => verdict[g.request][g.job] = "pass"
    /\ Alike /\ Compares /\ g.at \in {"take", "draw", "record"} =>
          \A j \in Jobs : HasRecord(j) => recorded[j].request = g.request

\* Two that are about to record are about to record two jobs.
Apart(p, g) ==
    g.at = "record" /\ kind[p] # Overwriting =>
        \A q \in Runners : q # p /\ proc[q].at = "record" => proc[q].job # g.job

\* What has its directory pinned works on what is pinned.
Pins(p, g, pin) ==
    kind[p].pins /\ g.at \notin {"idle", "pin", "pinning"} => pin # Absent /\ pin.request = g.request

Rest == <<roles, input, refs, verdict, media, recorded, times, sync, attached, listed>>

LEMMA MayNow ==
  ASSUME GenerationInv, NEW p \in Runners
  PROVE  May(p, proc[p]) /\ Apart(p, proc[p]) /\ Pins(p, proc[p], pinned)
  <1>1. proc[p] \in Generators
    BY DEF GenerationInv, ProcsTyped
  <1>2. /\ IF proc[p].at = "idle" THEN proc[p].todo = {} ELSE proc[p].request \in Versions
        /\ proc[p].at \in {"listing", "child", "audit"} => kind[p] = Bulk
        /\ proc[p].at = "draw" => Draws(p)
        /\ proc[p].todo \subseteq part[p]
        /\ proc[p].at \in {"draw", "record"} => proc[p].job \in part[p] \ proc[p].todo
    BY DEF GenerationInv, Started, OwnJobs
  <1>3. Apart(p, proc[p])
    BY DEF GenerationInv, RecordFits, Apart
  <1>4. Pins(p, proc[p], pinned)
    BY DEF GenerationInv, PinnedFits, Pins
  <1>5. proc[p].at = "record" =>
          /\ Draws(p) => media[proc[p].job] # 0
          /\ kind[p] # Overwriting => ~HasRecord(proc[p].job)
    BY DEF GenerationInv, RecordFits
  <1>6. /\ kind[p] = Legacy =>
             /\ \A j \in proc[p].todo : media[j] = 0
             /\ proc[p].at = "draw" => media[proc[p].job] = 0
        /\ kind[p] = Descriptions => \A j \in proc[p].todo : ~HasRecord(j)
    BY DEF GenerationInv, Fresh
  <1>7. kind[p].approves =>
          /\ \A j \in proc[p].todo : verdict[proc[p].request][j] = "pass"
          /\ proc[p].at \in {"draw", "record"} =>
                verdict[proc[p].request][proc[p].job] = "pass"
    BY DEF GenerationInv, Passed
  <1>8. Alike /\ Compares /\ proc[p].at \in {"take", "draw", "record"} =>
          \A j \in Jobs : HasRecord(j) => recorded[j].request = proc[p].request
    BY DEF GenerationInv, ScanFits
  <1> QED
    BY <1>1, <1>2, <1>3, <1>4, <1>5, <1>6, <1>7, <1>8 DEF May

\* Nothing else changes, and nothing that was pinned is pinned otherwise.
LEMMA MovesKeepInv ==
  ASSUME GenerationInv, NEW p \in Runners, NEW new,
         proc' = [proc EXCEPT ![p] = new],
         May(p, new), Apart(p, new), Pins(p, new, pinned'),
         UNCHANGED Rest, drawn' \in [Jobs -> Nat],
         pinned' \in {Absent} \cup Descriptors,
         pinned # Absent => pinned' = pinned,
         holder' \in [Locks -> Runners \cup {Absent}], Locked'
  PROVE  GenerationInv'
  <1>1. /\ TeamFits /\ InputsTyped /\ LogTyped /\ ProcsTyped /\ SyncTyped
        /\ Started /\ OwnJobs /\ Locked /\ RecordsFit /\ RecordFits /\ Fresh
        /\ Passed /\ PinnedFits /\ ScanFits /\ SyncFits
    BY DEF GenerationInv
  <1>2. /\ kind' = kind /\ part' = part /\ input' = input /\ refs' = refs
        /\ verdict' = verdict /\ media' = media /\ recorded' = recorded
        /\ times' = times /\ sync' = sync /\ attached' = attached /\ listed' = listed
    BY DEF Rest, roles
  <1>3. /\ new \in Generators
        /\ proc'[p] = new
        /\ \A q \in Runners : q # p => proc'[q] = proc[q]
    BY <1>1 DEF ProcsTyped, May
  <1>4. TeamFits' /\ InputsTyped' /\ SyncTyped'
    BY <1>1, <1>2 DEF TeamFits, InputsTyped, SyncTyped, Alike
  <1>5. LogTyped'
    BY <1>1, <1>2 DEF LogTyped
  <1>6. ProcsTyped'
    BY <1>1, <1>3 DEF ProcsTyped
  <1>7. Started'
    BY <1>1, <1>2, <1>3 DEF Started, May, Draws
  <1>8. OwnJobs'
    BY <1>1, <1>2, <1>3 DEF OwnJobs, May
  <1>9. RecordsFit'
    BY <1>1, <1>2 DEF RecordsFit, HasRecord, Draws, Links
  <1>10. RecordFits'
    <2>1. ASSUME NEW q \in Runners, proc'[q].at = "record"
          PROVE  /\ Draws(q) => media[proc'[q].job] # 0
                 /\ kind[q] # Overwriting => ~HasRecord(proc'[q].job)
      BY <1>1, <1>3, <2>1 DEF RecordFits, May
    <2>2. ASSUME NEW q \in Runners, proc'[q].at = "record", kind[q] # Overwriting,
                 NEW r \in Runners, r # q, proc'[r].at = "record"
          PROVE  proc'[r].job # proc'[q].job
      <3>1. CASE q = p
        BY <1>3, <2>2, <3>1 DEF Apart
      <3>2. CASE q # p /\ r = p
        <4>1. kind[p] # Overwriting
          BY <1>1, <2>2, <3>2, Met
        <4> QED
          BY <1>3, <2>2, <3>2, <4>1 DEF Apart
      <3>3. CASE q # p /\ r # p
        BY <1>1, <1>3, <2>2, <3>3 DEF RecordFits
      <3> QED
        BY <3>1, <3>2, <3>3
    <2> QED
      BY <1>2, <2>1, <2>2 DEF RecordFits, HasRecord, Draws
  <1>11. Fresh'
    BY <1>1, <1>2, <1>3 DEF Fresh, May, HasRecord
  <1>12. Passed'
    <2>1. ASSUME NEW q \in Runners, kind[q].approves
          PROVE  /\ \A j \in proc'[q].todo : verdict[proc'[q].request][j] = "pass"
                 /\ proc'[q].at \in {"draw", "record"} =>
                       verdict[proc'[q].request][proc'[q].job] = "pass"
      BY <1>1, <1>3, <2>1 DEF Passed, May
    <2> QED
      BY <1>1, <1>2, <2>1 DEF Passed, HasRecord
  <1>13. PinnedFits'
    <2>1. ASSUME NEW q \in Runners, kind[q].pins, proc'[q].at \notin {"idle", "pin", "pinning"}
          PROVE  pinned' # Absent /\ pinned'.request = proc'[q].request
      <3>1. CASE q = p
        BY <1>3, <2>1, <3>1 DEF Pins
      <3>2. CASE q # p
        BY <1>1, <1>3, <2>1, <3>2 DEF PinnedFits
      <3> QED
        BY <3>1, <3>2
    <2>2. ASSUME \A q \in Runners : kind[q].pins, NEW j \in Jobs, HasRecord(j)
          PROVE  pinned' # Absent /\ recorded[j].request = pinned'.request
      BY <1>1, <2>2 DEF PinnedFits
    <2> QED
      BY <1>2, <2>1, <2>2 DEF PinnedFits, HasRecord
  <1>14. ScanFits'
    <2>1. ASSUME Alike, Compares, NEW q \in Runners,
                 proc'[q].at \in {"take", "draw", "record"},
                 NEW j \in Jobs, HasRecord(j)
          PROVE  recorded[j].request = proc'[q].request
      BY <1>1, <1>3, <2>1 DEF ScanFits, May
    <2> QED
      BY <1>1, <1>2, <2>1 DEF ScanFits, HasRecord, Alike, Compares
  <1>15. SyncFits'
    BY <1>1, <1>2 DEF SyncFits, Shown, Legacies, Ranges
  <1> QED
    BY <1>4, <1>5, <1>6, <1>7, <1>8, <1>9, <1>10, <1>11, <1>12, <1>13, <1>14, <1>15
    DEF GenerationInv

LEMMA MayRest ==
  ASSUME NEW p \in Runners, NEW pin
  PROVE  May(p, Resting) /\ Apart(p, Resting) /\ Pins(p, Resting, pin)
  <1>1. /\ Resting.at = "idle" /\ Resting.todo = {}
        /\ Resting \in Generators
    BY DEF Resting, Generators, Spots
  <1> QED
    BY <1>1 DEF May, Apart, Pins

LEMMA EndsKeepsInv ==
  ASSUME GenerationInv, NEW p \in Runners, Ends(p), UNCHANGED Rest,
         drawn' = drawn, pinned' = pinned
  PROVE  GenerationInv'
  <1>1. TeamFits /\ LogTyped /\ ProcsTyped /\ Locked
    BY DEF GenerationInv
  <1>2. Locked' /\ holder' \in [Locks -> Runners \cup {Absent}]
    BY <1>1, EndsKeepsLocked DEF Rest, roles
  <1>3. May(p, Resting) /\ Apart(p, Resting) /\ Pins(p, Resting, pinned')
    BY MayRest
  <1>4. proc' = [proc EXCEPT ![p] = Resting]
    BY DEF Ends
  <1>5. drawn' \in [Jobs -> Nat] /\ pinned' \in {Absent} \cup Descriptors
    BY <1>1 DEF LogTyped
  <1> QED
    BY <1>2, <1>3, <1>4, <1>5, MovesKeepInv

\* As MovesKeepInv, where only what a generator does changes.
LEMMA Works ==
  ASSUME GenerationInv, NEW p \in Runners, NEW new,
         proc' = [proc EXCEPT ![p] = new],
         proc[p].at # "idle",
         May(p, new), Apart(p, new), Pins(p, new, pinned),
         UNCHANGED Rest, drawn' \in [Jobs -> Nat], pinned' = pinned, holder' = holder
  PROVE  GenerationInv'
  <1>1. TeamFits /\ LogTyped /\ ProcsTyped /\ Locked
    BY DEF GenerationInv
  <1>2. Locked'
    BY <1>1, LockedIsKept DEF Rest, roles
  <1>3. /\ holder' \in [Locks -> Runners \cup {Absent}]
        /\ pinned' \in {Absent} \cup Descriptors
    BY <1>1 DEF ProcsTyped, LogTyped
  <1> QED
    BY <1>2, <1>3, MovesKeepInv

LEMMA StartKeepsInv ==
  ASSUME GenerationInv, NEW p \in Runners, Start(p)
  PROVE  GenerationInv'
  <1> DEFINE new == [Resting EXCEPT !.at = "pin", !.request = input]
  <1>1. TeamFits /\ InputsTyped /\ LogTyped /\ ProcsTyped /\ Locked
    BY DEF GenerationInv
  <1>2. /\ proc' = [proc EXCEPT ![p] = new]
        /\ UNCHANGED Rest /\ drawn' = drawn /\ pinned' = pinned /\ kind' = kind
    BY DEF Start, Rest, roles, inputs, log, images, shop
  <1>3. /\ new.at = "pin" /\ new.request = input /\ new.todo = {}
        /\ new \in Generators
    BY <1>1 DEF Resting, Generators, Spots, InputsTyped
  <1>4. May(p, new) /\ Apart(p, new) /\ Pins(p, new, pinned')
    BY <1>1, <1>3 DEF May, Apart, Pins, InputsTyped
  <1>5. Locked' /\ holder' \in [Locks -> Runners \cup {Absent}]
    <2>1. CASE kind[p].lock = Absent
      <3>1. holder' = holder
        BY <2>1 DEF Start
      <3>2. \A q \in Runners : q # p => proc'[q] = proc[q]
        BY <1>1, <1>2 DEF ProcsTyped
      <3> QED
        BY <1>1, <1>2, <2>1, <3>1, <3>2 DEF Locked, ProcsTyped
    <2>2. CASE kind[p].lock # Absent
      <3>1. kind[p].lock \in Locks
        BY <1>1, <2>2, KindsAre DEF TeamFits
      <3>2. /\ holder[kind[p].lock] = Absent
            /\ holder' = [holder EXCEPT ![kind[p].lock] = p]
        BY <2>2 DEF Start
      <3> QED
        BY <1>1, <1>2, <3>1, <3>2, LockedByTaking
    <2> QED
      BY <2>1, <2>2
  <1>6. drawn' \in [Jobs -> Nat] /\ pinned' \in {Absent} \cup Descriptors
    BY <1>1, <1>2 DEF LogTyped
  <1> HIDE DEF new
  <1> QED
    BY <1>2, <1>4, <1>5, <1>6, MovesKeepInv

\* At the files that are written once: the first of them pins the request.
LEMMA InputsKeepInv ==
  ASSUME GenerationInv, NEW p \in Runners, OpenInput(p) \/ WriteInput(p)
  PROVE  GenerationInv'
  <1>1. PICK place \in {"pinning", "pin"} :
            /\ proc' = [proc EXCEPT ![p] = [proc[p] EXCEPT !.at = place]]
            /\ proc[p].at \in {"pin", "pinning"}
            /\ UNCHANGED Rest /\ drawn' = drawn /\ kind' = kind
            /\ holder' = holder
            /\ pinned' = pinned \/ (pinned = Absent /\ pinned' = Descriptor(p))
    BY DEF OpenInput, WriteInput, GoesTo, At, Rest, roles, inputs, log, images, shop
  <1> DEFINE new == [proc[p] EXCEPT !.at = place]
  <1>2. TeamFits /\ InputsTyped /\ LogTyped /\ ProcsTyped /\ Locked
    BY DEF GenerationInv
  <1>3. May(p, proc[p])
    BY MayNow
  <1>4. /\ proc[p] \in Generators /\ new \in Generators
        /\ new.at = place /\ new.todo = proc[p].todo /\ new.request = proc[p].request
    BY <1>3 DEF May, Generators, Spots
  <1>5. proc' = [proc EXCEPT ![p] = new]
    BY <1>1
  <1> HIDE DEF new
  <1>6. May(p, new) /\ Apart(p, new)
    BY <1>1, <1>3, <1>4 DEF May, Apart
  <1>7. Pins(p, new, pinned')
    BY <1>4 DEF Pins
  <1>8. Descriptor(p) \in Descriptors
    <2>1. Request(p) \in Versions
      BY <1>1, <1>3 DEF May, Request
    <2>2. verdict \in Audited
      BY <1>2 DEF InputsTyped
    <2> QED
      BY <2>1, <2>2 DEF Descriptor, Descriptors
  <1>9. /\ pinned' \in {Absent} \cup Descriptors
        /\ pinned # Absent => pinned' = pinned
    BY <1>1, <1>2, <1>8 DEF LogTyped
  <1>10. Locked'
    BY <1>1, <1>2, <1>5, LockedIsKept
  <1>11. holder' \in [Locks -> Runners \cup {Absent}] /\ drawn' \in [Jobs -> Nat]
    BY <1>1, <1>2 DEF ProcsTyped, LogTyped
  <1> QED
    BY <1>1, <1>5, <1>6, <1>7, <1>9, <1>10, <1>11, MovesKeepInv

LEMMA PinKeepsInv ==
  ASSUME GenerationInv, NEW p \in Runners, Pin(p)
  PROVE  GenerationInv'
  <1> DEFINE new == [proc[p] EXCEPT !.at = "scan"]
  <1>1. TeamFits /\ InputsTyped /\ LogTyped /\ ProcsTyped /\ Locked
    BY DEF GenerationInv
  <1>2. /\ proc' = [proc EXCEPT ![p] = new]
        /\ UNCHANGED Rest /\ drawn' = drawn /\ kind' = kind /\ holder' = holder
        /\ proc[p].at = "pin"
    BY DEF Pin, GoesTo, At, Rest, roles, inputs, log, images, shop
  <1>3. May(p, proc[p])
    BY MayNow
  <1>4. /\ proc[p] \in Generators /\ new \in Generators
        /\ new.at = "scan" /\ new.todo = proc[p].todo /\ new.request = proc[p].request
    BY <1>3 DEF May, Generators, Spots
  <1> HIDE DEF new
  <1>5. May(p, new) /\ Apart(p, new)
    BY <1>2, <1>3, <1>4 DEF May, Apart
  <1>6. Descriptor(p) \in Descriptors /\ Descriptor(p).request = new.request
    <2>1. Request(p) \in Versions /\ Request(p) = new.request
      BY <1>2, <1>3, <1>4 DEF May, Request
    <2>2. verdict \in Audited
      BY <1>1 DEF InputsTyped
    <2> QED
      BY <2>1, <2>2 DEF Descriptor, Descriptors
  <1>7. Descriptor(p) # Absent
    BY <1>6, AbsentIsNothing
  <1>8. kind[p].pins => pinned \in {Absent, Descriptor(p)} /\ pinned' = Descriptor(p)
    BY DEF Pin, MayPin
  <1>9. ~kind[p].pins => pinned' = pinned
    BY DEF Pin
  <1>10. /\ pinned' \in {Absent} \cup Descriptors
         /\ pinned # Absent => pinned' = pinned
    <2>1. CASE kind[p].pins
      BY <1>6, <1>8, <2>1
    <2>2. CASE ~kind[p].pins
      BY <1>1, <1>9, <2>2 DEF LogTyped
    <2> QED
      BY <2>1, <2>2
  <1>11. Pins(p, new, pinned')
    BY <1>6, <1>7, <1>8 DEF Pins
  <1>12. Locked' /\ holder' \in [Locks -> Runners \cup {Absent}]
    <2>1. Locked'
      BY <1>1, <1>2, LockedIsKept
    <2> QED
      BY <1>1, <1>2, <2>1 DEF ProcsTyped
  <1>13. drawn' \in [Jobs -> Nat]
    BY <1>1, <1>2 DEF LogTyped
  <1> QED
    BY <1>2, <1>5, <1>10, <1>11, <1>12, <1>13, MovesKeepInv

-----------------------------------------------------------------------------
(* Scans and jobs.                                                         *)

LEMMA PendingFits ==
  ASSUME GenerationInv, NEW p \in Runners
  PROVE  /\ Pending(p) \subseteq part[p]
         /\ kind[p] = Legacy => \A j \in Pending(p) : media[j] = 0
         /\ kind[p] = Descriptions => \A j \in Pending(p) : ~HasRecord(j)
         /\ kind[p].approves => \A j \in Pending(p) : verdict[Request(p)][j] = "pass"
  <1>1. TeamFits
    BY DEF GenerationInv
  <1>2. /\ kind[p] \in Kinds
        /\ part[p] \subseteq Jobs
        /\ ~Ranges(kind[p]) => part[p] = Jobs
    BY <1>1 DEF TeamFits
  <1>3. Pending(p) \subseteq Wanted(p) \ Ready(p)
    BY DEF Pending
  <1>4. Wanted(p) \subseteq part[p]
    <2>1. ~Ranges(Bulk)
      BY KindsDiffer DEF Ranges
    <2> QED
      BY <1>2, <2>1 DEF Wanted
  <1>5. kind[p] = Legacy => \A j \in Pending(p) : media[j] = 0
    BY <1>2, <1>3, <1>4, KindsDiffer DEF Ready
  <1>6. kind[p] = Descriptions => \A j \in Pending(p) : ~HasRecord(j)
    BY <1>2, <1>3, <1>4, KindsDiffer DEF Ready, HasRecord
  <1>7. ASSUME kind[p].approves, NEW j \in Pending(p)
        PROVE  verdict[Request(p)][j] = "pass"
    <2>1. kind[p] \in {Reference, Gallery, Bulk}
      BY <1>1, <1>7, Met
    <2>2. CASE kind[p] = Bulk
      BY <1>3, <2>2 DEF Wanted
    <2>3. CASE kind[p] \in {Gallery, Reference}
      BY <1>7, <2>3 DEF Pending, Approved
    <2> QED
      BY <2>1, <2>2, <2>3
  <1> QED
    BY <1>3, <1>4, <1>5, <1>6, <1>7

\* A scan that fits found every record of its own request, where generators
\* compare and do not pin.
LEMMA FitsComparesAll ==
  ASSUME GenerationInv, NEW p \in Runners, Fits(p), Alike, Compares,
         NEW j \in Jobs, HasRecord(j)
  PROVE  recorded[j].request = Request(p)
  <1>1. TeamFits /\ RecordsFit
    BY DEF GenerationInv
  <1>2. kind[p].links /\ ~kind[p].pins
    BY DEF Compares
  <1>3. kind[p] \in {Reference, Repair}
    BY <1>1, <1>2, Met
  <1>4. part[p] = Jobs
    BY <1>1, <1>3, KindsDiffer DEF TeamFits, Ranges
  <1>5. media[j] # 0
    BY <1>1, <1>2, Met DEF RecordsFit
  <1>6. j \in Wanted(p) \cap Ready(p)
    BY <1>3, <1>4, <1>5, KindsDiffer DEF Wanted, Ready
  <1>7. recorded[j] = [image |-> media[j], request |-> Request(p)]
    BY <1>2, <1>6 DEF Fits
  <1> QED
    BY <1>7

LEMMA ScanMay ==
  ASSUME GenerationInv, NEW p \in Runners, Fits(p), proc[p].at \in {"scan", "child"},
         NEW new, new = [proc[p] EXCEPT !.at = "take", !.todo = Pending(p)]
  PROVE  May(p, new) /\ Apart(p, new) /\ Pins(p, new, pinned)
  <1>1. TeamFits
    BY DEF GenerationInv
  <1>2. May(p, proc[p]) /\ Pins(p, proc[p], pinned)
    BY MayNow
  <1>3. Pending(p) \subseteq part[p] /\ part[p] \subseteq Jobs
    BY <1>1, PendingFits DEF TeamFits
  <1>4. /\ new \in Generators
        /\ new.at = "take" /\ new.todo = Pending(p) /\ new.request = Request(p)
    BY <1>2, <1>3 DEF May, Generators, Spots, Request
  <1>5. Request(p) \in Versions
    BY <1>2 DEF May, Request
  <1>6. Alike /\ Compares => \A j \in Jobs : HasRecord(j) => recorded[j].request = new.request
    BY <1>4, FitsComparesAll
  <1>7. /\ kind[p] = Legacy => \A j \in new.todo : media[j] = 0
        /\ kind[p] = Descriptions => \A j \in new.todo : ~HasRecord(j)
        /\ kind[p].approves => \A j \in new.todo : verdict[new.request][j] = "pass"
    BY <1>4, PendingFits
  <1>8. May(p, new)
    BY <1>3, <1>4, <1>5, <1>6, <1>7 DEF May
  <1>9. Apart(p, new)
    BY <1>4 DEF Apart
  <1>10. Pins(p, new, pinned)
    BY <1>2, <1>4 DEF Pins, Request
  <1> QED
    BY <1>8, <1>9, <1>10

\* Going to where nothing is at hand.
LEMMA GoMay ==
  ASSUME GenerationInv, NEW p \in Runners, NEW new \in Generators,
         proc[p].at \notin {"idle", "pin", "pinning"},
         new.at \in {"scan", "listing", "child", "audit"} \/ (new.at = "take" /\ proc[p].at \in {"take", "draw", "record"}),
         new.at \in {"listing", "child", "audit"} => kind[p] = Bulk,
         new.todo = proc[p].todo, new.request = proc[p].request
  PROVE  May(p, new) /\ Apart(p, new) /\ Pins(p, new, pinned)
  <1>1. May(p, proc[p]) /\ Pins(p, proc[p], pinned)
    BY MayNow
  <1>2. May(p, new)
    BY <1>1 DEF May
  <1>3. Apart(p, new)
    BY DEF Apart
  <1>4. Pins(p, new, pinned)
    BY <1>1 DEF Pins
  <1> QED
    BY <1>2, <1>3, <1>4

LEMMA ScanKeepsInv ==
  ASSUME GenerationInv, NEW p \in Runners, Scan(p)
  PROVE  GenerationInv'
  <1>1. proc[p] \in Generators /\ LogTyped
    BY DEF GenerationInv, ProcsTyped
  <1>2. /\ UNCHANGED Rest /\ drawn' = drawn /\ pinned' = pinned /\ holder' = holder
        /\ proc[p].at = "scan" /\ Fits(p)
    BY DEF Scan, MayScan, At, Rest, roles, inputs, log, images, shop
  <1>3. drawn' \in [Jobs -> Nat]
    BY <1>1, <1>2 DEF LogTyped
  <1>4. CASE Delegates(p)
    <2>1. PICK place \in {"child", "listing"} :
              proc' = [proc EXCEPT ![p] = [proc[p] EXCEPT !.at = place]]
      BY <1>4 DEF Scan, GoesTo
    <2> DEFINE new == [proc[p] EXCEPT !.at = place]
    <2>2. /\ new \in Generators /\ new.at = place /\ new.todo = proc[p].todo
          /\ new.request = proc[p].request
      BY <1>1 DEF Generators, Spots
    <2>3. proc' = [proc EXCEPT ![p] = new]
      BY <2>1
    <2> HIDE DEF new
    <2>4. kind[p] = Bulk
      BY <1>4 DEF Delegates
    <2>5. May(p, new) /\ Apart(p, new) /\ Pins(p, new, pinned)
      BY <1>2, <2>2, <2>4, GoMay
    <2> QED
      BY <1>2, <1>3, <2>3, <2>5, Works
  <1>5. CASE ~Delegates(p)
    <2> DEFINE new == [proc[p] EXCEPT !.at = "take", !.todo = Pending(p)]
    <2>1. proc' = [proc EXCEPT ![p] = new]
      BY <1>5 DEF Scan
    <2>2. May(p, new) /\ Apart(p, new) /\ Pins(p, new, pinned)
      BY <1>2, ScanMay
    <2> HIDE DEF new
    <2> QED
      BY <1>2, <1>3, <2>1, <2>2, Works
  <1> QED
    BY <1>4, <1>5

LEMMA WriteListKeepsInv ==
  ASSUME GenerationInv, NEW p \in Runners, WriteList(p)
  PROVE  GenerationInv'
  <1> DEFINE new == [proc[p] EXCEPT !.at = "child"]
  <1>1. proc[p] \in Generators /\ LogTyped
    BY DEF GenerationInv, ProcsTyped
  <1>2. /\ UNCHANGED Rest /\ drawn' = drawn /\ pinned' = pinned /\ holder' = holder
        /\ proc[p].at = "listing" /\ proc' = [proc EXCEPT ![p] = new]
    BY DEF WriteList, GoesTo, At, Rest, roles, inputs, log, images, shop
  <1>3. drawn' \in [Jobs -> Nat]
    BY <1>1, <1>2 DEF LogTyped
  <1>4. /\ new \in Generators /\ new.at = "child" /\ new.todo = proc[p].todo
        /\ new.request = proc[p].request
    BY <1>1 DEF Generators, Spots
  <1> HIDE DEF new
  <1>5. kind[p] = Bulk
    BY <1>2 DEF GenerationInv, Started
  <1>6. May(p, new) /\ Apart(p, new) /\ Pins(p, new, pinned)
    BY <1>2, <1>4, <1>5, GoMay
  <1> QED
    BY <1>2, <1>3, <1>6, Works

LEMMA SpawnKeepsInv ==
  ASSUME GenerationInv, NEW p \in Runners, Spawn(p)
  PROVE  GenerationInv'
  <1> DEFINE new == [proc[p] EXCEPT !.at = "take", !.todo = Pending(p)]
  <1>1. TeamFits /\ LogTyped /\ ProcsTyped /\ Locked
    BY DEF GenerationInv
  <1>2. /\ UNCHANGED Rest /\ drawn' = drawn /\ pinned' = pinned /\ kind' = kind
        /\ proc[p].at = "child" /\ Fits(p)
        /\ kind[p] = Bulk
        /\ holder["generation"] = Absent
        /\ holder' = [holder EXCEPT !["generation"] = p]
        /\ proc' = [proc EXCEPT ![p] = new]
    BY DEF Spawn, At, Rest, roles, inputs, log, images, shop, GenerationInv, Started
  <1>3. May(p, new) /\ Apart(p, new) /\ Pins(p, new, pinned')
    BY <1>2, ScanMay
  <1> HIDE DEF new
  <1>4. "generation" \in Locks
    BY DEF Locks
  <1>5. Locked' /\ holder' \in [Locks -> Runners \cup {Absent}]
    BY <1>1, <1>2, <1>4, LockedByTaking
  <1>6. drawn' \in [Jobs -> Nat] /\ pinned' \in {Absent} \cup Descriptors
    BY <1>1, <1>2 DEF LogTyped
  <1> QED
    BY <1>2, <1>3, <1>5, <1>6, MovesKeepInv

LEMMA RefuseKeepsInv ==
  ASSUME GenerationInv, NEW p \in Runners, Refuse(p)
  PROVE  GenerationInv'
  <1>1. Ends(p) /\ UNCHANGED Rest /\ drawn' = drawn /\ pinned' = pinned
    BY DEF Refuse, GivesUp, Rest, roles, inputs, log, images, shop
  <1> QED
    BY <1>1, EndsKeepsInv

LEMMA TakeKeepsInv ==
  ASSUME GenerationInv, NEW p \in Runners, Take(p)
  PROVE  GenerationInv'
  <1>1. TeamFits /\ LogTyped /\ ProcsTyped /\ Locked
    BY DEF GenerationInv
  <1>2. PICK j \in proc[p].todo :
           /\ proc' = [proc EXCEPT ![p].at = IF Draws(p) THEN "draw" ELSE "record",
                                   ![p].todo = @ \ {j}, ![p].job = j]
           /\ drawn' = IF Draws(p) THEN drawn ELSE [drawn EXCEPT ![j] = @ + 1]
    BY DEF Take
  <1> DEFINE new == [proc[p] EXCEPT !.at = IF Draws(p) THEN "draw" ELSE "record",
                                    !.todo = @ \ {j}, !.job = j]
  <1>3. /\ UNCHANGED Rest /\ pinned' = pinned /\ holder' = holder
        /\ proc[p].at = "take"
    BY DEF Take, At, Rest, roles, inputs, log, shop
  <1>4. proc' = [proc EXCEPT ![p] = new]
    BY <1>2
  <1>5. May(p, proc[p]) /\ Pins(p, proc[p], pinned)
    BY MayNow
  <1>6. j \in part[p] /\ part[p] \subseteq Jobs
    BY <1>1, <1>5 DEF May, TeamFits
  <1>7. /\ new \in Generators
        /\ new.at = IF Draws(p) THEN "draw" ELSE "record"
        /\ new.todo = proc[p].todo \ {j} /\ new.job = j
        /\ new.request = proc[p].request
    BY <1>5, <1>6 DEF May, Generators, Spots
  <1>8. drawn' \in [Jobs -> Nat]
    BY <1>1, <1>2, <1>6 DEF LogTyped
  <1> HIDE DEF new
  <1>9. ~Draws(p) => kind[p] = Descriptions
    BY DEF Draws
  <1>10. May(p, new)
    <2>1. new.at = "record" =>
            /\ Draws(p) => media[new.job] # 0
            /\ kind[p] # Overwriting => ~HasRecord(new.job)
      BY <1>2, <1>5, <1>7, <1>9 DEF May
    <2>2. /\ kind[p] = Legacy =>
                 /\ \A i \in new.todo : media[i] = 0
                 /\ new.at = "draw" => media[new.job] = 0
          /\ kind[p] = Descriptions => \A i \in new.todo : ~HasRecord(i)
          /\ kind[p].approves =>
                 /\ \A i \in new.todo : verdict[new.request][i] = "pass"
                 /\ new.at \in {"draw", "record"} => verdict[new.request][new.job] = "pass"
      BY <1>2, <1>5, <1>7 DEF May
    <2>3. Alike /\ Compares => \A i \in Jobs : HasRecord(i) => recorded[i].request = new.request
      BY <1>3, <1>5, <1>7 DEF May
    <2>4. /\ new.at \notin {"idle", "listing", "child", "audit"}
          /\ new.at = "draw" => Draws(p)
          /\ new.request \in Versions
          /\ new.todo \subseteq part[p]
          /\ new.job \in part[p] \ new.todo
      BY <1>3, <1>5, <1>6, <1>7 DEF May
    <2> QED
      BY <1>7, <2>1, <2>2, <2>3, <2>4 DEF May
  <1>11. Apart(p, new)
    <2>1. ASSUME new.at = "record", NEW q \in Runners, q # p, proc[q].at = "record"
          PROVE  FALSE
      <3>1. kind[p] = Descriptions /\ kind[q] = Descriptions
        BY <1>1, <1>7, <1>9, <2>1, Met
      <3> QED
        BY <1>1, <1>3, <2>1, <3>1, WorksAlone
    <2> QED
      BY <2>1 DEF Apart
  <1>12. Pins(p, new, pinned)
    BY <1>3, <1>5, <1>7 DEF Pins
  <1> QED
    BY <1>3, <1>4, <1>8, <1>10, <1>11, <1>12, Works

LEMMA FailJobKeepsInv ==
  ASSUME GenerationInv, NEW p \in Runners, FailJob(p)
  PROVE  GenerationInv'
  <1>1. LogTyped /\ ProcsTyped
    BY DEF GenerationInv
  <1>2. UNCHANGED Rest /\ drawn' = drawn /\ pinned' = pinned
    BY DEF FailJob, Rest, roles, inputs, images, shop
  <1>3. CASE kind[p].stops
    <2>1. Ends(p)
      BY <1>3 DEF FailJob, GivesUp
    <2> QED
      BY <1>2, <2>1, EndsKeepsInv
  <1>4. CASE ~kind[p].stops
    <2> DEFINE new == [proc[p] EXCEPT !.at = "take", !.failed = TRUE]
    <2>1. proc' = [proc EXCEPT ![p] = new] /\ holder' = holder
      BY <1>4 DEF FailJob
    <2>2. proc[p].at \in {"draw", "record", "take"}
      BY DEF FailJob, At
    <2>3. /\ new \in Generators /\ new.at = "take" /\ new.todo = proc[p].todo
          /\ new.request = proc[p].request
      BY <1>1 DEF ProcsTyped, Generators, Spots
    <2> HIDE DEF new
    <2>4. May(p, new) /\ Apart(p, new) /\ Pins(p, new, pinned)
      BY <2>2, <2>3, GoMay
    <2>5. drawn' \in [Jobs -> Nat]
      BY <1>1, <1>2 DEF LogTyped
    <2> QED
      BY <1>2, <2>1, <2>2, <2>4, <2>5, Works
  <1> QED
    BY <1>3, <1>4

LEMMA FinishKeepsInv ==
  ASSUME GenerationInv, NEW p \in Runners, Finish(p)
  PROVE  GenerationInv'
  <1>1. TeamFits /\ LogTyped /\ ProcsTyped /\ Locked
    BY DEF GenerationInv
  <1>2. UNCHANGED Rest /\ drawn' = drawn /\ pinned' = pinned /\ kind' = kind
    BY DEF Finish, Rest, roles, inputs, log, images, shop
  <1>3. CASE ~(kind[p] = Bulk /\ ~proc[p].last /\ ~proc[p].orphan)
    <2>1. Ends(p)
      BY <1>3 DEF Finish
    <2> QED
      BY <1>2, <2>1, EndsKeepsInv
  <1>4. CASE kind[p] = Bulk /\ ~proc[p].last /\ ~proc[p].orphan
    <2> DEFINE new == [proc[p] EXCEPT !.at = "audit"]
    <2>1. /\ proc' = [proc EXCEPT ![p] = new]
          /\ holder' = [l \in Locks |-> IF l = "generation" /\ holder[l] = p
                                        THEN Absent ELSE holder[l]]
          /\ proc[p].at = "take"
      BY <1>4 DEF Finish, GoesTo, At
    <2>2. /\ new \in Generators /\ new.at = "audit" /\ new.todo = proc[p].todo
          /\ new.request = proc[p].request
      BY <1>1 DEF ProcsTyped, Generators, Spots
    <2> HIDE DEF new
    <2>3. May(p, new) /\ Apart(p, new) /\ Pins(p, new, pinned')
      BY <1>2, <1>4, <2>1, <2>2, GoMay
    <2>4. drawn' \in [Jobs -> Nat] /\ pinned' \in {Absent} \cup Descriptors
      BY <1>1, <1>2 DEF LogTyped
    <2>5. holder' \in [Locks -> Runners \cup {Absent}]
      BY <1>1, <2>1 DEF ProcsTyped
    <2>6. ASSUME NEW q \in Runners, proc'[q].at # "idle", kind[q] # Bulk, kind[q].lock # Absent
          PROVE  holder'[kind[q].lock] = q
      <3>1. kind[q].lock \in Locks
        BY <1>1, <2>6, KindsAre DEF TeamFits
      <3>2. q # p
        BY <1>4, <2>6
      <3>3. holder[kind[q].lock] = q
        BY <1>1, <2>1, <2>6, <3>2 DEF ProcsTyped, Locked
      <3> QED
        BY <2>1, <3>1, <3>2, <3>3
    <2>7. Locked'
      BY <1>2, <2>6 DEF Locked
    <2> QED
      BY <1>2, <2>1, <2>3, <2>4, <2>5, <2>7, MovesKeepInv
  <1> QED
    BY <1>3, <1>4

LEMMA DieKeepsInv ==
  ASSUME GenerationInv, NEW p \in Runners, Die(p)
  PROVE  GenerationInv'
  <1>1. Ends(p) /\ UNCHANGED Rest /\ drawn' = drawn /\ pinned' = pinned
    BY DEF Die, Rest, roles, inputs, images, shop
  <1> QED
    BY <1>1, EndsKeepsInv

LEMMA OrphanKeepsInv ==
  ASSUME GenerationInv, NEW p \in Runners, Orphan(p)
  PROVE  GenerationInv'
  <1> DEFINE new == [proc[p] EXCEPT !.orphan = TRUE]
  <1>1. TeamFits /\ LogTyped /\ ProcsTyped /\ Locked
    BY DEF GenerationInv
  <1>2. /\ UNCHANGED Rest /\ drawn' = drawn /\ pinned' = pinned /\ kind' = kind
        /\ proc' = [proc EXCEPT ![p] = new]
        /\ holder' = [holder EXCEPT !["pipeline"] = Absent]
        /\ kind[p] = Bulk
    BY DEF Orphan, Rest, roles, inputs, log, images, shop
  <1>3. May(p, proc[p]) /\ Apart(p, proc[p]) /\ Pins(p, proc[p], pinned)
    BY MayNow
  <1>4. /\ new \in Generators /\ new.at = proc[p].at /\ new.todo = proc[p].todo
        /\ new.request = proc[p].request /\ new.job = proc[p].job
    BY <1>1 DEF ProcsTyped, Generators
  <1> HIDE DEF new
  <1>5. May(p, new) /\ Apart(p, new) /\ Pins(p, new, pinned')
    BY <1>2, <1>3, <1>4 DEF May, Apart, Pins
  <1>6. drawn' \in [Jobs -> Nat] /\ pinned' \in {Absent} \cup Descriptors
    BY <1>1, <1>2 DEF LogTyped
  <1>7. holder' \in [Locks -> Runners \cup {Absent}]
    BY <1>1, <1>2 DEF ProcsTyped
  <1>8. ASSUME NEW q \in Runners, proc'[q].at # "idle", kind[q] # Bulk, kind[q].lock # Absent
        PROVE  holder'[kind[q].lock] = q
    <2>1. kind[q].lock \in Locks /\ kind[q].lock # "pipeline"
      BY <1>1, <1>8, KindsAre DEF TeamFits
    <2>2. q # p
      BY <1>2, <1>8
    <2>3. holder[kind[q].lock] = q
      BY <1>1, <1>2, <1>8, <2>2 DEF ProcsTyped, Locked
    <2> QED
      BY <1>1, <1>2, <2>1, <2>3 DEF ProcsTyped
  <1>9. Locked'
    BY <1>2, <1>8 DEF Locked
  <1> QED
    BY <1>2, <1>5, <1>6, <1>7, <1>9, MovesKeepInv

-----------------------------------------------------------------------------
(* The picture, and its record.                                            *)

\* Whoever neither overwrites nor makes texts saves a picture only where
\* there was none, which nobody has recorded or is about to record.
LEMMA SavesWhereNoneWas ==
  ASSUME GenerationInv, NEW p \in Runners, SaveImage(p), kind[p] # Overwriting
  PROVE  /\ media[proc[p].job] = 0 /\ ~HasRecord(proc[p].job)
         /\ \A q \in Runners : proc[q].at = "record" => proc[q].job # proc[p].job
  <1> DEFINE j == proc[p].job
  <1>1. TeamFits /\ Started /\ OwnJobs /\ RecordsFit /\ RecordFits /\ Fresh
    BY DEF GenerationInv
  <1>2. proc[p].at = "draw" /\ (kind[p].links => media[j] = 0)
    BY DEF SaveImage, At
  <1>3. j \in Jobs
    BY <1>1, <1>2 DEF OwnJobs, TeamFits
  <1>4. kind[p] # Descriptions
    BY <1>1, <1>2 DEF Started, Draws
  <1>5. kind[p] = Legacy \/ kind[p].links
    BY <1>1, <1>4, Met
  <1>6. media[j] = 0
    BY <1>1, <1>2, <1>5 DEF Fresh
  <1>7. \A q \in Runners : Draws(q)
    <2>1. CASE kind[p] = Legacy
      <3>1. \A q \in Runners : kind[q] = Legacy
        BY <1>1, <2>1, Met
      <3> QED
        BY <3>1, KindsDiffer DEF Draws
    <2>2. CASE kind[p].links
      BY <1>1, <2>2, Met
    <2> QED
      BY <1>5, <2>1, <2>2
  <1>8. ~HasRecord(j)
    BY <1>1, <1>3, <1>6, <1>7 DEF RecordsFit
  <1>9. \A q \in Runners : proc[q].at = "record" => proc[q].job # j
    BY <1>1, <1>6, <1>7 DEF RecordFits
  <1> QED
    BY <1>6, <1>8, <1>9

LEMMA SaveImageKeepsInv ==
  ASSUME GenerationInv, NEW p \in Runners, SaveImage(p)
  PROVE  GenerationInv'
  <1> DEFINE j == proc[p].job
  <1>1. /\ TeamFits /\ InputsTyped /\ LogTyped /\ ProcsTyped /\ SyncTyped
        /\ Started /\ OwnJobs /\ Locked /\ RecordsFit /\ RecordFits /\ Fresh
        /\ Passed /\ PinnedFits /\ ScanFits /\ SyncFits
    BY DEF GenerationInv
  <1>2. /\ kind' = kind /\ part' = part /\ input' = input /\ refs' = refs
        /\ verdict' = verdict /\ recorded' = recorded /\ pinned' = pinned
        /\ times' = times /\ sync' = sync /\ attached' = attached /\ listed' = listed
        /\ holder' = holder
    BY DEF SaveImage, roles, inputs, log, shop
  <1>3. /\ proc[p].at = "draw"
        /\ drawn' = [drawn EXCEPT ![j] = @ + 1]
        /\ media' = [media EXCEPT ![j] = drawn[j] + 1]
        /\ proc' = [proc EXCEPT ![p].at = "record"]
    BY DEF SaveImage, At, GoesTo
  <1>4. /\ proc'[p] = [proc[p] EXCEPT !.at = "record"]
        /\ proc'[p].at = "record" /\ proc'[p].todo = proc[p].todo
        /\ proc'[p].job = j /\ proc'[p].request = proc[p].request
        /\ \A q \in Runners : q # p => proc'[q] = proc[q]
        /\ proc' \in [Runners -> Generators]
    BY <1>1, <1>3 DEF ProcsTyped, Generators, Spots
  <1>5. j \in part[p] \ proc[p].todo /\ j \in Jobs
    BY <1>1, <1>3 DEF OwnJobs, TeamFits
  <1>6. /\ media' \in [Jobs -> Nat] /\ drawn' \in [Jobs -> Nat]
        /\ media'[j] # 0
        /\ \A i \in Jobs : i # j => media'[i] = media[i]
        /\ \A i \in Jobs : media[i] # 0 => media'[i] # 0
    BY <1>1, <1>3, <1>5 DEF LogTyped
  <1>7. kind[p] # Overwriting =>
           /\ media[j] = 0 /\ ~HasRecord(j)
           /\ \A q \in Runners : proc[q].at = "record" => proc[q].job # j
    BY SavesWhereNoneWas
  <1>8. Draws(p)
    BY <1>1, <1>3 DEF Started
  <1> HIDE DEF j
  <1>9. TeamFits' /\ InputsTyped' /\ SyncTyped'
    BY <1>1, <1>2 DEF TeamFits, InputsTyped, SyncTyped, Alike
  <1>10. LogTyped' /\ ProcsTyped'
    BY <1>1, <1>2, <1>4, <1>6 DEF LogTyped, ProcsTyped
  <1>11. Started' /\ OwnJobs'
    BY <1>1, <1>2, <1>3, <1>4, <1>5 DEF Started, OwnJobs, Draws
  <1>12. Locked'
    BY <1>1, <1>2, <1>3, <1>4 DEF Locked
  <1>13. RecordsFit'
    <2>1. ASSUME Links, HasRecord(j)
          PROVE  FALSE
      <3>1. kind[p] # Overwriting
        BY <2>1, KindFields DEF Links
      <3> QED
        BY <1>7, <2>1, <3>1
    <2>2. \A i \in Jobs : Links => (HasRecord(i) => recorded[i].image = media'[i])
      BY <1>1, <1>6, <2>1 DEF RecordsFit
    <2>3. \A i \in Jobs : (\A q \in Runners : Draws(q)) => (HasRecord(i) => media'[i] # 0)
      BY <1>1, <1>6 DEF RecordsFit
    <2> QED
      BY <1>1, <1>2, <2>2, <2>3 DEF RecordsFit, HasRecord, Draws, Links
  <1>14. RecordFits'
    <2>1. ASSUME NEW q \in Runners, proc'[q].at = "record"
          PROVE  /\ Draws(q) => media'[proc'[q].job] # 0
                 /\ kind[q] # Overwriting => ~HasRecord(proc'[q].job)
      <3>1. CASE q = p
        BY <1>4, <1>6, <1>7, <3>1
      <3>2. CASE q # p
        <4>1. proc[q].at = "record" /\ proc[q].job \in Jobs
          BY <1>1, <1>4, <2>1, <3>2 DEF OwnJobs, TeamFits
        <4> QED
          BY <1>1, <1>4, <1>6, <3>2, <4>1 DEF RecordFits
      <3> QED
        BY <3>1, <3>2
    <2>2. ASSUME NEW q \in Runners, proc'[q].at = "record", kind[q] # Overwriting,
                 NEW r \in Runners, r # q, proc'[r].at = "record"
          PROVE  proc'[r].job # proc'[q].job
      <3>1. \A s \in Runners : proc[s].at = "record" => proc[s].job # j
        <4>1. kind[p] # Overwriting
          BY <1>1, <2>2, Met
        <4> QED
          BY <1>7, <4>1
      <3>2. CASE q = p
        BY <1>4, <2>2, <3>1, <3>2
      <3>3. CASE r = p
        BY <1>4, <2>2, <3>1, <3>3
      <3>4. CASE q # p /\ r # p
        BY <1>1, <1>4, <2>2, <3>4 DEF RecordFits
      <3> QED
        BY <3>2, <3>3, <3>4
    <2> QED
      BY <1>2, <2>1, <2>2 DEF RecordFits, HasRecord, Draws
  <1>15. Fresh'
    <2>1. ASSUME NEW q \in Runners, kind[q] = Legacy
          PROVE  /\ \A i \in proc'[q].todo : media'[i] = 0
                 /\ proc'[q].at = "draw" => media'[proc'[q].job] = 0
      <3>1. proc[q].todo \subseteq part[q] /\ part[q] \subseteq Jobs
        BY <1>1 DEF OwnJobs, TeamFits
      <3>2. CASE q = p
        <4>1. \A i \in proc[p].todo : i # j /\ i \in Jobs /\ media[i] = 0
          BY <1>1, <1>5, <2>1, <3>1, <3>2 DEF Fresh
        <4> QED
          BY <1>4, <1>6, <3>2, <4>1
      <3>3. CASE q # p
        <4>1. j \notin part[q]
          BY <1>1, <1>5, <2>1, <3>3 DEF TeamFits, Ranges
        <4>2. proc[q].at = "draw" => proc[q].job \in part[q]
          BY <1>1 DEF OwnJobs
        <4> QED
          BY <1>1, <1>4, <1>6, <2>1, <3>1, <3>3, <4>1, <4>2 DEF Fresh
      <3> QED
        BY <3>2, <3>3
    <2>2. ASSUME NEW q \in Runners, kind[q] = Descriptions, NEW i \in proc'[q].todo
          PROVE  ~HasRecord(i)
      BY <1>1, <1>4, <2>2 DEF Fresh
    <2> QED
      BY <1>2, <2>1, <2>2 DEF Fresh, HasRecord
  <1>16. Passed'
    <2>1. ASSUME NEW q \in Runners, kind[q].approves
          PROVE  /\ \A i \in proc'[q].todo : verdict[proc'[q].request][i] = "pass"
                 /\ proc'[q].at \in {"draw", "record"} =>
                       verdict[proc'[q].request][proc'[q].job] = "pass"
      BY <1>1, <1>3, <1>4, <2>1 DEF Passed, j
    <2> QED
      BY <1>1, <1>2, <2>1 DEF Passed, HasRecord
  <1>17. PinnedFits'
    BY <1>1, <1>2, <1>3, <1>4 DEF PinnedFits, HasRecord
  <1>18. ScanFits'
    BY <1>1, <1>2, <1>3, <1>4 DEF ScanFits, HasRecord, Alike, Compares
  <1>19. SyncFits'
    <2>1. ASSUME NEW i \in Jobs, Shown(i)
          PROVE  attached[i] # 0 /\ (Legacies => attached[i] = media'[i])
      <3>1. CASE i # j \/ ~Legacies
        BY <1>6, <2>1, <3>1 DEF Shown
      <3>2. CASE i = j /\ Legacies
        <4>1. kind[p] = Legacy
          BY <1>1, <3>2, Met DEF Legacies
        <4>2. media[j] = 0
          BY <1>7, <4>1, KindsDiffer
        <4> QED
          BY <2>1, <3>2, <4>2 DEF Shown
      <3> QED
        BY <3>1, <3>2
    <2>2. sync.batch \subseteq Jobs /\ listed \subseteq Jobs
      BY <1>1 DEF SyncTyped, Syncs
    <2>3. sync.at # "idle" => \A i \in sync.batch : media'[i] # 0
      BY <1>1, <1>6, <2>2 DEF SyncFits
    <2>4. /\ sync.at = "save" =>
                \A i \in sync.batch : attached[i] # 0 /\ (Legacies => attached[i] = media'[i])
          /\ \A i \in listed : attached[i] # 0 /\ (Legacies => attached[i] = media'[i])
      BY <1>1, <2>1, <2>2 DEF SyncFits
    <2> QED
      BY <1>1, <1>2, <2>3, <2>4 DEF SyncFits, Shown, Legacies, Ranges
  <1> QED
    BY <1>9, <1>10, <1>11, <1>12, <1>13, <1>14, <1>15, <1>16, <1>17, <1>18, <1>19
    DEF GenerationInv

LEMMA RecordKeepsInv ==
  ASSUME GenerationInv, NEW p \in Runners, Record(p)
  PROVE  GenerationInv'
  <1> DEFINE j == proc[p].job
             r == [image |-> IF Draws(p) THEN media[j] ELSE drawn[j], request |-> Request(p)]
             lost == torn /\ ~kind[p].mends
  <1>1. /\ TeamFits /\ InputsTyped /\ LogTyped /\ ProcsTyped /\ SyncTyped
        /\ Started /\ OwnJobs /\ Locked /\ RecordsFit /\ RecordFits /\ Fresh
        /\ Passed /\ PinnedFits /\ ScanFits /\ SyncFits
    BY DEF GenerationInv
  <1>2. /\ kind' = kind /\ part' = part /\ input' = input /\ refs' = refs
        /\ verdict' = verdict /\ media' = media /\ drawn' = drawn /\ pinned' = pinned
        /\ sync' = sync /\ attached' = attached /\ listed' = listed /\ holder' = holder
    BY DEF Record, roles, inputs, images, shop
  <1>3. /\ proc[p].at = "record"
        /\ proc' = [proc EXCEPT ![p].at = "take"]
    BY DEF Record, At, GoesTo
  <1>4. /\ proc'[p] = [proc[p] EXCEPT !.at = "take"]
        /\ proc'[p].at = "take" /\ proc'[p].todo = proc[p].todo
        /\ proc'[p].request = proc[p].request
        /\ \A q \in Runners : q # p => proc'[q] = proc[q]
        /\ proc' \in [Runners -> Generators]
    BY <1>1, <1>3 DEF ProcsTyped, Generators, Spots
  <1>5. CASE lost
    <2> DEFINE new == [proc[p] EXCEPT !.at = "take"]
    <2>1. proc' = [proc EXCEPT ![p] = new] /\ recorded' = recorded /\ times' = times
      BY <1>3, <1>5 DEF Record
    <2>2. UNCHANGED Rest
      BY <1>2, <2>1 DEF Rest, roles
    <2>3. /\ new \in Generators /\ new.at = "take" /\ new.todo = proc[p].todo
          /\ new.request = proc[p].request
      BY <1>1 DEF ProcsTyped, Generators, Spots
    <2> HIDE DEF new
    <2>4. May(p, new) /\ Apart(p, new) /\ Pins(p, new, pinned)
      BY <1>3, <2>3, GoMay
    <2>5. drawn' \in [Jobs -> Nat]
      BY <1>1, <1>2 DEF LogTyped
    <2> QED
      BY <1>2, <1>3, <2>1, <2>2, <2>4, <2>5, Works
  <1>6. CASE ~lost
    <2>1. /\ recorded' = [recorded EXCEPT ![j] = r]
          /\ times' = [times EXCEPT ![j] = @ + 1]
      BY <1>6 DEF Record
    <2>2. j \in part[p] \ proc[p].todo /\ j \in Jobs
      BY <1>1, <1>3 DEF OwnJobs, TeamFits
    <2>3. /\ r \in Records /\ r # Absent /\ r.request = proc[p].request
          /\ (Draws(p) => r.image = media[j])
      <3>1. Request(p) \in Versions /\ Request(p) = proc[p].request
        BY <1>1, <1>3 DEF Started, Request
      <3>2. media[j] \in Nat /\ drawn[j] \in Nat
        BY <1>1, <2>2 DEF LogTyped
      <3>3. r \in Records
        BY <3>1, <3>2 DEF Records
      <3> QED
        BY <3>1, <3>3, AbsentIsNothing
    <2> HIDE DEF r, lost, j
    <2>4. /\ recorded'[j] = r /\ times'[j] = times[j] + 1
          /\ \A i \in Jobs : i # j => recorded'[i] = recorded[i] /\ times'[i] = times[i]
          /\ recorded' \in [Jobs -> {Absent} \cup Records] /\ times' \in [Jobs -> Nat]
      BY <1>1, <2>1, <2>2, <2>3 DEF LogTyped
    <2>5. TeamFits' /\ InputsTyped' /\ SyncTyped'
      BY <1>1, <1>2 DEF TeamFits, InputsTyped, SyncTyped, Alike
    <2>6. LogTyped' /\ ProcsTyped'
      BY <1>1, <1>2, <1>4, <2>4 DEF LogTyped, ProcsTyped
    <2>7. Started' /\ OwnJobs'
      BY <1>1, <1>2, <1>3, <1>4 DEF Started, OwnJobs, Draws
    <2>8. Locked'
      BY <1>1, <1>2, <1>3, <1>4 DEF Locked
    <2>9. kind[p] # Overwriting =>
             /\ times[j] = 0
             /\ \A q \in Runners : q # p /\ proc[q].at = "record" => proc[q].job # j
      BY <1>1, <1>3, <2>2 DEF RecordFits, RecordsFit, j
    <2>10. Draws(p) => media[j] # 0
      BY <1>1, <1>3 DEF RecordFits, j
    <2>11. RecordsFit'
      <3>1. \A i \in Jobs : times'[i] = 0 <=> recorded'[i] = Absent
        BY <1>1, <2>3, <2>4 DEF RecordsFit, HasRecord, LogTyped
      <3>2. \A i \in Jobs : (\A q \in Runners : kind[q] # Overwriting) => times'[i] <= 1
        BY <1>1, <2>4, <2>9 DEF RecordsFit
      <3>3. \A i \in Jobs : (\A q \in Runners : Draws(q)) => (recorded'[i] # Absent => media[i] # 0)
        BY <1>1, <2>4, <2>10 DEF RecordsFit, HasRecord
      <3>4. \A i \in Jobs : Links => (recorded'[i] # Absent => recorded'[i].image = media[i])
        <4>1. Links => Draws(p)
          BY KindFields DEF Links, Draws
        <4> QED
          BY <1>1, <2>3, <2>4, <4>1 DEF RecordsFit, HasRecord
      <3> QED
        BY <1>2, <3>1, <3>2, <3>3, <3>4 DEF RecordsFit, HasRecord, Draws, Links
    <2>12. RecordFits'
      <3>1. ASSUME NEW q \in Runners, proc'[q].at = "record"
            PROVE  /\ q # p /\ proc'[q] = proc[q]
                   /\ Draws(q) => media[proc[q].job] # 0
                   /\ kind[q] # Overwriting => recorded'[proc[q].job] = Absent
        <4>1. q # p /\ proc'[q] = proc[q] /\ proc[q].at = "record"
          BY <1>4, <3>1
        <4>2. proc[q].job \in Jobs
          BY <1>1, <4>1 DEF OwnJobs, TeamFits
        <4>3. kind[q] # Overwriting => proc[q].job # j
          BY <1>1, <2>9, <4>1, Met
        <4> QED
          BY <1>1, <2>4, <4>1, <4>2, <4>3 DEF RecordFits, HasRecord
      <3>2. ASSUME NEW q \in Runners, proc'[q].at = "record", kind[q] # Overwriting,
                   NEW s \in Runners, s # q, proc'[s].at = "record"
            PROVE  proc'[s].job # proc'[q].job
        BY <1>1, <3>1, <3>2 DEF RecordFits
      <3>3. UNCHANGED <<kind, media>>
        BY <1>2
      <3>4. ASSUME NEW q \in Runners, proc'[q].at = "record"
            PROVE  /\ Draws(q) => media[proc'[q].job] # 0
                   /\ kind[q] # Overwriting => recorded'[proc'[q].job] = Absent
        BY <3>1, <3>4
      <3> QED
        BY <3>2, <3>3, <3>4 DEF RecordFits, HasRecord, Draws
    <2>13. Fresh'
      <3>1. ASSUME NEW q \in Runners, kind[q] = Legacy
            PROVE  /\ \A i \in proc'[q].todo : media[i] = 0
                   /\ proc'[q].at = "draw" => media[proc'[q].job] = 0
        <4>1. /\ \A i \in proc[q].todo : media[i] = 0
              /\ proc[q].at = "draw" => media[proc[q].job] = 0
          BY <1>1, <3>1 DEF Fresh
        <4>2. CASE q = p
          BY <1>4, <4>1, <4>2
        <4>3. CASE q # p
          BY <1>4, <4>1, <4>3
        <4> QED
          BY <4>2, <4>3
      <3>2. ASSUME NEW q \in Runners, kind[q] = Descriptions, NEW i \in proc'[q].todo
            PROVE  recorded'[i] = Absent
        <4>1. proc'[q].todo = proc[q].todo /\ proc[q].todo \subseteq Jobs
          BY <1>1, <1>4 DEF OwnJobs, TeamFits
        <4>2. q = p
          <5>1. kind[p] = Descriptions
            BY <1>1, <3>2, Met
          <5>2. proc[q].at # "idle"
            BY <1>1, <3>2, <4>1 DEF Started
          <5> QED
            BY <1>1, <1>3, <3>2, <5>1, <5>2, WorksAlone
        <4>3. i # j
          BY <2>2, <3>2, <4>1, <4>2
        <4> QED
          BY <1>1, <2>4, <3>2, <4>1, <4>3 DEF Fresh, HasRecord
      <3> QED
        BY <1>2, <3>1, <3>2 DEF Fresh, HasRecord
    <2>14. Passed'
      <3>1. ASSUME NEW q \in Runners, kind[q].approves
            PROVE  /\ \A i \in proc'[q].todo : verdict[proc'[q].request][i] = "pass"
                   /\ proc'[q].at \in {"draw", "record"} =>
                         verdict[proc'[q].request][proc'[q].job] = "pass"
        <4>1. CASE q = p
          <5>1. \A i \in proc[p].todo : verdict[proc[p].request][i] = "pass"
            BY <1>1, <3>1, <4>1 DEF Passed
          <5> QED
            BY <1>4, <4>1, <5>1
        <4>2. CASE q # p
          BY <1>1, <1>4, <3>1, <4>2 DEF Passed
        <4> QED
          BY <4>1, <4>2
      <3>2. ASSUME \A q \in Runners : kind[q].approves, NEW i \in Jobs, recorded'[i] # Absent
            PROVE  verdict[recorded'[i].request][i] = "pass"
        <4>1. CASE i = j
          BY <1>1, <1>3, <2>3, <2>4, <3>2, <4>1 DEF Passed, j
        <4>2. CASE i # j
          BY <1>1, <2>4, <3>2, <4>2 DEF Passed, HasRecord
        <4> QED
          BY <4>1, <4>2
      <3> QED
        BY <1>2, <3>1, <3>2 DEF Passed, HasRecord
    <2>15. PinnedFits'
      <3>1. ASSUME NEW q \in Runners, kind[q].pins, proc'[q].at \notin {"idle", "pin", "pinning"}
            PROVE  pinned # Absent /\ pinned.request = proc'[q].request
        BY <1>1, <1>3, <1>4, <3>1 DEF PinnedFits
      <3>2. ASSUME \A q \in Runners : kind[q].pins, NEW i \in Jobs, recorded'[i] # Absent
            PROVE  pinned # Absent /\ recorded'[i].request = pinned.request
        BY <1>1, <1>3, <2>3, <2>4, <3>2 DEF PinnedFits, HasRecord
      <3> QED
        BY <1>2, <3>1, <3>2 DEF PinnedFits, HasRecord
    <2>16. ScanFits'
      <3>1. ASSUME Alike, Compares, NEW i \in Jobs, recorded'[i] # Absent
            PROVE  recorded'[i].request = proc[p].request
        BY <1>1, <1>3, <2>3, <2>4, <3>1 DEF ScanFits, HasRecord
      <3>2. ASSUME Alike, Compares, NEW q \in Runners,
                   proc'[q].at \in {"take", "draw", "record"}
            PROVE  q = p
        <4>1. SUFFICES ASSUME q # p PROVE FALSE
          OBVIOUS
        <4>2. proc[q].at # "idle"
          BY <1>4, <3>2, <4>1
        <4>3. kind[p] = kind[q] /\ kind[p] \in {Reference, Repair}
          BY <1>1, <3>2, Met DEF Alike, Compares
        <4> QED
          BY <1>1, <1>3, <4>1, <4>2, <4>3, WorksAlone
      <3> QED
        BY <1>2, <1>4, <3>1, <3>2 DEF ScanFits, HasRecord, Alike, Compares
    <2>17. SyncFits'
      BY <1>1, <1>2 DEF SyncFits, Shown, Legacies, Ranges
    <2> QED
      BY <2>5, <2>6, <2>7, <2>8, <2>11, <2>12, <2>13, <2>14, <2>15, <2>16, <2>17
      DEF GenerationInv
  <1> QED
    BY <1>5, <1>6

-----------------------------------------------------------------------------
(* Audits, people and the synchronisation.                                 *)

\* A word once heard of a reference is not taken back.
LEMMA AuditsAdd ==
  ASSUME InputsTyped, NEW v \in Versions, Audits(v)
  PROVE  /\ verdict' \in Audited
         /\ \A w \in Versions, j \in Jobs :
               verdict[w][j] = "pass" => verdict'[w][j] = "pass"
  <1>1. PICK j \in Open(v), word \in {"pass", "fail"} :
            verdict' = [verdict EXCEPT ![v][j] = word]
    BY DEF Audits
  <1>2. j \in Jobs /\ verdict[v][j] = "none" /\ verdict \in Audited
    BY DEF Open, InputsTyped
  <1>3. verdict' \in Audited
    BY <1>1, <1>2 DEF Audited
  <1>4. \A w \in Versions, i \in Jobs : verdict[w][i] = "pass" => verdict'[w][i] = "pass"
    BY <1>1, <1>2 DEF Audited
  <1> QED
    BY <1>3, <1>4

\* An audit may send the generator that waits for it back to its scan.
LEMMA HearingKeepsInv ==
  ASSUME GenerationInv, NEW v \in Versions, Audits(v),
         proc' \in [Runners -> Generators],
         \A p \in Runners :
            /\ proc'[p].todo = proc[p].todo /\ proc'[p].job = proc[p].job
            /\ proc'[p].request = proc[p].request
            /\ proc'[p].at = proc[p].at
               \/ (proc[p].at = "audit" /\ proc'[p].at = "scan"),
         UNCHANGED <<roles, input, refs, pinned, media, drawn, recorded, times,
                     holder, sync, attached, listed>>
  PROVE  GenerationInv'
  <1>1. /\ TeamFits /\ InputsTyped /\ LogTyped /\ ProcsTyped /\ SyncTyped
        /\ Started /\ OwnJobs /\ Locked /\ RecordsFit /\ RecordFits /\ Fresh
        /\ Passed /\ PinnedFits /\ ScanFits /\ SyncFits
    BY DEF GenerationInv
  <1>2. /\ kind' = kind /\ part' = part /\ input' = input /\ refs' = refs
        /\ pinned' = pinned /\ media' = media /\ drawn' = drawn
        /\ recorded' = recorded /\ times' = times /\ holder' = holder
        /\ sync' = sync /\ attached' = attached /\ listed' = listed
    BY DEF roles
  <1>3. /\ verdict' \in Audited
        /\ \A w \in Versions, j \in Jobs :
               verdict[w][j] = "pass" => verdict'[w][j] = "pass"
    BY <1>1, AuditsAdd
  <1>4. TeamFits' /\ InputsTyped' /\ SyncTyped'
    BY <1>1, <1>2, <1>3 DEF TeamFits, InputsTyped, SyncTyped, Alike
  <1>5. LogTyped' /\ ProcsTyped'
    BY <1>1, <1>2 DEF LogTyped, ProcsTyped
  <1>6. Started'
    BY <1>1, <1>2 DEF Started, Draws
  <1>7. OwnJobs'
    BY <1>1, <1>2 DEF OwnJobs
  <1>8. Locked'
    BY <1>1, <1>2 DEF Locked
  <1>9. RecordsFit' /\ SyncFits'
    BY <1>1, <1>2 DEF RecordsFit, HasRecord, Draws, Links, SyncFits, Shown, Legacies, Ranges
  <1>10. RecordFits'
    BY <1>1, <1>2 DEF RecordFits, HasRecord, Draws
  <1>11. Fresh'
    BY <1>1, <1>2 DEF Fresh, HasRecord
  <1>12. Passed'
    <2>1. ASSUME NEW p \in Runners, kind[p].approves
          PROVE  /\ \A j \in proc'[p].todo : verdict'[proc'[p].request][j] = "pass"
                 /\ proc'[p].at \in {"draw", "record"} =>
                       verdict'[proc'[p].request][proc'[p].job] = "pass"
      <3>1. proc[p].todo \subseteq Jobs /\ part[p] \subseteq Jobs
        BY <1>1 DEF OwnJobs, TeamFits
      <3>2. proc'[p].at \in {"draw", "record"} =>
               proc[p].at \in {"draw", "record"} /\ proc[p].job \in Jobs
        BY <1>1, <3>1 DEF OwnJobs
      <3>3. proc[p].at # "idle" => proc[p].request \in Versions
        BY <1>1 DEF Started
      <3>4. proc[p].todo # {} => proc[p].at # "idle"
        BY <1>1 DEF Started
      <3>5. /\ \A j \in proc[p].todo : verdict[proc[p].request][j] = "pass"
            /\ proc[p].at \in {"draw", "record"} =>
                  verdict[proc[p].request][proc[p].job] = "pass"
        BY <1>1, <2>1 DEF Passed
      <3> QED
        BY <1>3, <3>1, <3>2, <3>3, <3>4, <3>5
    <2>2. ASSUME \A p \in Runners : kind[p].approves, NEW j \in Jobs, HasRecord(j)
          PROVE  verdict'[recorded[j].request][j] = "pass"
      <3>1. recorded[j].request \in Versions
        BY <1>1, <2>2 DEF LogTyped, HasRecord, Records
      <3> QED
        BY <1>1, <1>3, <2>2, <3>1 DEF Passed
    <2> QED
      BY <1>2, <2>1, <2>2 DEF Passed, HasRecord
  <1>13. PinnedFits'
    BY <1>1, <1>2 DEF PinnedFits, HasRecord
  <1>14. ScanFits'
    BY <1>1, <1>2 DEF ScanFits, HasRecord, Alike, Compares
  <1> QED
    BY <1>4, <1>5, <1>6, <1>7, <1>8, <1>9, <1>10, <1>11, <1>12, <1>13, <1>14
    DEF GenerationInv

LEMMA AuditRoundKeepsInv ==
  ASSUME GenerationInv, NEW p \in Runners, AuditRound(p)
  PROVE  GenerationInv'
  <1>1. InputsTyped /\ LogTyped /\ ProcsTyped /\ Started
    BY DEF GenerationInv
  <1>2. proc[p].at = "audit"
    BY DEF AuditRound, At
  <1>3. /\ kind' = kind /\ part' = part /\ input' = input /\ refs' = refs
        /\ pinned' = pinned /\ media' = media /\ drawn' = drawn
        /\ recorded' = recorded /\ times' = times
        /\ sync' = sync /\ attached' = attached /\ listed' = listed
    BY DEF AuditRound, roles, inputs, images, log, shop
  <1>4. CASE Open(Request(p)) = {}
    <2> DEFINE new == [proc[p] EXCEPT !.at = "scan", !.last = TRUE]
    <2>1. /\ proc' = [proc EXCEPT ![p] = new] /\ verdict' = verdict /\ holder' = holder
      BY <1>4 DEF AuditRound
    <2>2. UNCHANGED Rest /\ drawn' \in [Jobs -> Nat]
      BY <1>1, <1>3, <2>1 DEF Rest, roles, LogTyped
    <2>3. /\ new \in Generators /\ new.at = "scan" /\ new.todo = proc[p].todo
          /\ new.request = proc[p].request
      BY <1>1 DEF ProcsTyped, Generators, Spots
    <2> HIDE DEF new
    <2>4. May(p, new) /\ Apart(p, new) /\ Pins(p, new, pinned)
      BY <1>2, <2>3, GoMay
    <2> QED
      BY <1>2, <1>3, <2>1, <2>2, <2>4, Works
  <1>5. CASE Open(Request(p)) # {} /\ refs = Request(p)
    <2>1. /\ Audits(Request(p)) /\ proc' = [proc EXCEPT ![p].at = "scan"]
          /\ holder' = holder
      BY <1>5 DEF AuditRound, GoesTo
    <2>2. Request(p) \in Versions
      BY <1>1, <1>2 DEF Started, Request
    <2>3. proc' \in [Runners -> Generators]
      BY <1>1, <2>1 DEF ProcsTyped, Generators, Spots
    <2>4. \A q \in Runners :
            /\ proc'[q].todo = proc[q].todo /\ proc'[q].job = proc[q].job
            /\ proc'[q].request = proc[q].request
            /\ proc'[q].at = proc[q].at
               \/ (proc[q].at = "audit" /\ proc'[q].at = "scan")
      BY <1>1, <1>2, <2>1 DEF ProcsTyped, Generators
    <2>5. UNCHANGED <<roles, input, refs, pinned, media, drawn, recorded, times,
                      holder, sync, attached, listed>>
      BY <1>3, <2>1 DEF roles
    <2> QED
      BY <2>1, <2>2, <2>3, <2>4, <2>5, HearingKeepsInv
  <1>6. CASE Open(Request(p)) # {} /\ refs # Request(p)
    <2>1. Ends(p) /\ verdict' = verdict
      BY <1>6 DEF AuditRound, GivesUp
    <2>2. UNCHANGED Rest
      BY <1>3, <2>1 DEF Rest, roles
    <2> QED
      BY <1>3, <2>1, <2>2, EndsKeepsInv
  <1> QED
    BY <1>4, <1>5, <1>6

LEMMA AuditAloneKeepsInv ==
  ASSUME GenerationInv, AuditAlone
  PROVE  GenerationInv'
  <1>1. InputsTyped /\ ProcsTyped
    BY DEF GenerationInv
  <1>2. Audits(input) /\ input \in Versions /\ proc' = proc
    BY <1>1 DEF AuditAlone, InputsTyped
  <1>3. proc' \in [Runners -> Generators]
    BY <1>1, <1>2 DEF ProcsTyped
  <1>4. UNCHANGED <<roles, input, refs, pinned, media, drawn, recorded, times,
                    holder, sync, attached, listed>>
    BY DEF AuditAlone, roles, inputs, images, log, shop
  <1> QED
    BY <1>2, <1>3, <1>4, HearingKeepsInv

\* What neither the pictures nor the generators are part of.
LEMMA ElsewhereKeepsInv ==
  ASSUME GenerationInv, InputsTyped', SyncTyped', SyncFits',
         UNCHANGED <<roles, pinned, media, drawn, recorded, times, verdict, holder, proc>>
  PROVE  GenerationInv'
  <1>1. /\ TeamFits /\ InputsTyped /\ LogTyped /\ ProcsTyped /\ SyncTyped
        /\ Started /\ OwnJobs /\ Locked /\ RecordsFit /\ RecordFits /\ Fresh
        /\ Passed /\ PinnedFits /\ ScanFits /\ SyncFits
    BY DEF GenerationInv
  <1>2. /\ kind' = kind /\ part' = part /\ pinned' = pinned /\ media' = media
        /\ drawn' = drawn /\ recorded' = recorded /\ times' = times
        /\ verdict' = verdict /\ holder' = holder /\ proc' = proc
    BY DEF roles
  <1>3. TeamFits' /\ LogTyped' /\ ProcsTyped' /\ Started' /\ OwnJobs' /\ Locked'
    BY <1>1, <1>2 DEF TeamFits, LogTyped, ProcsTyped, Started, OwnJobs, Locked, Alike, Draws
  <1>4. RecordsFit' /\ RecordFits' /\ Fresh'
    BY <1>1, <1>2 DEF RecordsFit, RecordFits, Fresh, HasRecord, Links, Draws
  <1>5. Passed' /\ PinnedFits' /\ ScanFits'
    BY <1>1, <1>2 DEF Passed, PinnedFits, ScanFits, HasRecord, Alike, Compares
  <1> QED
    BY <1>3, <1>4, <1>5 DEF GenerationInv

LEMMA EditKeepsInv ==
  ASSUME GenerationInv, Edit
  PROVE  GenerationInv'
  <1>1. InputsTyped /\ SyncTyped /\ SyncFits
    BY DEF GenerationInv
  <1>2. UNCHANGED <<roles, pinned, media, drawn, recorded, times, verdict, holder, proc,
                    sync, attached, listed>>
    BY DEF Edit, roles, images, log, shop
  <1>3. InputsTyped'
    BY <1>1, <1>2 DEF Edit, InputsTyped, Versions
  <1>4. SyncTyped' /\ SyncFits'
    BY <1>1, <1>2 DEF SyncTyped, SyncFits, Shown, Legacies, Ranges, roles
  <1> QED
    BY <1>2, <1>3, <1>4, ElsewhereKeepsInv

LEMMA SyncKeepsInv ==
  ASSUME GenerationInv, Makes, sync' \in Syncs, attached' \in [Jobs -> Nat],
         listed' \subseteq Jobs,
         \A p \in Runners : Ranges(kind[p]),
         sync'.at # "idle" => \A j \in sync'.batch : media[j] # 0,
         sync'.at = "save" =>
            \A j \in sync'.batch : attached'[j] # 0 /\ (Legacies => attached'[j] = media[j]),
         \A j \in listed' : attached'[j] # 0 /\ (Legacies => attached'[j] = media[j])
  PROVE  GenerationInv'
  <1>1. UNCHANGED <<roles, pinned, media, drawn, recorded, times, verdict, holder, proc>>
    BY DEF Makes, images, log
  <1>2. InputsTyped' /\ SyncTyped'
    BY DEF GenerationInv, InputsTyped, SyncTyped, Makes, inputs
  <1>3. SyncFits'
    BY <1>1 DEF SyncFits, Shown, Legacies, Ranges, roles
  <1> QED
    BY <1>1, <1>2, <1>3, ElsewhereKeepsInv

\* The shop shows what is there for some of the batch, and what it showed.
LEMMA ShowsFits ==
  ASSUME GenerationInv, sync.at # "idle", NEW some \in SUBSET sync.batch, Shows(some)
  PROVE  /\ attached' \in [Jobs -> Nat]
         /\ \A j \in some \cup listed :
               j \in Jobs /\ attached'[j] # 0 /\ (Legacies => attached'[j] = media[j])
  <1>1. LogTyped /\ SyncTyped /\ SyncFits
    BY DEF GenerationInv
  <1>2. some \subseteq Jobs /\ listed \subseteq Jobs /\ \A j \in some : media[j] # 0
    BY <1>1 DEF SyncTyped, Syncs, SyncFits
  <1>3. attached' \in [Jobs -> Nat]
    BY <1>1 DEF Shows, LogTyped, SyncTyped
  <1>4. \A j \in some : attached'[j] = media[j]
    BY <1>2 DEF Shows
  <1>5. \A j \in listed : j \notin some => attached'[j] = attached[j] /\ Shown(j)
    BY <1>1, <1>2 DEF Shows, SyncFits
  <1>6. ASSUME NEW j \in some \cup listed
        PROVE  j \in Jobs /\ attached'[j] # 0 /\ (Legacies => attached'[j] = media[j])
    <2>1. CASE j \in some
      BY <1>2, <1>4, <2>1
    <2>2. CASE j \notin some
      BY <1>2, <1>5, <1>6, <2>2 DEF Shown
    <2> QED
      BY <2>1, <2>2
  <1> QED
    BY <1>3, <1>6

LEMMA SyncPickKeepsInv ==
  ASSUME GenerationInv, SyncPick
  PROVE  GenerationInv'
  <1> DEFINE new == {j \in Jobs : media[j] # 0} \ listed
  <1>1. SyncTyped /\ SyncFits
    BY DEF GenerationInv
  <1>2. /\ sync' = [at |-> "import", batch |-> new] /\ Makes
        /\ attached' = attached /\ listed' = listed
        /\ \A p \in Runners : Ranges(kind[p])
    BY DEF SyncPick
  <1>3. sync' \in Syncs
    BY <1>2 DEF Syncs
  <1>4. sync'.at = "import" /\ \A j \in sync'.batch : media[j] # 0
    BY <1>2
  <1>5. \A j \in listed : attached[j] # 0 /\ (Legacies => attached[j] = media[j])
    BY <1>1 DEF SyncFits, Shown
  <1>6. attached' \in [Jobs -> Nat] /\ listed' \subseteq Jobs
    BY <1>1, <1>2 DEF SyncTyped
  <1> QED
    BY <1>2, <1>3, <1>4, <1>5, <1>6, SyncKeepsInv

LEMMA SyncImportKeepsInv ==
  ASSUME GenerationInv, SyncImport
  PROVE  GenerationInv'
  <1>1. SyncTyped /\ SyncFits
    BY DEF GenerationInv
  <1>2. /\ sync.at = "import" /\ Shows(sync.batch)
        /\ sync' = [sync EXCEPT !.at = "save"] /\ Makes /\ listed' = listed
    BY DEF SyncImport
  <1>3. sync' \in Syncs /\ sync'.at = "save" /\ sync'.batch = sync.batch
    BY <1>1, <1>2 DEF SyncTyped, Syncs
  <1>4. /\ attached' \in [Jobs -> Nat]
        /\ \A j \in sync.batch \cup listed :
              attached'[j] # 0 /\ (Legacies => attached'[j] = media[j])
    BY <1>2, ShowsFits
  <1>5. /\ \A p \in Runners : Ranges(kind[p])
        /\ \A j \in sync.batch : media[j] # 0
        /\ listed \subseteq Jobs
    BY <1>1, <1>2 DEF SyncFits, SyncTyped
  <1> QED
    BY <1>2, <1>3, <1>4, <1>5, SyncKeepsInv

LEMMA SyncSaveKeepsInv ==
  ASSUME GenerationInv, SyncSave
  PROVE  GenerationInv'
  <1>1. SyncTyped /\ SyncFits
    BY DEF GenerationInv
  <1>2. /\ sync.at = "save" /\ listed' = listed \cup sync.batch
        /\ sync' = [at |-> "idle", batch |-> {}] /\ Makes /\ attached' = attached
    BY DEF SyncSave
  <1>3. sync' \in Syncs /\ sync'.at = "idle"
    BY <1>2 DEF Syncs
  <1>4. /\ \A p \in Runners : Ranges(kind[p])
        /\ listed' \subseteq Jobs /\ attached' \in [Jobs -> Nat]
    BY <1>1, <1>2 DEF SyncFits, SyncTyped, Syncs
  <1>5. \A j \in listed' : attached[j] # 0 /\ (Legacies => attached[j] = media[j])
    BY <1>1, <1>2 DEF SyncFits, Shown
  <1> QED
    BY <1>2, <1>3, <1>4, <1>5, SyncKeepsInv

LEMMA SyncFailKeepsInv ==
  ASSUME GenerationInv, SyncFail
  PROVE  GenerationInv'
  <1>1. SyncTyped /\ SyncFits
    BY DEF GenerationInv
  <1>2. /\ sync.at # "idle" /\ listed' = listed
        /\ sync' = [at |-> "idle", batch |-> {}] /\ Makes
    BY DEF SyncFail
  <1>3. sync' \in Syncs /\ sync'.at = "idle"
    BY <1>2 DEF Syncs
  <1>4. /\ attached' \in [Jobs -> Nat]
        /\ \A j \in listed : attached'[j] # 0 /\ (Legacies => attached'[j] = media[j])
    <2>1. CASE sync.at = "import"
      <3>1. PICK some \in SUBSET sync.batch : Shows(some)
        BY <2>1 DEF SyncFail
      <3> QED
        BY <1>2, <3>1, ShowsFits
    <2>2. CASE sync.at # "import"
      BY <1>1, <2>2 DEF SyncFail, SyncTyped, SyncFits, Shown
    <2> QED
      BY <2>1, <2>2
  <1>5. (\A p \in Runners : Ranges(kind[p])) /\ listed' \subseteq Jobs
    BY <1>1, <1>2 DEF SyncFits, SyncTyped
  <1> QED
    BY <1>2, <1>3, <1>4, <1>5, SyncKeepsInv

-----------------------------------------------------------------------------
(* The specification.                                                      *)

LEMMA InitGenerationInv == GenerationInit => GenerationInv
  <1> SUFFICES ASSUME GenerationInit PROVE GenerationInv
    OBVIOUS
  <1>1. /\ kind \in Teams /\ part \in [Runners -> SUBSET Jobs]
        /\ \A p, q \in Runners :
              IF Ranges(kind[p]) THEN p # q => part[p] \cap part[q] = {}
                                 ELSE part[p] = Jobs
        /\ input = 1 /\ refs = 1 /\ pinned = Absent
        /\ media = [j \in Jobs |-> 0] /\ drawn = [j \in Jobs |-> 0]
        /\ recorded = [j \in Jobs |-> Absent] /\ times = [j \in Jobs |-> 0]
        /\ verdict = [v \in Versions |-> [j \in Jobs |-> "none"]]
        /\ holder = [l \in Locks |-> Absent]
        /\ proc = [p \in Runners |-> Resting]
        /\ sync = [at |-> "idle", batch |-> {}]
        /\ attached = [j \in Jobs |-> 0] /\ listed = {}
    BY DEF GenerationInit
  <1>2. /\ Resting.at = "idle" /\ Resting.todo = {} /\ Resting \in Generators
    BY DEF Resting, Generators, Spots
  <1>3. \A j \in Jobs : ~HasRecord(j)
    BY <1>1 DEF HasRecord
  <1>4. TeamFits
    BY <1>1, TeamsAre DEF TeamFits, Alike
  <1>5. InputsTyped /\ LogTyped /\ ProcsTyped /\ SyncTyped
    BY <1>1, <1>2
    DEF InputsTyped, LogTyped, ProcsTyped, SyncTyped, Versions, Audited, Syncs
  <1>6. Started /\ OwnJobs /\ Locked
    BY <1>1, <1>2 DEF Started, OwnJobs, Locked
  <1>7. RecordsFit /\ RecordFits /\ Fresh
    BY <1>1, <1>2, <1>3 DEF RecordsFit, RecordFits, Fresh
  <1>8. Passed /\ PinnedFits /\ ScanFits
    BY <1>1, <1>2, <1>3 DEF Passed, PinnedFits, ScanFits
  <1>9. SyncFits
    BY <1>1 DEF SyncFits
  <1> QED
    BY <1>4, <1>5, <1>6, <1>7, <1>8, <1>9 DEF GenerationInv

LEMMA NextKeepsGenerationInv ==
  ASSUME GenerationInv, [GenerationNext]_generationVars
  PROVE  GenerationInv'
  <1>1. ASSUME NEW p \in Runners,
               Start(p) \/ Work(p) \/ FailJob(p) \/ Die(p) \/ Orphan(p)
        PROVE  GenerationInv'
    <2>1. CASE Start(p)
      BY <2>1, StartKeepsInv
    <2>2. CASE Pin(p)
      BY <2>2, PinKeepsInv
    <2>3. CASE Scan(p)
      BY <2>3, ScanKeepsInv
    <2>4. CASE Spawn(p)
      BY <2>4, SpawnKeepsInv
    <2>5. CASE Refuse(p)
      BY <2>5, RefuseKeepsInv
    <2>6. CASE Take(p)
      BY <2>6, TakeKeepsInv
    <2>7. CASE SaveImage(p)
      BY <2>7, SaveImageKeepsInv
    <2>8. CASE Record(p)
      BY <2>8, RecordKeepsInv
    <2>9. CASE FailJob(p)
      BY <2>9, FailJobKeepsInv
    <2>10. CASE Finish(p)
      BY <2>10, FinishKeepsInv
    <2>11. CASE AuditRound(p)
      BY <2>11, AuditRoundKeepsInv
    <2>12. CASE Die(p)
      BY <2>12, DieKeepsInv
    <2>13. CASE Orphan(p)
      BY <2>13, OrphanKeepsInv
    <2>14. CASE OpenInput(p) \/ WriteInput(p)
      BY <2>14, InputsKeepInv
    <2>15. CASE WriteList(p)
      BY <2>15, WriteListKeepsInv
    <2> QED
      BY <1>1, <2>1, <2>2, <2>3, <2>4, <2>5, <2>6, <2>7, <2>8, <2>9, <2>10,
         <2>11, <2>12, <2>13, <2>14, <2>15 DEF Work
  <1>2. CASE SyncPick
    BY <1>2, SyncPickKeepsInv
  <1>3. CASE SyncImport
    BY <1>3, SyncImportKeepsInv
  <1>4. CASE SyncSave
    BY <1>4, SyncSaveKeepsInv
  <1>5. CASE SyncFail
    BY <1>5, SyncFailKeepsInv
  <1>6. CASE AuditAlone
    BY <1>6, AuditAloneKeepsInv
  <1>7. CASE Edit
    BY <1>7, EditKeepsInv
  <1>8. CASE UNCHANGED generationVars
    <2>1. InputsTyped' /\ SyncTyped' /\ SyncFits'
      BY <1>8 DEF GenerationInv, InputsTyped, SyncTyped, SyncFits, Shown, Legacies,
                  Ranges, generationVars
    <2>2. UNCHANGED <<roles, pinned, media, drawn, recorded, times, verdict, holder, proc>>
      BY <1>8 DEF generationVars, roles
    <2> QED
      BY <2>1, <2>2, ElsewhereKeepsInv
  <1> QED
    BY <1>1, <1>2, <1>3, <1>4, <1>5, <1>6, <1>7, <1>8 DEF GenerationNext, Synchronises

\* In all reachable states the generators, the log, the pictures and the
\* synchronisation fit together as GenerationInv says (the locks, pending_jobs(),
\* write_once() and os.link() of the generators, import_files of
\* sync_generated_media.py).
THEOREM GenerationInvariance == GenerationSpec => []GenerationInv
  <1>1. GenerationInit => GenerationInv
    BY InitGenerationInv
  <1>2. GenerationInv /\ [GenerationNext]_generationVars => GenerationInv'
    BY NextKeepsGenerationInv
  <1> QED
    BY <1>1, <1>2, PTL DEF GenerationSpec

\* However generators race, fail and die in one directory: no job is recorded as
\* made twice, and where pictures are linked the record is about the picture
\* that is there, whose reference had passed the audit.
THEOREM RecordsTellTheTruth == GenerationSpec => []RecordsTellOfPictures
  <1>1. ASSUME GenerationInv
        PROVE  RecordsTellOfPictures
    <2>1. TeamFits /\ RecordsFit /\ Passed
      BY <1>1 DEF GenerationInv
    <2>2. ASSUME NEW j \in Jobs, \A p \in Runners : kind[p] # Overwriting
          PROVE  times[j] <= 1
      BY <2>1, <2>2 DEF RecordsFit
    <2>3. ASSUME NEW j \in Jobs, Links, recorded[j] # Absent
          PROVE  /\ recorded[j].image = media[j]
                 /\ (\A p \in Runners : kind[p].approves) =>
                       verdict[recorded[j].request][j] = "pass"
      BY <2>1, <2>3 DEF RecordsFit, Passed, HasRecord
    <2> QED
      BY <2>2, <2>3 DEF RecordsTellOfPictures
  <1>2. GenerationInv => RecordsTellOfPictures
    BY <1>1
  <1> QED
    BY <1>2, GenerationInvariance, PTL

\* Generators of one kind never mix the answers to two queues in one directory,
\* whether they pin the queue or compare what is there, also when the queue is
\* edited between and during runs.
THEOREM NoMixedRequests == GenerationSpec => []OneRequest
  <1>1. ASSUME GenerationInv, Links, Alike, NEW i \in Jobs, NEW j \in Jobs,
               recorded[i] # Absent, recorded[j] # Absent
        PROVE  recorded[i].request = recorded[j].request
    <2>1. TeamFits /\ PinnedFits /\ ScanFits
      BY <1>1 DEF GenerationInv
    <2>2. CASE \A p \in Runners : kind[p].pins
      BY <1>1, <2>1, <2>2 DEF PinnedFits, HasRecord
    <2>3. CASE \E p \in Runners : ~kind[p].pins
      <3>1. Compares
        BY <1>1, <2>3 DEF Compares, Links, Alike
      <3> QED
        BY <1>1, <2>1, <3>1 DEF ScanFits, HasRecord
    <2> QED
      BY <2>2, <2>3
  <1>2. GenerationInv => OneRequest
    BY <1>1 DEF OneRequest
  <1> QED
    BY <1>2, GenerationInvariance, PTL

\* Whatever import_files lists is shown by the shop, in its present form where
\* pictures are not overwritten.
THEOREM WhatIsListedIsShown == GenerationSpec => []ListedIsShown
  <1>1. GenerationInv => ListedIsShown
    BY DEF GenerationInv, SyncFits, Shown, Legacies, ListedIsShown
  <1> QED
    BY <1>1, GenerationInvariance, PTL

=============================================================================
