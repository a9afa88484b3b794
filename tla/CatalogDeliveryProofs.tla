----------------------- MODULE CatalogDeliveryProofs -----------------------
(***************************************************************************)
(* Delivery, for every chain of scripts that keeps ChainRules, every file  *)
(* watched, every sequence of commerce cases and every number of edits,    *)
(* deaths and mishaps: what a packet was made from, what a partial file    *)
(* holds, what an installation that is complete has in its database,       *)
(* and what a run over all the cases leaves behind.                        *)
(***************************************************************************)
EXTENDS CatalogDelivery, TLAPS

LOCAL INSTANCE SequencesExt

-----------------------------------------------------------------------------
(* Commerce cases.  The argument: a case that is opened and has neither    *)
(* passed nor is waited for is abandoned, and stays so; no run over all    *)
(* the cases gets past it.  While no case is abandoned, the one that is    *)
(* waited for is the only one that can have changed the product.           *)

Drivers == [left : Seq(Cases), waits : BOOLEAN, all : BOOLEAN, on : BOOLEAN]

CasesTyped ==
    /\ DOMAIN before = Cases
    /\ process \in [Cases -> {"none", "kept", "changed", "restored", "over"}]
    /\ receipt \in [Cases -> {"none", "passed", "failed"}]
    /\ opened \subseteq Cases
    /\ driver \in Drivers
    /\ passed \in BOOLEAN

ReceiptsFollow ==
    \A c \in Cases :
        /\ receipt[c] = "passed" => process[c] = "restored"
        /\ c \notin opened <=> process[c] = "none"
        /\ c \notin opened => receipt[c] = "none"

Waiting == driver.on /\ driver.waits

WaitsForOne ==
    Waiting => driver.left # <<>> /\ Case \in opened /\ receipt[Case] = "none"

Abandoned(c) ==
    c \in opened /\ receipt[c] # "passed" /\ ~(Waiting /\ c = Case)

SerialUnlessAbandoned ==
    \/ \E c \in Cases : Abandoned(c)
    \/ ~Waiting /\ product = {}
    \/ /\ Waiting /\ before[Case] = {}
       /\ process[Case] \in {"kept", "restored"} => product = {}

LeftToDo ==
    driver.on /\ driver.all =>
        \A c \in Cases :
            \/ receipt[c] = "passed"
            \/ \E k \in DOMAIN driver.left : driver.left[k] = c

PassedAll == passed => \A c \in Cases : receipt[c] = "passed"

CaseIInv ==
    /\ CasesTyped /\ ReceiptsFollow /\ WaitsForOne /\ SerialUnlessAbandoned
    /\ LeftToDo /\ PassedAll

LEMMA RestoredWhenPassed == CaseIInv => PassedIsRestored
  BY DEF CaseIInv, CasesTyped, WaitsForOne, SerialUnlessAbandoned, Abandoned,
         PassedAll, PassedIsRestored, Case

LEMMA NoDriverTyped == NoDriver \in Drivers /\ ~NoDriver.on /\ ~NoDriver.waits
  BY DEF NoDriver, Drivers

LEMMA DriverTyped ==
  ASSUME NEW left \in Seq(Cases), NEW all \in BOOLEAN
  PROVE  LET d == [left |-> left, waits |-> FALSE, all |-> all, on |-> TRUE]
         IN  /\ d \in Drivers /\ d.left = left /\ d.all = all
             /\ d.on /\ ~d.waits
  BY DEF Drivers

LEMMA InitCaseIInv == CaseInit => CaseIInv
  <1> SUFFICES ASSUME CaseInit PROVE CaseIInv
    OBVIOUS
  <1>1. ~driver.on /\ driver.left = <<>> /\ CasesTyped
    BY NoDriverTyped DEF CaseInit, NoDriver, CasesTyped, Drivers
  <1> QED
    BY <1>1 DEF CaseInit, CaseIInv, ReceiptsFollow, WaitsForOne, Waiting,
                SerialUnlessAbandoned, LeftToDo, PassedAll

\* The drivers' steps that touch no case.
LEMMA DriverIInv ==
  ASSUME CaseIInv, ~Waiting,
         UNCHANGED <<product, before, process, opened, receipt, passed>>,
         driver' \in Drivers,
         ~Waiting', LeftToDo'
  PROVE  CaseIInv'
  <1> USE DEF CaseIInv
  <1>1. CasesTyped' /\ ReceiptsFollow' /\ WaitsForOne' /\ PassedAll'
    BY DEF CasesTyped, Drivers, ReceiptsFollow, WaitsForOne, PassedAll
  <1>2. SerialUnlessAbandoned'
    BY DEF SerialUnlessAbandoned, Abandoned
  <1> QED
    BY <1>1, <1>2

LEMMA DriveIInv == ASSUME CaseIInv, Drive \/ SkipCase \/ Unresolved PROVE CaseIInv'
  <1>1. /\ UNCHANGED <<product, before, process, opened, receipt, passed>>
        /\ ~Waiting
    BY DEF Drive, SkipCase, Unresolved, Driving, AtCase, Waiting
  <1>2. CASE Drive
    <2>1. /\ driver' \in Drivers
          /\ ~driver'.waits /\ (driver'.all => driver'.left = Scenarios)
      BY <1>2, CaseBounds, DriverTyped DEF Drive
    <2>2. LeftToDo'
      BY <2>1 DEF LeftToDo, Cases
    <2> QED
      BY <1>1, <2>1, <2>2, DriverIInv DEF Waiting
  <1>3. CASE SkipCase
    <2>1. /\ driver.left \in Seq(Cases) /\ driver.left # <<>>
          /\ driver' = [driver EXCEPT !.left = Tail(@)] /\ ~driver.waits
          /\ receipt[Case] = "passed"
      BY <1>3 DEF SkipCase, AtCase, Resolved, CaseIInv, CasesTyped, Drivers
    <2>2. driver' \in Drivers
      <3>1. Tail(driver.left) \in Seq(Cases)
        BY <2>1
      <3> QED
        BY <2>1, <3>1 DEF CaseIInv, CasesTyped, Drivers
    <2>3. LeftToDo'
      <3> SUFFICES ASSUME driver.on, driver.all, NEW c \in Cases, receipt[c] # "passed"
                   PROVE  \E k \in DOMAIN Tail(driver.left) : Tail(driver.left)[k] = c
        BY <1>1, <2>1 DEF LeftToDo, CaseIInv, CasesTyped, Drivers
      <3>1. PICK k \in DOMAIN driver.left : driver.left[k] = c
        BY DEF CaseIInv, LeftToDo
      <3>2. k # 1
        BY <2>1, <3>1 DEF Case
      <3>3. k - 1 \in DOMAIN Tail(driver.left) /\ Tail(driver.left)[k - 1] = c
        BY <2>1, <3>1, <3>2
      <3> QED
        BY <3>3
    <2> QED
      BY <1>1, <2>1, <2>2, <2>3, DriverIInv DEF Waiting, CaseIInv, CasesTyped, Drivers
  <1>4. CASE Unresolved
    BY <1>1, <1>4, NoDriverTyped, DriverIInv DEF Unresolved, Waiting, LeftToDo
  <1> QED
    BY <1>2, <1>3, <1>4

\* A driver that is killed abandons the case that it waits for.
LEMMA KillDriverIInv == ASSUME CaseIInv, KillDriver PROVE CaseIInv'
  <1>1. /\ UNCHANGED <<product, before, process, opened, receipt, passed>>
        /\ driver' = NoDriver /\ ~Waiting'
    BY NoDriverTyped DEF KillDriver, Waiting
  <1>2. LeftToDo' /\ WaitsForOne'
    BY <1>1, NoDriverTyped DEF LeftToDo, WaitsForOne
  <1>3. CasesTyped' /\ ReceiptsFollow' /\ PassedAll'
    BY <1>1, NoDriverTyped DEF CaseIInv, CasesTyped, Drivers, ReceiptsFollow, PassedAll
  <1>4. SerialUnlessAbandoned'
    BY <1>1 DEF CaseIInv, CasesTyped, Drivers, WaitsForOne, SerialUnlessAbandoned, Abandoned
  <1> QED
    BY <1>2, <1>3, <1>4 DEF CaseIInv

\* The next case begins on a product that nobody has changed.
LEMMA StartCaseIInv == ASSUME CaseIInv, StartCase PROVE CaseIInv'
  <1>1. /\ driver.on /\ ~driver.waits /\ driver.left # <<>>
        /\ driver.left \in Seq(Cases) /\ Case \in Cases
        /\ receipt[Case] = "none" /\ Case \notin opened
        /\ UNCHANGED <<product, receipt, passed>>
        /\ opened' = opened \cup {Case}
        /\ before' = [before EXCEPT ![Case] = product]
        /\ process' = [process EXCEPT ![Case] = "kept"]
    BY DEF StartCase, AtCase, Driving, CaseIInv, CasesTyped, Drivers, Case
  <1>2. /\ driver' = [driver EXCEPT !.waits = TRUE]
        /\ driver' \in Drivers
        /\ driver'.on = driver.on /\ driver'.all = driver.all
        /\ driver'.left = driver.left /\ driver'.waits
    BY DEF StartCase, CaseIInv, CasesTyped, Drivers
  <1>3. Case' = Case /\ Waiting' /\ ~Waiting
    BY <1>1, <1>2 DEF Case, Waiting
  <1>4. CasesTyped' /\ ReceiptsFollow'
    BY <1>1, <1>2 DEF CaseIInv, CasesTyped, Drivers, ReceiptsFollow
  <1>5. WaitsForOne' /\ LeftToDo' /\ PassedAll'
    BY <1>1, <1>2, <1>3 DEF CaseIInv, WaitsForOne, LeftToDo, PassedAll
  <1>6. SerialUnlessAbandoned'
    BY <1>1, <1>3 DEF CaseIInv, CasesTyped, Drivers, SerialUnlessAbandoned, Abandoned
  <1> QED
    BY <1>4, <1>5, <1>6 DEF CaseIInv

\* The processes: where no case is abandoned, it is the one waited for.
LEMMA ProcessIInv ==
  ASSUME CaseIInv, NEW c \in Cases, ChangeProduct(c) \/ SetBack(c) \/ CaseDies(c)
  PROVE  CaseIInv'
  <1>1. /\ UNCHANGED <<before, opened, receipt, driver, passed>>
        /\ process[c] \in {"kept", "changed"}
        /\ \/ process' = [process EXCEPT ![c] = "changed"]
           \/ process' = [process EXCEPT ![c] = "restored"] /\ product' = before[c]
           \/ process' = [process EXCEPT ![c] = "over"]
    BY DEF ChangeProduct, SetBack, CaseDies
  <1>2. Case' = Case /\ Waiting' = Waiting
    BY <1>1 DEF Case, Waiting
  <1>3. c \in opened /\ receipt[c] # "passed"
    BY <1>1 DEF CaseIInv, ReceiptsFollow
  <1>4. CasesTyped' /\ ReceiptsFollow'
    BY <1>1, <1>3 DEF CaseIInv, CasesTyped, Drivers, ReceiptsFollow
  <1>5. WaitsForOne' /\ LeftToDo' /\ PassedAll'
    BY <1>1, <1>2 DEF CaseIInv, WaitsForOne, LeftToDo, PassedAll
  <1>6. SerialUnlessAbandoned'
    BY <1>1, <1>2, <1>3 DEF CaseIInv, CasesTyped, Drivers, SerialUnlessAbandoned, Abandoned
  <1> QED
    BY <1>4, <1>5, <1>6 DEF CaseIInv

\* A case passes when its product is set back; any other is abandoned.
LEMMA ReportIInv == ASSUME CaseIInv, Report PROVE CaseIInv'
  <1> DEFINE word == IF process[Case] = "restored" THEN "passed" ELSE "failed"
  <1>1. /\ Waiting /\ driver.left # <<>> /\ driver.left \in Seq(Cases)
        /\ Case \in opened /\ Case \in Cases /\ receipt[Case] = "none"
        /\ UNCHANGED <<product, before, process, opened, passed>>
        /\ receipt' = [receipt EXCEPT ![Case] = word]
    BY DEF Report, Driving, Waiting, CaseIInv, CasesTyped, Drivers, WaitsForOne
  <1>2. /\ receipt'[Case] = word
        /\ \A c \in Cases : c # Case => receipt'[c] = receipt[c]
    BY <1>1 DEF CaseIInv, CasesTyped, Drivers
  <1>3. \/ driver' = [left |-> Tail(driver.left), waits |-> FALSE,
                       all |-> driver.all, on |-> TRUE]
        \/ driver' = NoDriver
    BY DEF Report
  <1>4. /\ driver' \in Drivers
        /\ ~Waiting'
    <2>1. Tail(driver.left) \in Seq(Cases) /\ driver.all \in BOOLEAN
      BY <1>1 DEF CaseIInv, CasesTyped, Drivers
    <2> QED
      BY <1>3, <2>1, NoDriverTyped, DriverTyped DEF Waiting
  <1>5. CasesTyped' /\ ReceiptsFollow' /\ WaitsForOne'
    BY <1>1, <1>2, <1>4 DEF CaseIInv, CasesTyped, Drivers, ReceiptsFollow, WaitsForOne
  <1>6. PassedAll'
    BY <1>1, <1>2 DEF CaseIInv, PassedAll
  <1>7. LeftToDo'
    <2>1. CASE driver' = NoDriver
      BY <2>1, NoDriverTyped DEF LeftToDo
    <2>2. CASE driver' # NoDriver
      <3>1. /\ driver'.left = Tail(driver.left) /\ receipt'[Case] = "passed"
            /\ driver'.on = driver.on /\ driver'.all = driver.all
        <4>1. driver' = [left |-> Tail(driver.left), waits |-> FALSE,
                         all |-> driver.all, on |-> TRUE]
          BY <1>3, <2>2
        <4>2. receipt'[Case] = "passed"
          BY <2>2 DEF Report
        <4> QED
          BY <1>1, <4>1, <4>2 DEF Waiting
      <3> SUFFICES ASSUME driver.on, driver.all, NEW c \in Cases, receipt'[c] # "passed"
                   PROVE  \E k \in DOMAIN Tail(driver.left) : Tail(driver.left)[k] = c
        BY <3>1 DEF LeftToDo
      <3>2. c # Case /\ receipt[c] # "passed"
        BY <1>2, <3>1
      <3>3. PICK k \in DOMAIN driver.left : driver.left[k] = c
        BY <3>2 DEF CaseIInv, LeftToDo
      <3>4. k # 1
        BY <1>1, <3>2, <3>3 DEF Case
      <3>5. k - 1 \in DOMAIN Tail(driver.left) /\ Tail(driver.left)[k - 1] = c
        BY <1>1, <3>3, <3>4
      <3> QED
        BY <3>5
    <2> QED
      BY <2>1, <2>2
  <1>8. SerialUnlessAbandoned'
    <2>1. CASE process[Case] # "restored"
      BY <1>1, <1>2, <1>4, <2>1 DEF SerialUnlessAbandoned, Abandoned
    <2>2. CASE process[Case] = "restored"
      BY <1>1, <1>2, <1>4, <2>2
         DEF CaseIInv, SerialUnlessAbandoned, Abandoned
    <2> QED
      BY <2>1, <2>2
  <1> QED
    BY <1>5, <1>6, <1>7, <1>8 DEF CaseIInv

\* At the end of a run over all the cases, all of them have passed.
LEMMA AllPassedIInv == ASSUME CaseIInv, AllPassed PROVE CaseIInv'
  <1>1. /\ UNCHANGED <<product, before, process, opened, receipt>>
        /\ driver.on /\ driver.left = <<>> /\ driver' = NoDriver
        /\ passed' = (passed \/ driver.all)
    BY DEF AllPassed, Driving
  <1>2. ~Waiting /\ ~Waiting'
    BY <1>1, NoDriverTyped DEF CaseIInv, WaitsForOne, Waiting
  <1>3. CasesTyped' /\ ReceiptsFollow'
    BY <1>1, NoDriverTyped DEF CaseIInv, CasesTyped, Drivers, ReceiptsFollow
  <1>4. WaitsForOne' /\ LeftToDo'
    BY <1>1, <1>2, NoDriverTyped DEF WaitsForOne, LeftToDo
  <1>5. PassedAll'
    <2>1. driver.all => \A c \in Cases : receipt[c] = "passed"
      BY <1>1 DEF CaseIInv, LeftToDo
    <2> QED
      BY <1>1, <2>1 DEF CaseIInv, PassedAll
  <1>6. SerialUnlessAbandoned'
    BY <1>1, <1>2 DEF CaseIInv, SerialUnlessAbandoned, Abandoned
  <1> QED
    BY <1>3, <1>4, <1>5, <1>6 DEF CaseIInv

LEMMA CaseStepIInv == ASSUME CaseIInv, [CaseNext]_caseVars PROVE CaseIInv'
  <1>1. CASE CaseNext
    BY <1>1, DriveIInv, KillDriverIInv, StartCaseIInv, ReportIInv, AllPassedIInv,
       ProcessIInv DEF CaseNext
  <1>2. CASE UNCHANGED caseVars
    <2> USE <1>2 DEF caseVars, CaseIInv
    <2>1. Case' = Case /\ Waiting' = Waiting
      BY DEF Case, Waiting
    <2>2. CasesTyped' /\ ReceiptsFollow' /\ WaitsForOne' /\ LeftToDo' /\ PassedAll'
      BY <2>1 DEF CasesTyped, Drivers, ReceiptsFollow, WaitsForOne, LeftToDo, PassedAll
    <2>3. SerialUnlessAbandoned'
      BY <2>1 DEF SerialUnlessAbandoned, Abandoned
    <2> QED
      BY <2>2, <2>3
  <1> QED
    BY <1>1, <1>2

-----------------------------------------------------------------------------
(* Packets.  The argument, for a file that no script takes late: while a   *)
(* script works, the version that it has pinned, if that is still the      *)
(* present one, is the only one that its output was shaped by; if the file *)
(* was edited since, the last check refuses.  Where pins are merged        *)
(* blindly, the packet pins what the one read before it pins (Merges).     *)

Versions == {None, 1, 2}
Packets == [state : {"absent", "partial", "built"}, pin : Versions,
            shaped : SUBSET {1, 2}]

Has(pin, shaped) == shaped = {} \/ (pin # None /\ shaped \subseteq {pin})
Strong(s) == Rechecks(s) \/ Packs(s)

PacketsTyped ==
    /\ version \in {1, 2}
    /\ packet \in [Places -> Packets]
    /\ \A i \in Places : packet[i].state # "built" =>
          packet[i].pin = None /\ packet[i].shaped = {}

\* Packets are built one after the other.
BuiltInOrder ==
    \E p \in 1 .. Len(Chain) + 1 :
        \A i \in Places : packet[i].state = "built" <=> i < p

PacketsHave ==
    \A i \in Places :
        Strong(Chain[i].by) => Has(packet[i].pin, packet[i].shaped)

\* A packet pins what the packets that its script has verified pin.
Merges ==
    \A i \in Places :
        /\ packet[i].state = "built"
        /\ Rechecks(Chain[i].by) /\ Chain[i].by.blind = {}
        => \A r \in Verified(Chain[i].by) :
              Place(r) < i => packet[Place(r)].pin \in {None, packet[i].pin}

ScriptStages == {"idle", "verify", "take", "hash", "recheck", "publish"}
Works == [at : ScriptStages, left : Seq(STRING), pin : Versions,
          shaped : SUBSET {1, 2}, edited : BOOLEAN]

Done == Len(Script.reads) - Len(work.left)

WorkTyped ==
    /\ work \in Works
    /\ work.at # "idle" =>
          /\ Unbuilt # {}
          /\ Len(work.left) <= Len(Script.reads)
          /\ \A k \in 1 .. Len(work.left) :
                work.left[k] = Script.reads[Done + k]
          /\ work.at \notin {"verify", "take"} => work.left = <<>>
          /\ work.at = "take" => work.left # <<>>

Reading == work.at \in {"verify", "take", "hash", "recheck"} /\ Strong(Script)

Gathers ==
    Reading =>
        /\ work.pin = version => work.shaped \subseteq {version}
        /\ work.pin = None => work.shaped = {}
        /\ ~work.edited => work.pin \in {None, version}

TakesMerged ==
    work.at = "take" /\ ~IsSealed =>
        packet[Place(Reads)].pin \in {None, work.pin}

OwnPinned ==
    /\ work.at \in {"verify", "take"} /\ file \in Script.first => work.pin # None
    /\ work.at = "recheck" /\ file \in Script.archived => work.pin # None

PacksAlone ==
    Reading /\ Packs(Script) /\ (file \notin OwnFiles \/ file \in Script.archived)
        => work.shaped = {}

Published == work.at = "publish" /\ Strong(Script) => Has(work.pin, work.shaped)

\* The pins of the packets read so far are merged.
MergedUpTo ==
    IF work.at = "take" THEN Done + 1 ELSE Done
WorkMerges ==
    work.at # "idle" /\ Rechecks(Script) /\ Script.blind = {} =>
        \A k \in 1 .. MergedUpTo :
            LET r == Script.reads[k] IN
            r \notin Script.sealed /\ Place(r) < Present =>
                packet[Place(r)].pin \in {None, work.pin}

BlindAfterOne ==
    work.at \in {"verify", "take"} /\ Script.blind # {} =>
        /\ MergedUpTo = 0 => work.pin = None
        /\ MergedUpTo = 1 => work.pin = packet[Place(Script.reads[1])].pin

PacketsIInv == PacketsTyped /\ BuiltInOrder /\ PacketsHave /\ Merges
WorkIInv ==
    /\ WorkTyped /\ Gathers /\ TakesMerged /\ OwnPinned /\ PacksAlone
    /\ Published /\ WorkMerges /\ BlindAfterOne
ChainIInv == TakenLate \/ (PacketsIInv /\ WorkIInv)

LEMMA PlacesAre ==
  /\ Places = 1 .. Len(Chain) /\ Len(Chain) \in Nat
  /\ \A i \in Places : i \in Nat /\ Chain[i].by.reads \in Seq(STRING)
  <1>1. Chain \in Seq([name : STRING, by : {Chain[i].by : i \in Places}])
    BY ChainRules
  <1>2. Places = 1 .. Len(Chain) /\ Len(Chain) \in Nat
    BY <1>1 DEF Places
  <1>3. \A i \in Places : Chain[i].by.reads \in Seq(STRING)
    BY ChainRules
  <1> QED
    BY <1>2, <1>3

\* The script that runs makes the first packet that is not there.
LEMMA PresentIs ==
  ASSUME BuiltInOrder, Unbuilt # {}
  PROVE  /\ Present \in Places /\ packet[Present].state # "built"
         /\ Script = Chain[Present].by
         /\ \A j \in Places : packet[j].state = "built" <=> j < Present
  <1>1. PICK p \in 1 .. Len(Chain) + 1 :
               \A i \in Places : packet[i].state = "built" <=> i < p
    BY DEF BuiltInOrder
  <1>2. Len(Chain) \in Nat /\ \A i \in Places : i \in 1 .. Len(Chain)
    BY PlacesAre, ChainRules
  <1>3. PICK i \in Places : packet[i].state # "built"
    BY DEF Unbuilt
  <1>4. p \in Places
    BY <1>1, <1>2, <1>3, PlacesAre
  <1>5. p \in Unbuilt /\ \A j \in Unbuilt : j \in Places /\ p <= j
    BY <1>1, <1>2, <1>4 DEF Unbuilt
  <1>6. Present \in Unbuilt /\ \A j \in Unbuilt : Present <= j
    BY <1>5 DEF Present
  <1>7. Present = p
    BY <1>2, <1>5, <1>6
  <1> QED
    BY <1>1, <1>4, <1>5, <1>7 DEF Unbuilt, Script

LEMMA SameScript ==
  ASSUME packet' = packet
  PROVE  /\ Unbuilt' = Unbuilt /\ Present' = Present /\ Script' = Script
         /\ Rechecks(Script)' = Rechecks(Script) /\ Packs(Script)' = Packs(Script)
         /\ Strong(Script)' = Strong(Script)
  <1>1. Unbuilt' = Unbuilt
    BY DEF Unbuilt
  <1>2. Present' = Present
    BY <1>1 DEF Present
  <1>3. Script' = Script
    BY <1>2 DEF Script
  <1> QED
    BY <1>1, <1>2, <1>3 DEF Rechecks, Packs, Strong

LEMMA PacketsStay ==
  ASSUME PacketsIInv, UNCHANGED packet, version' \in {1, 2}
  PROVE  PacketsIInv'
  <1>1. PacketsTyped' /\ PacketsHave'
    BY DEF PacketsIInv, PacketsTyped, PacketsHave
  <1>2. BuiltInOrder' /\ Merges'
    BY DEF PacketsIInv, BuiltInOrder, Merges
  <1> QED
    BY <1>1, <1>2 DEF PacketsIInv

\* What ChainRules say of the script that runs.
LEMMA ScriptRules ==
  ASSUME ~TakenLate, BuiltInOrder, Unbuilt # {}
  PROVE  /\ Script.reads \in Seq(STRING)
         /\ file \notin Script.late
         /\ \A r \in Verified(Script) : Place(r) \in Places
         /\ Rechecks(Script) =>
               /\ file \notin Script.archived
               /\ \A r \in Verified(Script) : Rechecks(Chain[Place(r)].by)
         /\ Packs(Script) =>
               /\ Verified(Script) = {} /\ file # "script"
               /\ file \in Script.archived => file \notin Script.raw \cup Script.first
               /\ Script.style = "archive" => Script.raw \cup Script.first = {}
         /\ Script.blind # {} =>
               LET j == Place(Script.reads[2]) IN
               /\ Script.blind = {Script.reads[2]} /\ Script.sealed = {}
               /\ Script.first = {} /\ Len(Script.reads) >= 2
               /\ \A k \in DOMAIN Script.reads :
                     Script.reads[k] = Script.reads[2] => k = 2
               /\ Chain[j].by.blind = {}
               /\ Script.reads[1] \in Verified(Chain[j].by)
               /\ Place(Script.reads[1]) < j
  <1>1. Present \in Places /\ Script = Chain[Present].by
    BY PresentIs
  <1>2. file \notin Script.late
    BY <1>1 DEF TakenLate
  <1>3. Script.reads \in Seq(STRING)
    BY <1>1, PlacesAre
  <1>7. \A r \in Verified(Script) : Place(r) \in Places
    BY <1>1, ChainRules
  <1>4. ASSUME Rechecks(Script)
        PROVE  /\ file \notin Script.archived
               /\ \A r \in Verified(Script) : Rechecks(Chain[Place(r)].by)
    BY <1>1, <1>4, ChainRules
  <1>5. ASSUME Packs(Script)
        PROVE  /\ Verified(Script) = {} /\ file # "script"
               /\ file \in Script.archived => file \notin Script.raw \cup Script.first
               /\ Script.style = "archive" => Script.raw \cup Script.first = {}
    <2>1. /\ Verified(Script) = {} /\ "script" \in Script.late
          /\ Script.archived \cap (Script.raw \cup Script.first) = {}
          /\ Script.style = "archive" => Script.raw \cup Script.first = {}
      BY <1>1, <1>5, ChainRules
    <2> QED
      BY <1>2, <2>1
  <1>6. ASSUME Script.blind # {}
        PROVE  LET j == Place(Script.reads[2]) IN
               /\ Script.blind = {Script.reads[2]} /\ Script.sealed = {}
               /\ Script.first = {} /\ Len(Script.reads) >= 2
               /\ \A k \in DOMAIN Script.reads :
                     Script.reads[k] = Script.reads[2] => k = 2
               /\ Chain[j].by.blind = {}
               /\ Script.reads[1] \in Verified(Chain[j].by)
               /\ Place(Script.reads[1]) < j
    BY <1>1, <1>6, ChainRules
  <1> QED
    BY <1>2, <1>3, <1>4, <1>5, <1>6, <1>7

\* The packet that is read next.
LEMMA ReadsNext ==
  ASSUME ~TakenLate, BuiltInOrder, WorkTyped, work.at # "idle", work.left # <<>>
  PROVE  /\ Done \in Nat /\ Done + 1 \in DOMAIN Script.reads
         /\ Reads = Script.reads[Done + 1]
         /\ ~IsSealed => Reads \in Verified(Script)
  <1>1. work.left \in Seq(STRING) /\ Script.reads \in Seq(STRING)
    BY ScriptRules DEF WorkTyped, Works
  <1>2. Len(work.left) \in Nat /\ Len(work.left) >= 1
    BY <1>1
  <1>3. Len(Script.reads) \in Nat /\ Len(work.left) <= Len(Script.reads)
    BY <1>1 DEF WorkTyped
  <1>4. Done \in Nat /\ Done + 1 \in DOMAIN Script.reads
    <2>1. \A m, n \in Nat : m >= 1 /\ m <= n => n - m \in Nat /\ n - m + 1 \in 1 .. n
      OBVIOUS
    <2>2. DOMAIN Script.reads = 1 .. Len(Script.reads)
      BY <1>1
    <2> QED
      BY <1>2, <1>3, <2>1, <2>2 DEF Done
  <1>5. Reads = Script.reads[Done + 1]
    <2>1. work.left[1] = Script.reads[Done + 1]
      BY <1>2 DEF WorkTyped
    <2> QED
      BY <1>1, <2>1 DEF Reads
  <1> QED
    BY <1>4, <1>5 DEF IsSealed, Verified

LEMMA BeginIInv ==
  ASSUME ~TakenLate, PacketsIInv, WorkIInv, Begin
  PROVE  WorkIInv'
  <1>1. /\ Unbuilt # {} /\ UNCHANGED <<file, version, packet>>
        /\ work' = [at |-> "verify", left |-> Script.reads, edited |-> FALSE,
                    pin |-> IF file \in Script.first THEN version ELSE None,
                    shaped |-> IF file \in Script.late THEN {version} ELSE {}]
    BY DEF Begin
  <1>2. /\ Unbuilt' = Unbuilt /\ Present' = Present /\ Script' = Script
        /\ Strong(Script)' = Strong(Script)
    BY <1>1, SameScript
  <1>3. Script.reads \in Seq(STRING) /\ file \notin Script.late
    BY <1>1, ScriptRules DEF PacketsIInv
  <1>4. Script.blind # {} => Script.first = {}
    BY <1>1, ScriptRules DEF PacketsIInv
  <1>5. /\ work'.at = "verify" /\ work'.left = Script.reads /\ ~work'.edited
        /\ work'.pin = IF file \in Script.first THEN version ELSE None
        /\ work'.shaped = {}
    BY <1>1, <1>3
  <1>6. version \in {1, 2} /\ None \notin {1, 2}
    BY ChainBounds DEF PacketsIInv, PacketsTyped
  <1>7. Done' = 0
    <2>1. Len(Script.reads) \in Nat
      BY <1>3
    <2>2. Done' = Len(Script.reads) - Len(Script.reads)
      BY <1>2, <1>5 DEF Done
    <2> QED
      BY <2>1, <2>2
  <1>8. WorkTyped'
    <2>1. work' \in Works
      BY <1>1, <1>3, <1>6 DEF Works, ScriptStages, Versions
    <2>2. Len(work'.left) <= Len(Script.reads)
      BY <1>3, <1>5
    <2>3. \A k \in 1 .. Len(work'.left) : work'.left[k] = Script.reads[0 + k]
      BY <1>5
    <2> QED
      BY <1>1, <1>2, <1>5, <1>7, <2>1, <2>2, <2>3 DEF WorkTyped
  <1>9. Gathers' /\ PacksAlone'
    BY <1>1, <1>2, <1>5, <1>6 DEF Gathers, PacksAlone
  <1>10. TakesMerged' /\ Published'
    BY <1>5 DEF TakesMerged, Published
  <1>11. OwnPinned'
    BY <1>1, <1>2, <1>5, <1>6 DEF OwnPinned
  <1>12. MergedUpTo' = 0
    BY <1>5, <1>7 DEF MergedUpTo
  <1>13. WorkMerges'
    BY <1>12 DEF WorkMerges
  <1>14. BlindAfterOne'
    BY <1>1, <1>2, <1>4, <1>5, <1>12 DEF BlindAfterOne
  <1> QED
    BY <1>8, <1>9, <1>10, <1>11, <1>13, <1>14 DEF WorkIInv

\* What is verified always agrees with what was merged before: where the
\* script does not compare them, the packet's own script has.
LEMMA VerifiedAgrees ==
  ASSUME ~TakenLate, PacketsIInv, WorkIInv, Running("verify"), work.left # <<>>,
         Rechecks(Script), ~IsSealed, Reads \in Script.blind
  PROVE  Agrees(packet[Place(Reads)].pin)
  <1> DEFINE j == Place(Reads)
             first == Place(Script.reads[1])
  <1>1. /\ work.at = "verify" /\ Unbuilt # {} /\ BuiltInOrder /\ WorkTyped
        /\ PacketsTyped /\ Merges /\ BlindAfterOne
    BY DEF Running, PacketsIInv, WorkIInv
  <1>2. /\ Script.blind = {Script.reads[2]} /\ Len(Script.reads) >= 2
        /\ \A k \in DOMAIN Script.reads : Script.reads[k] = Script.reads[2] => k = 2
        /\ Chain[Place(Script.reads[2])].by.blind = {}
        /\ Script.reads[1] \in Verified(Chain[Place(Script.reads[2])].by)
        /\ first < Place(Script.reads[2])
    BY <1>1, ScriptRules
  <1>3. /\ Done \in Nat /\ Done + 1 \in DOMAIN Script.reads
        /\ Reads = Script.reads[Done + 1] /\ Reads \in Verified(Script)
    BY <1>1, ReadsNext
  <1>4. Done = 1
    BY <1>2, <1>3
  <1>5. work.pin = packet[first].pin
    BY <1>1, <1>4 DEF BlindAfterOne, MergedUpTo
  <1>6. j = Place(Script.reads[2])
    BY <1>3, <1>4
  <1>7. j \in Places /\ Rechecks(Chain[j].by)
    BY <1>1, <1>3, ScriptRules
  <1>8. CASE packet[j].pin = None
    BY <1>8 DEF Agrees
  <1>9. CASE packet[j].pin # None
    <2>1. packet[j].state = "built"
      BY <1>1, <1>7, <1>9 DEF PacketsTyped
    <2>2. packet[first].pin \in {None, packet[j].pin}
      BY <1>1, <1>2, <1>6, <1>7, <2>1 DEF Merges
    <2> QED
      BY <1>5, <2>2 DEF Agrees
  <1> QED
    BY <1>8, <1>9

LEMMA VerifyIInv ==
  ASSUME ~TakenLate, PacketsIInv, WorkIInv, Verify
  PROVE  WorkIInv'
  <1> DEFINE q == packet[Place(Reads)]
             pin == IF IsSealed THEN work.pin ELSE Merged(q.pin)
  <1>1. /\ Running("verify") /\ Unbuilt # {} /\ work.at = "verify" /\ work.left # <<>>
        /\ UNCHANGED <<file, version, packet>>
        /\ IsSealed \/ q.pin \in {None, version}
        /\ IsSealed \/ Reads \in Script.blind \/ Agrees(q.pin)
        /\ work' = [work EXCEPT !.at = "take", !.pin = pin]
    BY DEF Verify, Running
  <1>2. /\ Unbuilt' = Unbuilt /\ Present' = Present /\ Script' = Script
        /\ Strong(Script)' = Strong(Script)
        /\ Rechecks(Script)' = Rechecks(Script) /\ Packs(Script)' = Packs(Script)
    BY <1>1, SameScript
  <1>3. version \in {1, 2} /\ None \notin {1, 2} /\ BuiltInOrder
    BY ChainBounds DEF PacketsIInv, PacketsTyped
  <1>4. work \in Works /\ WorkTyped
    BY DEF WorkIInv, WorkTyped
  <1>5. pin \in Versions /\ (work.pin # None => pin # None)
    <2>1. IsSealed \/ q.pin \in Versions
      BY <1>1, <1>3 DEF Versions
    <2> QED
      BY <1>4, <2>1 DEF Works, Merged
  <1>6. /\ work' \in Works /\ work'.at = "take" /\ work'.left = work.left
        /\ work'.pin = pin /\ work'.shaped = work.shaped /\ work'.edited = work.edited
    <2> HIDE DEF pin
    <2> QED
      BY <1>1, <1>4, <1>5 DEF Works, ScriptStages
  <1>7. /\ Reads' = Reads /\ IsSealed' = IsSealed /\ Done' = Done
        /\ MergedUpTo = Done /\ MergedUpTo' = Done + 1
    BY <1>1, <1>2, <1>6 DEF Reads, IsSealed, Done, MergedUpTo
  <1>8. /\ Done \in Nat /\ Done + 1 \in DOMAIN Script.reads
        /\ Reads = Script.reads[Done + 1]
        /\ ~IsSealed => Reads \in Verified(Script)
    BY <1>1, <1>3, <1>4, ReadsNext
  <1>9. WorkTyped'
    BY <1>1, <1>2, <1>4, <1>6, <1>7 DEF WorkTyped
  <1>10. /\ Packs(Script) => IsSealed
         /\ Rechecks(Script) /\ ~IsSealed => Agrees(q.pin)
    BY <1>1, <1>3, <1>8, ScriptRules, VerifiedAgrees
  <1> HIDE DEF q
  <1>11. Gathers'
    <2>1. Reading' <=> Reading
      BY <1>1, <1>2, <1>6 DEF Reading
    <2> SUFFICES ASSUME Reading
                 PROVE  /\ pin = version => work.shaped \subseteq {version}
                        /\ pin = None => work.shaped = {}
                        /\ ~work.edited => pin \in {None, version}
      BY <1>1, <1>6, <2>1 DEF Gathers
    <2>2. /\ work.pin = version => work.shaped \subseteq {version}
          /\ work.pin = None => work.shaped = {}
          /\ ~work.edited => work.pin \in {None, version}
      BY DEF WorkIInv, Gathers
    <2>3. CASE IsSealed
      BY <2>2, <2>3
    <2>4. CASE ~IsSealed
      <3>1. Agrees(q.pin) /\ q.pin \in {None, version}
        BY <1>1, <1>10, <2>4 DEF Reading, Strong
      <3> QED
        BY <1>3, <2>2, <2>4, <3>1 DEF Agrees, Merged
    <2> QED
      BY <2>3, <2>4
  <1>12. TakesMerged'
    BY <1>1, <1>6, <1>7 DEF TakesMerged, Merged, q
  <1>13. OwnPinned'
    BY <1>1, <1>2, <1>5, <1>6 DEF WorkIInv, OwnPinned
  <1>14. PacksAlone' /\ Published'
    BY <1>1, <1>2, <1>6 DEF WorkIInv, PacksAlone, Reading, OwnFiles, Published
  <1>15. WorkMerges'
    <2> SUFFICES ASSUME Rechecks(Script), Script.blind = {},
                        NEW k \in 1 .. Done + 1, Script.reads[k] \notin Script.sealed,
                        Place(Script.reads[k]) < Present
                 PROVE  packet[Place(Script.reads[k])].pin \in {None, pin}
      BY <1>1, <1>2, <1>6, <1>7 DEF WorkMerges
    <2>1. CASE k = Done + 1
      <3>1. ~IsSealed /\ q = packet[Place(Script.reads[k])]
        BY <1>8, <2>1 DEF IsSealed, q
      <3> QED
        BY <3>1 DEF Merged
    <2>2. CASE k # Done + 1
      <3>1. k \in 1 .. Done
        BY <1>8, <2>2
      <3>2. packet[Place(Script.reads[k])].pin \in {None, work.pin}
        BY <1>1, <1>7, <3>1 DEF WorkIInv, WorkMerges
      <3>3. ~IsSealed => Agrees(q.pin)
        BY <1>10
      <3> QED
        BY <3>2, <3>3 DEF Agrees, Merged
    <2> QED
      BY <2>1, <2>2
  <1>16. BlindAfterOne'
    <2> SUFFICES ASSUME Script.blind # {}, Done = 0
                 PROVE  pin = packet[Place(Script.reads[1])].pin
      BY <1>1, <1>2, <1>6, <1>7, <1>8 DEF BlindAfterOne
    <2>1. work.pin = None
      BY <1>1, <1>7 DEF WorkIInv, BlindAfterOne
    <2>2. ~IsSealed
      BY <1>1, <1>3, ScriptRules DEF IsSealed
    <2> QED
      BY <1>8, <2>1, <2>2 DEF Merged, q
  <1> QED
    BY <1>9, <1>11, <1>12, <1>13, <1>14, <1>15, <1>16 DEF WorkIInv

LEMMA TakeIInv ==
  ASSUME ~TakenLate, PacketsIInv, WorkIInv, Take
  PROVE  WorkIInv'
  <1> DEFINE q == packet[Place(Reads)]
             seen == q.shaped \cup (IF q.pin = None THEN {} ELSE {version})
             shaped == work.shaped \cup (IF IsSealed THEN {} ELSE seen)
  <1>1. /\ Unbuilt # {} /\ work.at = "take"
        /\ UNCHANGED <<file, version, packet>>
        /\ work' = [work EXCEPT !.at = "verify", !.left = Tail(@),
                                !.shaped = shaped]
    BY DEF Take, Running
  <1>2. /\ Unbuilt' = Unbuilt /\ Present' = Present /\ Script' = Script
        /\ Strong(Script)' = Strong(Script)
        /\ Rechecks(Script)' = Rechecks(Script) /\ Packs(Script)' = Packs(Script)
    BY <1>1, SameScript
  <1>3. version \in {1, 2} /\ None \notin {1, 2} /\ BuiltInOrder
    BY ChainBounds DEF PacketsIInv, PacketsTyped
  <1>4. work \in Works /\ WorkTyped /\ work.left # <<>>
    BY <1>1 DEF WorkIInv, WorkTyped
  <1>5. work.left \in Seq(STRING) /\ Tail(work.left) \in Seq(STRING)
    BY <1>4 DEF Works
  <1>6. /\ Done \in Nat /\ Done + 1 \in DOMAIN Script.reads
        /\ Reads = Script.reads[Done + 1]
        /\ ~IsSealed => Reads \in Verified(Script)
    BY <1>1, <1>3, <1>4, ReadsNext
  <1>7. q.pin \in {None, work.pin} \/ IsSealed
    BY <1>1 DEF WorkIInv, TakesMerged
  <1>8. /\ work'.at = "verify" /\ work'.left = Tail(work.left)
        /\ work'.pin = work.pin /\ work'.shaped = shaped
        /\ work'.edited = work.edited
    <2> HIDE DEF shaped
    <2> QED
      BY <1>1, <1>4 DEF Works
  <1>9. /\ Done' = Done + 1 /\ MergedUpTo = Done + 1 /\ MergedUpTo' = Done + 1
        /\ Len(Tail(work.left)) = Len(work.left) - 1
    <2>1. Len(Tail(work.left)) = Len(work.left) - 1
      BY <1>4, <1>5
    <2>2. Len(Script.reads) \in Nat /\ Len(work.left) \in Nat
      BY <1>1, <1>3, <1>5, ScriptRules
    <2>3. Done' = Len(Script.reads) - (Len(work.left) - 1)
      BY <1>2, <1>8, <2>1 DEF Done
    <2>4. Done' = Done + 1
      <3>1. \A m, n \in Nat : n - (m - 1) = (n - m) + 1
        OBVIOUS
      <3>2. Done = Len(Script.reads) - Len(work.left)
        BY DEF Done
      <3> QED
        BY <2>2, <2>3, <3>1, <3>2
    <2> QED
      BY <1>1, <1>8, <2>1, <2>4 DEF MergedUpTo
  <1>10. q.shaped \in SUBSET {1, 2} \/ IsSealed
    BY <1>1, <1>3, <1>6, ScriptRules DEF PacketsIInv, PacketsTyped, Packets
  <1>11. WorkTyped'
    <2>1. shaped \in SUBSET {1, 2}
      BY <1>3, <1>4, <1>10 DEF Works
    <2>2. work' \in Works
      <3> HIDE DEF shaped
      <3> QED
        BY <1>1, <1>4, <1>5, <2>1 DEF Works, ScriptStages
    <2>3. Len(work.left) \in Nat /\ Len(Script.reads) \in Nat
      BY <1>1, <1>3, <1>5, ScriptRules
    <2>4. Len(work.left) <= Len(Script.reads)
      BY <1>1, <1>4 DEF WorkTyped
    <2>5. \A k \in 1 .. Len(work.left) - 1 :
            Tail(work.left)[k] = Script.reads[Done + 1 + k]
      <3> SUFFICES ASSUME NEW k \in 1 .. Len(work.left) - 1
                   PROVE  Tail(work.left)[k] = Script.reads[Done + 1 + k]
        OBVIOUS
      <3>1. Tail(work.left)[k] = work.left[k + 1]
        BY <1>4, <1>5, <2>3
      <3>2. work.left[k + 1] = Script.reads[Done + (k + 1)]
        BY <1>1, <1>4, <2>3 DEF WorkTyped
      <3>3. Done + (k + 1) = Done + 1 + k
        BY <1>6
      <3> QED
        BY <3>1, <3>2, <3>3
    <2> HIDE DEF shaped
    <2> QED
      BY <1>1, <1>2, <1>8, <1>9, <2>2, <2>3, <2>4, <2>5 DEF WorkTyped
  <1>12. /\ Packs(Script) => IsSealed
         /\ Rechecks(Script) /\ ~IsSealed => Has(q.pin, q.shaped)
    BY <1>1, <1>3, <1>6, ScriptRules DEF PacketsIInv, PacketsHave, Strong
  <1>13. Gathers'
    <2>1. Reading' <=> Reading
      BY <1>1, <1>2, <1>8 DEF Reading
    <2> SUFFICES ASSUME Reading
                 PROVE  /\ work.pin = version => shaped \subseteq {version}
                        /\ work.pin = None => shaped = {}
                        /\ ~work.edited => work.pin \in {None, version}
      BY <1>1, <1>8, <2>1 DEF Gathers
    <2>2. /\ work.pin = version => work.shaped \subseteq {version}
          /\ work.pin = None => work.shaped = {}
          /\ ~work.edited => work.pin \in {None, version}
      BY DEF WorkIInv, Gathers
    <2>3. CASE IsSealed
      BY <2>2, <2>3
    <2>4. CASE ~IsSealed
      <3>1. Has(q.pin, q.shaped) /\ q.pin \in {None, work.pin}
        BY <1>7, <1>12, <2>4 DEF Reading, Strong
      <3> HIDE DEF q
      <3> QED
        BY <1>3, <2>2, <2>4, <3>1 DEF Has
    <2> QED
      BY <2>3, <2>4
  <1> HIDE DEF shaped
  <1>14. TakesMerged' /\ Published'
    BY <1>8 DEF TakesMerged, Published
  <1>15. OwnPinned'
    BY <1>1, <1>2, <1>8 DEF WorkIInv, OwnPinned
  <1>16. PacksAlone'
    <2>1. Packs(Script) => shaped = work.shaped
      BY <1>12 DEF shaped
    <2> QED
      BY <1>1, <1>2, <1>8, <2>1 DEF WorkIInv, PacksAlone, Reading, OwnFiles
  <1>17. WorkMerges'
    BY <1>1, <1>2, <1>8, <1>9 DEF WorkIInv, WorkMerges
  <1>18. BlindAfterOne'
    BY <1>1, <1>2, <1>8, <1>9 DEF WorkIInv, BlindAfterOne
  <1> QED
    BY <1>11, <1>13, <1>14, <1>15, <1>16, <1>17, <1>18 DEF WorkIInv

LEMMA ReadOwnIInv ==
  ASSUME ~TakenLate, PacketsIInv, WorkIInv, ReadOwn
  PROVE  WorkIInv'
  <1> DEFINE pin == IF file \in Script.raw THEN version ELSE work.pin
             shaped == IF file \in Script.raw \cup Script.first
                       THEN work.shaped \cup {version} ELSE work.shaped
  <1>1. /\ Unbuilt # {} /\ work.at = "verify" /\ work.left = <<>>
        /\ UNCHANGED <<file, version, packet>>
        /\ file \in Script.raw => Agrees(version)
        /\ work' = [work EXCEPT !.at = "hash", !.pin = pin, !.shaped = shaped]
    BY DEF ReadOwn, Running
  <1>2. /\ Unbuilt' = Unbuilt /\ Present' = Present /\ Script' = Script
        /\ Strong(Script)' = Strong(Script)
        /\ Rechecks(Script)' = Rechecks(Script) /\ Packs(Script)' = Packs(Script)
    BY <1>1, SameScript
  <1>3. version \in {1, 2} /\ None \notin {1, 2} /\ BuiltInOrder
    BY ChainBounds DEF PacketsIInv, PacketsTyped
  <1>4. work \in Works /\ WorkTyped
    BY DEF WorkIInv, WorkTyped
  <1>5. pin \in Versions /\ shaped \in SUBSET {1, 2}
    BY <1>3, <1>4 DEF Works, Versions
  <1>6. /\ work' \in Works /\ work'.at = "hash" /\ work'.left = work.left
        /\ work'.pin = pin /\ work'.shaped = shaped /\ work'.edited = work.edited
    <2> HIDE DEF pin, shaped
    <2> QED
      BY <1>1, <1>4, <1>5 DEF Works, ScriptStages
  <1>7. Done' = Done /\ MergedUpTo = Done /\ MergedUpTo' = Done
    BY <1>1, <1>2, <1>6 DEF Done, MergedUpTo
  <1>8. WorkTyped'
    BY <1>1, <1>2, <1>4, <1>6, <1>7 DEF WorkTyped
  <1>9. file \in Script.first => work.pin # None
    BY <1>1 DEF WorkIInv, OwnPinned
  <1>10. Gathers'
    <2>1. Reading' <=> Reading
      BY <1>1, <1>2, <1>6 DEF Reading
    <2> SUFFICES ASSUME Reading
                 PROVE  /\ pin = version => shaped \subseteq {version}
                        /\ pin = None => shaped = {}
                        /\ ~work.edited => pin \in {None, version}
      BY <1>1, <1>6, <2>1 DEF Gathers
    <2>2. /\ work.pin = version => work.shaped \subseteq {version}
          /\ work.pin = None => work.shaped = {}
          /\ ~work.edited => work.pin \in {None, version}
      BY DEF WorkIInv, Gathers
    <2>3. CASE file \in Script.raw
      BY <1>1, <1>3, <2>2, <2>3 DEF Agrees
    <2>4. CASE file \notin Script.raw
      BY <1>3, <1>9, <2>2, <2>4
    <2> QED
      BY <2>3, <2>4
  <1>11. PacksAlone'
    <2> SUFFICES ASSUME Packs(Script), Reading,
                        file \notin OwnFiles \/ file \in Script.archived
                 PROVE  shaped = {}
      BY <1>1, <1>2, <1>6 DEF PacksAlone, Reading, OwnFiles
    <2>1. work.shaped = {}
      BY DEF WorkIInv, PacksAlone
    <2>2. file \notin Script.raw \cup Script.first
      BY <1>1, <1>3, ScriptRules DEF OwnFiles
    <2> QED
      BY <2>1, <2>2
  <1>12. WorkMerges'
    <2>1. pin = work.pin \/ work.pin = None
      BY <1>1, <1>3 DEF Agrees
    <2> HIDE DEF pin
    <2> QED
      BY <1>1, <1>2, <1>6, <1>7, <2>1 DEF WorkIInv, WorkMerges
  <1>13. TakesMerged' /\ OwnPinned' /\ Published' /\ BlindAfterOne'
    BY <1>6 DEF TakesMerged, OwnPinned, Published, BlindAfterOne
  <1> QED
    BY <1>8, <1>10, <1>11, <1>12, <1>13 DEF WorkIInv

LEMMA HashLateIInv ==
  ASSUME ~TakenLate, PacketsIInv, WorkIInv, HashLate
  PROVE  WorkIInv'
  <1> DEFINE pin == IF file \in Script.archived THEN version ELSE work.pin
  <1>1. /\ Unbuilt # {} /\ work.at = "hash"
        /\ UNCHANGED <<file, version, packet>>
        /\ work' = [work EXCEPT !.at = "recheck",
                      !.pin = IF file \in Script.late \cup Script.archived
                              THEN version ELSE @]
    BY DEF HashLate, Running
  <1>2. /\ Unbuilt' = Unbuilt /\ Present' = Present /\ Script' = Script
        /\ Strong(Script)' = Strong(Script)
        /\ Rechecks(Script)' = Rechecks(Script) /\ Packs(Script)' = Packs(Script)
    BY <1>1, SameScript
  <1>3. version \in {1, 2} /\ None \notin {1, 2} /\ BuiltInOrder
    BY ChainBounds DEF PacketsIInv, PacketsTyped
  <1>4. work \in Works /\ WorkTyped /\ file \notin Script.late
    BY <1>1, <1>3, ScriptRules DEF WorkIInv, WorkTyped
  <1>5. pin \in Versions /\ work' = [work EXCEPT !.at = "recheck", !.pin = pin]
    BY <1>1, <1>3, <1>4 DEF Works, Versions
  <1>6. /\ work' \in Works /\ work'.at = "recheck" /\ work'.left = work.left
        /\ work'.pin = pin /\ work'.shaped = work.shaped
        /\ work'.edited = work.edited
    <2> HIDE DEF pin
    <2> QED
      BY <1>4, <1>5 DEF Works, ScriptStages
  <1>7. Done' = Done /\ MergedUpTo = Done /\ MergedUpTo' = Done
    BY <1>1, <1>2, <1>6 DEF Done, MergedUpTo
  <1>8. WorkTyped'
    BY <1>1, <1>2, <1>4, <1>6, <1>7 DEF WorkTyped
  <1>9. Rechecks(Script) => pin = work.pin
    BY <1>1, <1>3, ScriptRules
  <1>10. Gathers' /\ PacksAlone'
    <2>1. (Reading' <=> Reading) /\ OwnFiles' = OwnFiles
      BY <1>1, <1>2, <1>6 DEF Reading, OwnFiles
    <2>2. Reading /\ file \in Script.archived => Packs(Script) /\ work.shaped = {}
      BY <1>9, <1>1, <1>3, ScriptRules DEF WorkIInv, PacksAlone, Reading, Strong
    <2>3. Reading =>
            /\ work.pin = version => work.shaped \subseteq {version}
            /\ work.pin = None => work.shaped = {}
            /\ ~work.edited => work.pin \in {None, version}
      BY DEF WorkIInv, Gathers
    <2>4. Gathers'
      BY <1>1, <1>6, <2>1, <2>2, <2>3 DEF Gathers
    <2>5. PacksAlone'
      BY <1>1, <1>2, <1>6, <2>1 DEF WorkIInv, PacksAlone
    <2> QED
      BY <2>4, <2>5
  <1>11. OwnPinned'
    BY <1>1, <1>2, <1>3, <1>6 DEF OwnPinned
  <1> HIDE DEF pin
  <1>12. WorkMerges'
    BY <1>1, <1>2, <1>6, <1>7, <1>9 DEF WorkIInv, WorkMerges
  <1>13. TakesMerged' /\ Published' /\ BlindAfterOne'
    BY <1>6 DEF TakesMerged, Published, BlindAfterOne
  <1> QED
    BY <1>8, <1>10, <1>11, <1>12, <1>13 DEF WorkIInv

LEMMA RecheckIInv ==
  ASSUME ~TakenLate, PacketsIInv, WorkIInv, Recheck
  PROVE  WorkIInv'
  <1> DEFINE pin == IF Staged(Script.style) \/ file \in OwnFiles
                    THEN work.pin ELSE None
             shaped == IF file \in Script.archived
                       THEN work.shaped \cup {version} ELSE work.shaped
  <1>1. /\ Unbuilt # {} /\ work.at = "recheck"
        /\ UNCHANGED <<file, version, packet>>
        /\ Checked => work.pin \in {None, version}
        /\ work' = [work EXCEPT !.at = "publish", !.pin = pin, !.shaped = shaped]
    BY DEF Recheck, Running
  <1>2. /\ Unbuilt' = Unbuilt /\ Present' = Present /\ Script' = Script
        /\ Strong(Script)' = Strong(Script)
        /\ Rechecks(Script)' = Rechecks(Script) /\ Packs(Script)' = Packs(Script)
    BY <1>1, SameScript
  <1>3. version \in {1, 2} /\ None \notin {1, 2} /\ BuiltInOrder
    BY ChainBounds DEF PacketsIInv, PacketsTyped
  <1>4. work \in Works /\ WorkTyped
    BY DEF WorkIInv, WorkTyped
  <1>5. pin \in Versions /\ shaped \in SUBSET {1, 2}
    BY <1>3, <1>4 DEF Works, Versions
  <1>6. /\ work' \in Works /\ work'.at = "publish" /\ work'.left = work.left
        /\ work'.pin = pin /\ work'.shaped = shaped /\ work'.edited = work.edited
    <2> HIDE DEF pin, shaped
    <2> QED
      BY <1>1, <1>4, <1>5 DEF Works, ScriptStages
  <1>7. Done' = Done /\ MergedUpTo = Done /\ MergedUpTo' = Done
    BY <1>1, <1>2, <1>6 DEF Done, MergedUpTo
  <1>8. WorkTyped'
    BY <1>1, <1>2, <1>4, <1>6, <1>7 DEF WorkTyped
  <1>9. ASSUME Rechecks(Script)
        PROVE  Checked /\ file \notin Script.archived /\ pin = work.pin
    <2>1. file \notin Script.archived
      BY <1>1, <1>3, <1>9, ScriptRules
    <2> QED
      BY <1>9, <2>1 DEF Rechecks, Checked, Staged
  <1>10. Published'
    <2> SUFFICES ASSUME Strong(Script)
                 PROVE  Has(pin, shaped)
      BY <1>1, <1>2, <1>6 DEF Published, Has
    <2>1. /\ work.pin = version => work.shaped \subseteq {version}
          /\ work.pin = None => work.shaped = {}
      BY <1>1 DEF WorkIInv, Gathers, Reading
    <2>2. CASE Rechecks(Script)
      BY <1>1, <1>9, <2>1, <2>2 DEF Has
    <2>3. CASE Packs(Script) /\ (file \notin OwnFiles \/ file \in Script.archived)
      <3>1. work.shaped = {}
        BY <1>1, <2>3 DEF WorkIInv, PacksAlone, Reading
      <3>2. CASE file \in Script.archived
        <4>1. Checked
          BY <1>1, <1>3, <2>3, <3>2, ScriptRules DEF Checked, Packs
        <4>2. pin = version
          BY <1>1, <3>2, <4>1 DEF WorkIInv, OwnPinned, OwnFiles
        <4> QED
          BY <1>3, <3>1, <4>2 DEF Has
      <3> QED
        BY <3>1, <3>2 DEF Has
    <2>4. CASE Packs(Script) /\ file \in OwnFiles /\ file \notin Script.archived
      <3>1. Checked
        <4>1. /\ file # "script" /\ file \notin Script.late
              /\ Script.style = "archive" => Script.raw \cup Script.first = {}
          BY <1>1, <1>3, <2>4, ScriptRules
        <4> QED
          BY <2>4, <4>1 DEF OwnFiles, Packs, Checked
      <3> QED
        BY <1>1, <2>1, <2>4, <3>1 DEF Has
    <2> QED
      BY <2>2, <2>3, <2>4 DEF Strong
  <1> HIDE DEF pin, shaped
  <1>11. WorkMerges'
    BY <1>1, <1>2, <1>6, <1>7, <1>9 DEF WorkIInv, WorkMerges
  <1>12. /\ Gathers' /\ TakesMerged' /\ OwnPinned' /\ PacksAlone'
         /\ BlindAfterOne'
    BY <1>6 DEF Gathers, Reading, TakesMerged, OwnPinned, PacksAlone, BlindAfterOne
  <1> QED
    BY <1>8, <1>10, <1>11, <1>12 DEF WorkIInv

\* A script that is done, or over, has nothing under way.
LEMMA IdleIInv ==
  ASSUME work' = Idle
  PROVE  WorkIInv'
  <1>1. work'.at = "idle" /\ work' \in Works
    BY DEF Idle, Works, ScriptStages, Versions
  <1>2. WorkTyped' /\ WorkMerges' /\ BlindAfterOne'
    BY <1>1 DEF WorkTyped, WorkMerges, BlindAfterOne
  <1>3. Gathers' /\ TakesMerged' /\ OwnPinned' /\ PacksAlone' /\ Published'
    BY <1>1 DEF Gathers, Reading, TakesMerged, OwnPinned, PacksAlone, Published
  <1> QED
    BY <1>2, <1>3 DEF WorkIInv

LEMMA ExceptTyped ==
  ASSUME NEW S, NEW T, NEW f \in [S -> T], NEW x \in S, NEW t \in T
  PROVE  [f EXCEPT ![x] = t] \in [S -> T]
  OBVIOUS

LEMMA PublishIInv ==
  ASSUME ~TakenLate, PacketsIInv, WorkIInv, Publish
  PROVE  PacketsIInv' /\ WorkIInv'
  <1> DEFINE made == [state |-> "built", pin |-> work.pin, shaped |-> work.shaped]
  <1>1. /\ Unbuilt # {} /\ work.at = "publish" /\ work' = Idle
        /\ UNCHANGED <<file, version>>
        /\ packet' = [packet EXCEPT ![Present] = made]
    BY DEF Publish, Running
  <1>2. /\ Present \in Places /\ Script = Chain[Present].by
        /\ \A j \in Places : packet[j].state = "built" <=> j < Present
    BY <1>1, PresentIs DEF PacketsIInv
  <1>3. /\ PacketsTyped /\ BuiltInOrder /\ PacketsHave /\ Merges
        /\ work \in Works /\ WorkTyped
    BY DEF PacketsIInv, WorkIInv, WorkTyped
  <1>4. /\ DOMAIN packet = Places
        /\ \A i \in Places : packet'[i] = IF i = Present THEN made ELSE packet[i]
    BY <1>1, <1>2, <1>3 DEF PacketsTyped
  <1>5. made \in Packets /\ made.state = "built"
    BY <1>3 DEF Packets, Works
  <1>6. PacketsTyped'
    <2>1. packet' \in [Places -> Packets]
      <3>1. packet \in [Places -> Packets]
        BY <1>3 DEF PacketsTyped
      <3> HIDE DEF made
      <3>2. [packet EXCEPT ![Present] = made] \in [Places -> Packets]
        BY <1>2, <1>5, <3>1, ExceptTyped, Zenon
      <3> QED
        BY <1>1, <3>2, Zenon
    <2> QED
      BY <1>1, <1>3, <1>4, <1>5, <2>1 DEF PacketsTyped
  <1>7. BuiltInOrder'
    <2>1. Present + 1 \in 1 .. Len(Chain) + 1 /\ \A i \in Places : i \in Nat
      BY <1>2, PlacesAre
    <2>2. \A i \in Places : packet'[i].state = "built" <=> i < Present + 1
      BY <1>2, <1>4, <1>5, <2>1, PlacesAre
    <2> QED
      BY <2>1, <2>2 DEF BuiltInOrder
  <1>8. PacketsHave'
    <2> SUFFICES ASSUME NEW i \in Places, Strong(Chain[i].by)
                 PROVE  Has(packet'[i].pin, packet'[i].shaped)
      BY DEF PacketsHave
    <2>1. CASE i = Present
      BY <1>1, <1>2, <1>4, <2>1 DEF WorkIInv, Published
    <2>2. CASE i # Present
      BY <1>3, <1>4, <2>2 DEF PacketsHave
    <2> QED
      BY <2>1, <2>2
  <1>9. Merges'
    <2> SUFFICES ASSUME NEW i \in Places, packet'[i].state = "built",
                        Rechecks(Chain[i].by), Chain[i].by.blind = {},
                        NEW r \in Verified(Chain[i].by), Place(r) < i
                 PROVE  packet'[Place(r)].pin \in {None, packet'[i].pin}
      BY DEF Merges
    <2>1. Place(r) \in Places /\ \A j \in Places : j \in Nat
      BY ChainRules, PlacesAre
    <2>2. CASE i = Present
      <3>1. Script.reads \in Seq(STRING) /\ work.left = <<>>
        BY <1>1, <1>3, ScriptRules DEF WorkTyped
      <3>2. MergedUpTo = Len(Script.reads)
        BY <1>1, <3>1 DEF MergedUpTo, Done
      <3>3. PICK k \in 1 .. Len(Script.reads) :
                   r = Script.reads[k] /\ r \notin Script.sealed
        BY <1>2, <2>2, <3>1 DEF Verified
      <3>4. packet[Place(r)].pin \in {None, work.pin}
        BY <1>1, <1>2, <2>2, <3>2, <3>3 DEF WorkIInv, WorkMerges
      <3> QED
        BY <1>2, <1>4, <2>1, <2>2, <3>4
    <2>3. CASE i # Present
      <3>1. packet'[i] = packet[i] /\ i < Present
        BY <1>2, <1>4, <2>3
      <3>2. packet'[Place(r)] = packet[Place(r)]
        BY <1>2, <1>4, <2>1, <3>1
      <3> QED
        BY <1>3, <3>1, <3>2 DEF Merges
    <2> QED
      BY <2>2, <2>3
  <1> QED
    BY <1>1, <1>6, <1>7, <1>8, <1>9, IdleIInv DEF PacketsIInv

\* A script that refuses or dies has changed at most the state of a packet
\* that was not there.
LEMMA LeftIInv ==
  ASSUME PacketsIInv, Unbuilt # {}, UNCHANGED version,
         NEW st \in {"partial", packet[Present].state},
         packet' = [packet EXCEPT ![Present].state = st]
  PROVE  PacketsIInv'
  <1>1. /\ Present \in Places /\ packet[Present].state # "built"
    BY PresentIs DEF PacketsIInv
  <1>2. packet \in [Places -> Packets]
    BY DEF PacketsIInv, PacketsTyped
  <1>3. \A i \in Places : packet'[i] = IF i = Present THEN [packet[i] EXCEPT !.state = st]
                                      ELSE packet[i]
    BY <1>1, <1>2
  <1>4. st \in {"absent", "partial"}
    BY <1>1, <1>2 DEF Packets
  <1>5. \A i \in Places :
           /\ packet'[i] \in Packets
           /\ packet'[i].pin = packet[i].pin /\ packet'[i].shaped = packet[i].shaped
           /\ packet'[i].state = "built" <=> packet[i].state = "built"
    <2> SUFFICES ASSUME NEW i \in Places
                 PROVE  /\ packet'[i] \in Packets
                        /\ packet'[i].pin = packet[i].pin
                        /\ packet'[i].shaped = packet[i].shaped
                        /\ packet'[i].state = "built" <=> packet[i].state = "built"
      OBVIOUS
    <2>1. CASE i = Present
      <3>1. packet'[i] = [packet[i] EXCEPT !.state = st] /\ packet[i] \in Packets
        BY <1>2, <1>3, <2>1
      <3>2. packet'[i] \in Packets /\ packet'[i].pin = packet[i].pin
            /\ packet'[i].shaped = packet[i].shaped /\ packet'[i].state = st
        BY <1>4, <3>1 DEF Packets
      <3> QED
        BY <1>1, <1>4, <2>1, <3>2
    <2>2. CASE i # Present
      BY <1>2, <1>3, <2>2
    <2> QED
      BY <2>1, <2>2
  <1>6. PacketsTyped'
    <2>1. packet' \in [Places -> Packets]
      <3>1. DOMAIN packet' = Places /\ packet' = [i \in Places |-> packet'[i]]
        BY <1>2
      <3> QED
        BY <1>5, <3>1
    <2> QED
      BY <1>5, <2>1 DEF PacketsIInv, PacketsTyped
  <1>7. BuiltInOrder'
    BY <1>5 DEF PacketsIInv, BuiltInOrder
  <1>8. PacketsHave'
    BY <1>5 DEF PacketsIInv, PacketsHave
  <1>9. Merges'
    <2> SUFFICES ASSUME NEW i \in Places, packet'[i].state = "built",
                        Rechecks(Chain[i].by), Chain[i].by.blind = {},
                        NEW r \in Verified(Chain[i].by), Place(r) < i
                 PROVE  packet'[Place(r)].pin \in {None, packet'[i].pin}
      BY DEF Merges
    <2>1. Place(r) \in Places
      BY ChainRules
    <2> QED
      BY <1>5, <2>1 DEF PacketsIInv, Merges
  <1> QED
    BY <1>6, <1>7, <1>8, <1>9 DEF PacketsIInv

LEMMA StopIInv ==
  ASSUME ~TakenLate, PacketsIInv, WorkIInv, Refuse \/ Die
  PROVE  PacketsIInv' /\ WorkIInv'
  <1>1. Unbuilt # {}
    <2>1. CASE Refuse
      BY <2>1 DEF Refuse, Running
    <2>2. CASE Die
      BY <2>2 DEF Die, WorkIInv, WorkTyped
    <2> QED
      BY <2>1, <2>2
  <1>2. /\ work' = Idle /\ UNCHANGED version
        /\ packet' = [packet EXCEPT ![Present].state =
                        IF Opened THEN "partial" ELSE @]
    BY DEF Refuse, Die
  <1>3. PICK st \in {"partial", packet[Present].state} :
               packet' = [packet EXCEPT ![Present].state = st]
    <2>1. CASE Opened
      BY <1>2, <2>1
    <2>2. CASE ~Opened
      BY <1>2, <2>2
    <2> QED
      BY <2>1, <2>2
  <1>4. PacketsIInv'
    BY <1>1, <1>2, <1>3, LeftIInv
  <1> QED
    BY <1>2, <1>4, IdleIInv

LEMMA EditIInv ==
  ASSUME ~TakenLate, PacketsIInv, WorkIInv, Edit
  PROVE  PacketsIInv' /\ WorkIInv'
  <1>1. /\ UNCHANGED <<file, packet>> /\ version' = 3 - version /\ ~work.edited
        /\ work' = IF work.at = "idle" THEN work ELSE [work EXCEPT !.edited = TRUE]
    BY DEF Edit
  <1>2. /\ Unbuilt' = Unbuilt /\ Present' = Present /\ Script' = Script
        /\ Strong(Script)' = Strong(Script)
        /\ Rechecks(Script)' = Rechecks(Script) /\ Packs(Script)' = Packs(Script)
    BY <1>1, SameScript
  <1>3. version \in {1, 2} /\ None \notin {1, 2}
    BY ChainBounds DEF PacketsIInv, PacketsTyped
  <1>4. version' \in {1, 2} /\ version' # version
    BY <1>1, <1>3
  <1>5. PacketsIInv'
    BY <1>1, <1>4, PacketsStay
  <1>6. work \in Works /\ WorkTyped
    BY DEF WorkIInv, WorkTyped
  <1>7. /\ work' \in Works /\ work'.at = work.at /\ work'.left = work.left
        /\ work'.pin = work.pin /\ work'.shaped = work.shaped
        /\ work.at # "idle" => work'.edited
    <2>1. CASE work.at = "idle"
      BY <1>1, <1>6, <2>1
    <2>2. CASE work.at # "idle"
      BY <1>1, <1>6, <2>2 DEF Works
    <2> QED
      BY <2>1, <2>2
  <1>8. /\ Done' = Done /\ MergedUpTo' = MergedUpTo /\ Reads' = Reads
        /\ IsSealed' = IsSealed
    BY <1>2, <1>7 DEF Done, MergedUpTo, Reads, IsSealed
  <1>9. (Reading' <=> Reading) /\ OwnFiles' = OwnFiles
    BY <1>2, <1>7 DEF Reading, OwnFiles
  <1>10. WorkTyped'
    BY <1>2, <1>6, <1>7, <1>8 DEF WorkTyped
  <1>11. Gathers'
    <2> SUFFICES ASSUME Reading
                 PROVE  /\ work.pin = version' => work.shaped \subseteq {version'}
                        /\ work.pin = None => work.shaped = {}
                        /\ work'.edited
      BY <1>7, <1>9 DEF Gathers
    <2>1. work.pin \in {None, version} /\ (work.pin = None => work.shaped = {})
      BY <1>1 DEF WorkIInv, Gathers
    <2> QED
      BY <1>3, <1>4, <1>7, <2>1 DEF Reading
  <1>12. TakesMerged' /\ OwnPinned' /\ PacksAlone' /\ Published'
    BY <1>1, <1>2, <1>7, <1>8, <1>9
       DEF WorkIInv, TakesMerged, OwnPinned, PacksAlone, Published, Has
  <1>13. WorkMerges' /\ BlindAfterOne'
    BY <1>1, <1>2, <1>7, <1>8 DEF WorkIInv, WorkMerges, BlindAfterOne
  <1> QED
    BY <1>5, <1>10, <1>11, <1>12, <1>13 DEF WorkIInv

LEMMA InitChainIInv == ASSUME Init PROVE ChainIInv
  <1>1. version = 1 /\ packet = [i \in Places |-> Absent] /\ work = Idle
    BY DEF Init
  <1>2. \A i \in Places : packet[i] = Absent
    BY <1>1
  <1>3. PacketsTyped
    <2>1. Absent \in Packets
      BY DEF Absent, Packets, Versions
    <2> QED
      BY <1>1, <2>1 DEF PacketsTyped, Absent
  <1>4. BuiltInOrder
    <2>1. 1 \in 1 .. Len(Chain) + 1 /\ \A i \in Places : ~(i < 1)
      BY PlacesAre, ChainRules
    <2> QED
      BY <1>2, <2>1 DEF BuiltInOrder, Absent
  <1>5. PacketsHave /\ Merges
    BY <1>2 DEF PacketsHave, Merges, Has, Absent
  <1>6. work.at = "idle" /\ work \in Works
    BY <1>1 DEF Idle, Works, ScriptStages, Versions
  <1>7. WorkTyped /\ WorkMerges /\ BlindAfterOne
    BY <1>6 DEF WorkTyped, WorkMerges, BlindAfterOne
  <1>8. Gathers /\ TakesMerged /\ OwnPinned /\ PacksAlone /\ Published
    BY <1>6 DEF Gathers, Reading, TakesMerged, OwnPinned, PacksAlone, Published
  <1> QED
    BY <1>3, <1>4, <1>5, <1>7, <1>8 DEF ChainIInv, PacketsIInv, WorkIInv

LEMMA ChainStepIInv == ASSUME ChainIInv, [Next]_vars PROVE ChainIInv'
  <1>1. file' = file
    BY DEF Next, Build, Begin, Verify, Take, ReadOwn, HashLate, Recheck, Publish,
           Refuse, Die, Edit, vars
  <1>2. TakenLate' <=> TakenLate
    BY <1>1 DEF TakenLate
  <1> SUFFICES ASSUME ~TakenLate, PacketsIInv, WorkIInv
               PROVE  PacketsIInv' /\ WorkIInv'
    BY <1>2 DEF ChainIInv
  <1>3. CASE Begin \/ Verify \/ Take \/ ReadOwn \/ HashLate \/ Recheck
    <2>1. UNCHANGED <<version, packet>>
      BY <1>3 DEF Begin, Verify, Take, ReadOwn, HashLate, Recheck
    <2>2. PacketsIInv'
      BY <2>1, PacketsStay DEF PacketsIInv, PacketsTyped
    <2> QED
      BY <1>3, <2>2, BeginIInv, VerifyIInv, TakeIInv, ReadOwnIInv, HashLateIInv,
         RecheckIInv
  <1>4. CASE Publish
    BY <1>4, PublishIInv
  <1>5. CASE Refuse \/ Die
    BY <1>5, StopIInv
  <1>6. CASE Edit
    BY <1>6, EditIInv
  <1>7. CASE UNCHANGED vars
    <2>1. UNCHANGED <<file, version, packet, work>>
      BY <1>7 DEF vars
    <2>2. /\ Unbuilt' = Unbuilt /\ Present' = Present /\ Script' = Script
          /\ Strong(Script)' = Strong(Script)
          /\ Rechecks(Script)' = Rechecks(Script)
          /\ Packs(Script)' = Packs(Script)
      BY <2>1, SameScript
    <2>3. /\ Done' = Done /\ MergedUpTo' = MergedUpTo /\ Reads' = Reads
          /\ IsSealed' = IsSealed /\ OwnFiles' = OwnFiles
          /\ Reading' <=> Reading
      BY <2>1, <2>2 DEF Done, MergedUpTo, Reads, IsSealed, OwnFiles, Reading
    <2>4. PacketsIInv'
      BY <2>1, PacketsStay DEF PacketsIInv, PacketsTyped
    <2>5. WorkTyped' /\ Gathers' /\ TakesMerged'
      BY <2>1, <2>2, <2>3 DEF WorkIInv, WorkTyped, Gathers, TakesMerged
    <2>6. OwnPinned' /\ PacksAlone' /\ Published'
      BY <2>1, <2>2, <2>3 DEF WorkIInv, OwnPinned, PacksAlone, Published, Has
    <2>7. WorkMerges' /\ BlindAfterOne'
      BY <2>1, <2>2, <2>3 DEF WorkIInv, WorkMerges, BlindAfterOne
    <2> QED
      BY <2>4, <2>5, <2>6, <2>7 DEF WorkIInv
  <1> QED
    BY <1>3, <1>4, <1>5, <1>6, <1>7 DEF Next, Build

LEMMA EvidenceFromIInv == ChainIInv => EvidenceIsOneVersion
  BY DEF ChainIInv, PacketsIInv, PacketsHave, Strong, Rechecks, Packs, Has,
         EvidenceIsOneVersion

-----------------------------------------------------------------------------
(* Acceptance.  The argument: a stage is done once, because a script is    *)
(* started once and its stages are done in turn, and because what outlives *)
(* a script belongs to one that cannot be started again.  What a script    *)
(* makes is therefore new in its database until its turn comes             *)
(* (AheadIsNew).  Once the preflight has found the empty installation, or  *)
(* the script is the one that makes it, nothing that was left over can     *)
(* disturb the database any more, and it holds what was made so far and    *)
(* nothing else (ExactOnceSure); a script that is done has made all of it. *)
(* The demo has no preflight: there the last verification tells it.        *)

(* The procedures of a site, with the two continuations.                   *)
Scripts(s) ==
    Procedures[s]
    \cup (IF s = "enriched" THEN {RetryEmptyInstall} ELSE {})
    \cup (IF s = "demo" THEN {FinishAfterStockRestoration} ELSE {})
Mine == IF site = Nothing THEN {} ELSE Scripts(site)
Lead(p) == Len(p.first)
Runs(p) == ~Free /\ script.by = p

(* What a database may hold: what was there, changes and pieces of them.   *)
Parts == Changes \cup {"shop", "part"}
Holds(d, s) == base[d] # Nothing /\ \E i \in DOMAIN base[d] : base[d][i] = s
Extends(d, s) ==
    /\ base[d] # Nothing
    /\ Len(s) <= Len(base[d])
    /\ \A i \in 1 .. Len(s) : base[d][i] = s[i]
(* The databases that are copies of the empty installation.                *)
Copied == {"full", "medium"}

LabTyped ==
    /\ site \in {Nothing} \cup DOMAIN Procedures
    /\ base \in [Databases -> {Nothing} \cup Seq(Parts)]
    /\ saved \in {Nothing, Fresh}
    /\ orphans \in SUBSET [stage : Changes, on : Databases]
    /\ script \in [by : {Nothing} \cup Mine, at : Nat, begun : BOOLEAN]
    /\ site = Nothing =>
          /\ marks = {} /\ orphans = {} /\ Free /\ state = Nothing
          /\ base = [d \in Databases |-> Nothing]
    /\ site # Nothing => base[Homes[site]] # Nothing

(* Nothing is inspected before there is a site.                            *)
NothingInspected == site = Nothing => diff = Nothing

(* The script that runs was started and has not ended, and it was started  *)
(* on what it needs, as was every one that has been started.               *)
ScriptFits ==
    ~Free =>
       /\ script.by \in Mine
       /\ script.at \in 1 .. Len(Stages(script.by)) + 1
       /\ script.begun => script.at \in 1 .. Len(Stages(script.by))
       /\ script.by.starts \in marks /\ script.by.ends \notin marks
       /\ script.by.needs \subseteq marks

MarksInOrder ==
    \A p \in Mine :
        /\ p.ends \in marks => p.starts \in marks
        /\ p.starts \in marks => p.needs \subseteq marks

(* The shop is configured for the site's first database until a script     *)
(* that copies it has switched the configuration to its own.               *)
Configured ==
    /\ site \in {"recipient", "demo"} => env = Homes[site]
    /\ site = "acceptance" /\ "full-started" \notin marks => env = "starter"
    /\ site = "enriched" /\ {"medium-started", "full-started"} \cap marks = {}
          => env = "empty"
    /\ ~Free => \A i \in DOMAIN script.by.first :
                   i < script.at /\ script.by.first[i] = "switch"
                      => env = script.by.on

(* What the state file tells those who continue: an installer that has     *)
(* refused does not go on, and a verification that has failed was the      *)
(* update's.                                                               *)
StateFits ==
    /\ script.begun => state = [stage |-> Stage, status |-> "running"]
    /\ site = "enriched" /\ state = Failed("install") =>
          /\ "bootstrap-started" \in marks
          /\ [stage |-> "install", on |-> "empty"] \notin orphans
    /\ state = Failed("canonical") =>
          site = "demo" /\ "update-started" \in marks

NothingTwice ==
    \A d \in Databases :
       base[d] # Nothing =>
          \A i, j \in DOMAIN base[d] :
             base[d][i] \in Changes /\ base[d][i] = base[d][j] => i = j

(* What outlives its script is a stage of a procedure, in the procedure's  *)
(* database, which does not have it yet.                                   *)
OrphansAreNew ==
    \A o \in orphans : base[o.on] # Nothing /\ ~Holds(o.on, o.stage)

OrphansBelong ==
    \A o \in orphans : \E p \in Mine :
        p.on = o.on /\ \E i \in DOMAIN p.makes : p.makes[i] = o.stage

(* What a script is going to make is neither there nor under way.          *)
Ahead(p, i) == \/ Runs(p) /\ script.at <= Lead(p) + i
               \/ ~Runs(p) /\ p.starts \notin marks

AheadIsNew ==
    \A p \in Mine : \A i \in DOMAIN p.makes :
       Ahead(p, i) =>
          /\ ~Holds(p.on, p.makes[i])
          /\ [stage |-> p.makes[i], on |-> p.on] \notin orphans

(* A database is empty until the empty installation is made in it.         *)
Untouched ==
    \A p \in Mine :
       p.makes = Fresh /\ p.starts \notin marks =>
          /\ base[p.on] = <<>>
          /\ \A o \in orphans : o.on # p.on

(* Before its k-th stage, p has made so much, on top of what was below;    *)
(* it is sure of that when it makes the empty installation itself or has   *)
(* checked that it is there.                                               *)
Least(m, n) == IF m <= n THEN m ELSE n
MadeSoFar(p, k) ==
    IF k <= Lead(p) + 1 THEN 0 ELSE Least(k - Lead(p) - 1, Len(p.makes))
Below(p) == IF p.makes = Fresh THEN 0 ELSE 1

IsExact(p, k) ==
    /\ base[p.on] # Nothing
    /\ Len(base[p.on]) = Below(p) + MadeSoFar(p, k)
    /\ Below(p) = 1 => base[p.on][1] = "install"
    /\ \A i \in 1 .. MadeSoFar(p, k) : base[p.on][Below(p) + i] = p.makes[i]

Sure(p, k) ==
    \/ p.makes = Fresh
    \/ \E i \in DOMAIN p.first : i < k /\ p.first[i] = "preflight"

ExactOnceSure ==
    ~Free /\ Sure(script.by, script.at) =>
       /\ \A o \in orphans : o.on # script.by.on
       /\ IsExact(script.by, script.at)

VerifiedInDemo ==
    ~Free /\ script.by.on = "demo"
    /\ script.at > Lead(script.by) + Len(script.by.makes) + 1
        => Extends("demo", Packaged(script.by))

CompleteIsPackaged ==
    \A p \in Mine : p.ends \in marks => Extends(p.on, Packaged(p))

LabIInv ==
    /\ LabTyped /\ ScriptFits /\ MarksInOrder /\ Configured /\ StateFits
    /\ NothingTwice /\ OrphansAreNew /\ OrphansBelong /\ AheadIsNew
    /\ Untouched /\ ExactOnceSure /\ VerifiedInDemo /\ CompleteIsPackaged

(* What the proof asks of the procedures themselves: of a script of the    *)
(* site s in its three parts, in what it checks before it makes anything   *)
(* and in its names, and of two scripts of a site.                         *)
Steps == Changes \cup Looks \cup {"keep", "create", "restore", "switch"}
Aside == {"products-and-links-exact", "stock-extracted", "restoration-passed",
          "restoration-failed", "continued"}

Shaped(p, s) ==
    /\ p.first \in Seq(Steps)
    /\ p.makes \in Seq(Changes)
    /\ p.last \in Seq(Steps)
    /\ p.on \in Databases
    /\ p.on \in Copied \/ p.on = Homes[s]
    /\ s = "demo" <=> p.on = "demo"
    /\ \A i \in DOMAIN p.first : p.first[i] \notin Changes
    /\ \A i \in DOMAIN p.makes : p.makes[i] \in Changes
    /\ \A i \in DOMAIN p.last :
          p.last[i] \notin
             Changes \cup {"create", "restore", "switch", "preflight"}
    /\ \A i, j \in DOMAIN p.makes : p.makes[i] = p.makes[j] => i = j
    /\ p.makes = Fresh \/ \A i \in DOMAIN p.makes : p.makes[i] # "install"

Guarded(p, s) ==
    /\ p.on # "demo" => p.makes = Fresh
                        \/ \E i \in DOMAIN p.first : p.first[i] = "preflight"
    /\ p.on \in Copied =>
          /\ p.makes # Fresh
          /\ \A i \in DOMAIN p.first : p.first[i] = "preflight"
                => \E j \in DOMAIN p.first : j < i /\ p.first[j] = "switch"
    /\ p.makes = Fresh => p.on = Homes[s] /\ s # "demo"
    /\ p.on = "demo" => /\ p.last # <<>>
                        /\ \A i \in DOMAIN p.last : p.last[i] \in Canonical
                        /\ \A i \in DOMAIN p.first : p.first[i] \notin {"preflight", "keep"}
    /\ \A i \in DOMAIN p.first :
          /\ p.first[i] \in {"create", "restore", "switch"} => p.on \in Copied
          /\ p.first[i] \in {"create", "restore"} =>
                ~\E j \in DOMAIN p.first : j < i /\ p.first[j] = "preflight"
          /\ p.first[i] = "keep" =>
                /\ p.makes # Fresh /\ p.on = Homes[s]
                /\ \E j \in DOMAIN p.first : j < i /\ p.first[j] = "preflight"
    /\ \A i \in DOMAIN p.last : p.last[i] = "keep" => p.makes = Fresh

Named(p, s) ==
    /\ p.on \in Copied =>
          \/ s = "acceptance" /\ p.starts = "full-started"
          \/ s = "enriched" /\ p.starts \in {"medium-started", "full-started"}
    /\ s = "enriched" /\ p.makes = Fresh =>
          p.starts = "bootstrap-started" /\ p.on = "empty"
    /\ \A i \in DOMAIN p.first : p.first[i] # "canonical"
    /\ (\E i \in DOMAIN p.last : p.last[i] = "canonical") =>
          s = "demo" /\ p.starts = "update-started"
    /\ s = "acceptance" => \A i \in DOMAIN p.last : p.last[i] # "keep"
    /\ p.on # "demo" =>
          /\ p.ends # "update-complete"
          /\ p.makes = Fresh
                <=> p.ends \in {"bootstrap-complete", "prepare-complete"}

Disjoint(p, q) ==
    \A i \in DOMAIN p.makes : \A j \in DOMAIN q.makes : p.makes[i] # q.makes[j]

Apart(p, q) ==
    /\ p.starts \notin Aside /\ p.ends \notin Aside
    /\ p.starts # q.ends
    /\ (p.starts = q.starts) <=> (p.ends = q.ends)
    /\ p.starts = q.starts =>
          /\ p.on = q.on /\ p.needs = q.needs
          /\ p.makes = q.makes \/ p.ends = "update-complete"
    /\ p.makes = Fresh /\ q.makes # Fresh /\ p.on = q.on =>
          p.starts \in q.needs \/ p.ends \in q.needs
    /\ p.starts # q.starts /\ p.on = q.on =>
          /\ p.on \notin Copied
          /\ p.on # "demo" => p.makes = Fresh \/ q.makes = Fresh
          /\ Disjoint(p, q)

\* Lists of few elements.
LEMMA ListOf0 ==
  ASSUME NEW S
  PROVE  <<>> \in Seq(S)
  OBVIOUS

LEMMA ListOf1 ==
  ASSUME NEW S, NEW a \in S
  PROVE  <<a>> \in Seq(S)
  OBVIOUS

LEMMA ListOf2 ==
  ASSUME NEW S, NEW a \in S, NEW b \in S
  PROVE  <<a, b>> \in Seq(S)
  OBVIOUS

LEMMA ListOf3 ==
  ASSUME NEW S, NEW a \in S, NEW b \in S, NEW c \in S
  PROVE  <<a, b, c>> \in Seq(S)
  OBVIOUS

LEMMA ListOf4 ==
  ASSUME NEW S, NEW a \in S, NEW b \in S, NEW c \in S, NEW d \in S
  PROVE  <<a, b, c, d>> \in Seq(S)
  OBVIOUS

LEMMA ListOf5 ==
  ASSUME NEW S, NEW a \in S, NEW b \in S, NEW c \in S, NEW d \in S, NEW e \in S
  PROVE  <<a, b, c, d, e>> \in Seq(S)
  OBVIOUS

LEMMA ListOf6 ==
  ASSUME NEW S, NEW a \in S, NEW b \in S, NEW c \in S, NEW d \in S,
         NEW e \in S, NEW f \in S
  PROVE  <<a, b, c, d, e, f>> \in Seq(S)
  OBVIOUS

\* What the native imports and the merchandising make.
LEMMA ImportsAre ==
    /\ Imports \in Seq(Changes) /\ Merchandising \in Seq(Changes)
    /\ Imports # Fresh /\ Merchandising # Fresh
    /\ DOMAIN Imports = 1 .. 5 /\ DOMAIN Merchandising = 1 .. 6
    /\ \A i \in DOMAIN Imports : Imports[i] \in Changes
    /\ \A i \in DOMAIN Merchandising : Merchandising[i] \in Changes
    /\ \A i, j \in DOMAIN Imports : Imports[i] = Imports[j] => i = j
    /\ \A i, j \in DOMAIN Merchandising :
          Merchandising[i] = Merchandising[j] => i = j
    /\ \A i \in DOMAIN Imports : Imports[i] \notin {"install", "gallery"}
    /\ \A i \in DOMAIN Merchandising : Merchandising[i] \notin {"install"}
  <1>1. /\ Imports \in Seq(Changes) /\ Merchandising \in Seq(Changes)
    BY ListOf5, ListOf6 DEF Imports, Merchandising, Changes
  <1> QED
    BY <1>1 DEF Imports, Merchandising, Fresh

\* Every script is as the proof asks.
LEMMA BootstrapShape ==
    /\ Shaped(Bootstrap, "acceptance")
    /\ Guarded(Bootstrap, "acceptance")
    /\ Named(Bootstrap, "acceptance")
  <1> DEFINE p == Bootstrap
  <1>1. /\ p.first = <<>>
        /\ p.makes = <<"install">>
        /\ p.last = <<>>
        /\ p.on = "starter"
    BY DEF Bootstrap
  <1>0. p.starts = "bootstrap-started" /\ p.ends = "bootstrap-complete"
    BY DEF Bootstrap
  <1> HIDE DEF p
  <1>2. p.first \in Seq(Steps)
    BY <1>1, ListOf0 DEF Steps, Looks
  <1>3. p.makes \in Seq(Changes)
    BY <1>1, ListOf1 DEF Changes
  <1>4. p.last \in Seq(Steps)
    BY <1>1, ListOf0 DEF Steps, Looks, Canonical
  <1>5. Shaped(p, "acceptance")
    BY <1>1, <1>2, <1>3, <1>4
       DEF Shaped, Databases, Copied, Homes, Fresh, Canonical, Changes
  <1>6. Guarded(p, "acceptance")
    BY <1>1, <1>2, <1>3, <1>4
       DEF Guarded, Databases, Copied, Homes, Fresh, Canonical, Changes
  <1>7. Named(p, "acceptance")
    BY <1>0, <1>1, <1>2, <1>3, <1>4
       DEF Named, Databases, Copied, Homes, Fresh, Canonical, Changes
  <1> QED
    BY <1>5, <1>6, <1>7 DEF p

LEMMA StarterShape ==
    /\ Shaped(Starter, "acceptance")
    /\ Guarded(Starter, "acceptance")
    /\ Named(Starter, "acceptance")
  <1> DEFINE p == Starter
  <1>1. /\ p.first = <<"package", "preflight", "keep">>
        /\ p.makes = Imports
        /\ p.last = <<>>
        /\ p.on = "starter"
    BY DEF Starter
  <1>0. p.starts = "starter-started" /\ p.ends = "starter-complete"
    BY DEF Starter
  <1> HIDE DEF p
  <1>2. p.first \in Seq(Steps)
    BY <1>1, ListOf3 DEF Steps, Looks
  <1>3. p.makes \in Seq(Changes)
    BY <1>1, ImportsAre
  <1>4. p.last \in Seq(Steps)
    BY <1>1, ListOf0 DEF Steps, Looks, Canonical
  <1>5. Shaped(p, "acceptance")
    BY <1>1, <1>2, <1>3, <1>4, ImportsAre
       DEF Shaped, Databases, Copied, Homes, Fresh, Canonical, Changes
  <1>6. Guarded(p, "acceptance")
    BY <1>1, <1>2, <1>3, <1>4, ImportsAre
       DEF Guarded, Databases, Copied, Homes, Fresh, Canonical
  <1>7. Named(p, "acceptance")
    BY <1>0, <1>1, <1>2, <1>3, <1>4, ImportsAre
       DEF Named, Databases, Copied, Homes, Fresh, Canonical
  <1> QED
    BY <1>5, <1>6, <1>7 DEF p

LEMMA FullShape ==
    /\ Shaped(Full, "acceptance")
    /\ Guarded(Full, "acceptance")
    /\ Named(Full, "acceptance")
  <1> DEFINE p == Full
  <1>1. /\ p.first = <<"package", "create", "restore", "switch", "preflight">>
        /\ p.makes = Imports
        /\ p.last = <<>>
        /\ p.on = "full"
    BY DEF Full
  <1>0. p.starts = "full-started" /\ p.ends = "full-complete"
    BY DEF Full
  <1> HIDE DEF p
  <1>2. p.first \in Seq(Steps)
    BY <1>1, ListOf5 DEF Steps, Looks
  <1>3. p.makes \in Seq(Changes)
    BY <1>1, ImportsAre
  <1>4. p.last \in Seq(Steps)
    BY <1>1, ListOf0 DEF Steps, Looks, Canonical
  <1>5. Shaped(p, "acceptance")
    BY <1>1, <1>2, <1>3, <1>4, ImportsAre
       DEF Shaped, Databases, Copied, Homes, Fresh, Canonical, Changes
  <1>6. Guarded(p, "acceptance")
    <2>1. /\ DOMAIN p.first = 1 .. 5
          /\ p.first[4] = "switch" /\ p.first[5] = "preflight"
          /\ \A i \in 1 .. 4 : p.first[i] \notin {"preflight", "keep"}
          /\ \A i \in DOMAIN p.last : p.last[i] # "keep"
      BY <1>1
    <2>2. p.makes # Fresh /\ p.on \in Copied /\ p.on # "demo"
      BY <1>1, ImportsAre DEF Copied
    <2>3. \A i \in DOMAIN p.first :
             p.first[i] \in {"preflight", "keep"} =>
                i = 5 /\ p.first[i] = "preflight"
      BY <2>1
    <2> QED
      BY <2>1, <2>2, <2>3 DEF Guarded
  <1>7. Named(p, "acceptance")
    BY <1>0, <1>1, <1>2, <1>3, <1>4, ImportsAre
       DEF Named, Databases, Copied, Homes, Fresh, Canonical
  <1> QED
    BY <1>5, <1>6, <1>7 DEF p

LEMMA PrepareShape ==
    /\ Shaped(Prepare, "recipient")
    /\ Guarded(Prepare, "recipient")
    /\ Named(Prepare, "recipient")
  <1> DEFINE p == Prepare
  <1>1. /\ p.first = <<>>
        /\ p.makes = <<"install">>
        /\ p.last = <<"keep">>
        /\ p.on = "recipient"
    BY DEF Prepare
  <1>0. p.starts = "prepare-started" /\ p.ends = "prepare-complete"
    BY DEF Prepare
  <1> HIDE DEF p
  <1>2. p.first \in Seq(Steps)
    BY <1>1, ListOf0 DEF Steps, Looks
  <1>3. p.makes \in Seq(Changes)
    BY <1>1, ListOf1 DEF Changes
  <1>4. p.last \in Seq(Steps)
    BY <1>1, ListOf1 DEF Steps, Looks, Canonical
  <1>5. Shaped(p, "recipient")
    BY <1>1, <1>2, <1>3, <1>4
       DEF Shaped, Databases, Copied, Homes, Fresh, Canonical, Changes
  <1>6. Guarded(p, "recipient")
    BY <1>1, <1>2, <1>3, <1>4
       DEF Guarded, Databases, Copied, Homes, Fresh, Canonical, Changes
  <1>7. Named(p, "recipient")
    BY <1>0, <1>1, <1>2, <1>3, <1>4
       DEF Named, Databases, Copied, Homes, Fresh, Canonical, Changes
  <1> QED
    BY <1>5, <1>6, <1>7 DEF p

LEMMA InstallShape ==
    /\ Shaped(Install, "recipient")
    /\ Guarded(Install, "recipient")
    /\ Named(Install, "recipient")
  <1> DEFINE p == Install
  <1>1. /\ p.first = <<"package", "preflight">>
        /\ p.makes = Merchandising
        /\ p.last = <<"verify", "dump">>
        /\ p.on = "recipient"
    BY DEF Install
  <1>0. p.starts = "install-started" /\ p.ends = "install-complete"
    BY DEF Install
  <1> HIDE DEF p
  <1>2. p.first \in Seq(Steps)
    BY <1>1, ListOf2 DEF Steps, Looks
  <1>3. p.makes \in Seq(Changes)
    BY <1>1, ImportsAre
  <1>4. p.last \in Seq(Steps)
    BY <1>1, ListOf2 DEF Steps, Looks, Canonical
  <1>5. Shaped(p, "recipient")
    BY <1>1, <1>2, <1>3, <1>4, ImportsAre
       DEF Shaped, Databases, Copied, Homes, Fresh, Canonical, Changes
  <1>6. Guarded(p, "recipient")
    BY <1>1, <1>2, <1>3, <1>4, ImportsAre
       DEF Guarded, Databases, Copied, Homes, Fresh, Canonical
  <1>7. Named(p, "recipient")
    BY <1>0, <1>1, <1>2, <1>3, <1>4, ImportsAre
       DEF Named, Databases, Copied, Homes, Fresh, Canonical
  <1> QED
    BY <1>5, <1>6, <1>7 DEF p

LEMMA EnrichedBootstrapShape ==
    /\ Shaped(EnrichedBootstrap, "enriched")
    /\ Guarded(EnrichedBootstrap, "enriched")
    /\ Named(EnrichedBootstrap, "enriched")
  <1> DEFINE p == EnrichedBootstrap
  <1>1. /\ p.first = <<"package">>
        /\ p.makes = <<"install">>
        /\ p.last = <<"keep">>
        /\ p.on = "empty"
    BY DEF EnrichedBootstrap
  <1>0. p.starts = "bootstrap-started" /\ p.ends = "bootstrap-complete"
    BY DEF EnrichedBootstrap
  <1> HIDE DEF p
  <1>2. p.first \in Seq(Steps)
    BY <1>1, ListOf1 DEF Steps, Looks
  <1>3. p.makes \in Seq(Changes)
    BY <1>1, ListOf1 DEF Changes
  <1>4. p.last \in Seq(Steps)
    BY <1>1, ListOf1 DEF Steps, Looks, Canonical
  <1>5. Shaped(p, "enriched")
    BY <1>1, <1>2, <1>3, <1>4
       DEF Shaped, Databases, Copied, Homes, Fresh, Canonical, Changes
  <1>6. Guarded(p, "enriched")
    BY <1>1, <1>2, <1>3, <1>4
       DEF Guarded, Databases, Copied, Homes, Fresh, Canonical, Changes
  <1>7. Named(p, "enriched")
    BY <1>0, <1>1, <1>2, <1>3, <1>4
       DEF Named, Databases, Copied, Homes, Fresh, Canonical, Changes
  <1> QED
    BY <1>5, <1>6, <1>7 DEF p

LEMMA RetryEmptyInstallShape ==
    /\ Shaped(RetryEmptyInstall, "enriched")
    /\ Guarded(RetryEmptyInstall, "enriched")
    /\ Named(RetryEmptyInstall, "enriched")
  <1> DEFINE p == RetryEmptyInstall
  <1>1. /\ p.first = <<>>
        /\ p.makes = <<"install">>
        /\ p.last = <<"keep">>
        /\ p.on = "empty"
    BY DEF RetryEmptyInstall, EnrichedBootstrap
  <1>0. p.starts = "bootstrap-started" /\ p.ends = "bootstrap-complete"
    BY DEF RetryEmptyInstall, EnrichedBootstrap
  <1> HIDE DEF p
  <1>2. p.first \in Seq(Steps)
    BY <1>1, ListOf0 DEF Steps, Looks
  <1>3. p.makes \in Seq(Changes)
    BY <1>1, ListOf1 DEF Changes
  <1>4. p.last \in Seq(Steps)
    BY <1>1, ListOf1 DEF Steps, Looks, Canonical
  <1>5. Shaped(p, "enriched")
    BY <1>1, <1>2, <1>3, <1>4
       DEF Shaped, Databases, Copied, Homes, Fresh, Canonical, Changes
  <1>6. Guarded(p, "enriched")
    BY <1>1, <1>2, <1>3, <1>4
       DEF Guarded, Databases, Copied, Homes, Fresh, Canonical, Changes
  <1>7. Named(p, "enriched")
    BY <1>0, <1>1, <1>2, <1>3, <1>4
       DEF Named, Databases, Copied, Homes, Fresh, Canonical, Changes
  <1> QED
    BY <1>5, <1>6, <1>7 DEF p

LEMMA MediumShape ==
    /\ Shaped(Medium, "enriched")
    /\ Guarded(Medium, "enriched")
    /\ Named(Medium, "enriched")
  <1> DEFINE p == Medium
  <1>1. /\ p.first = <<"create", "restore", "switch", "preflight">>
        /\ p.makes = Merchandising
        /\ p.last = <<"verify", "dump">>
        /\ p.on = "medium"
    BY DEF Medium
  <1>0. p.starts = "medium-started" /\ p.ends = "medium-complete"
    BY DEF Medium
  <1> HIDE DEF p
  <1>2. p.first \in Seq(Steps)
    BY <1>1, ListOf4 DEF Steps, Looks
  <1>3. p.makes \in Seq(Changes)
    BY <1>1, ImportsAre
  <1>4. p.last \in Seq(Steps)
    BY <1>1, ListOf2 DEF Steps, Looks, Canonical
  <1>5. Shaped(p, "enriched")
    BY <1>1, <1>2, <1>3, <1>4, ImportsAre
       DEF Shaped, Databases, Copied, Homes, Fresh, Canonical, Changes
  <1>6. Guarded(p, "enriched")
    <2>1. /\ DOMAIN p.first = 1 .. 4
          /\ p.first[3] = "switch" /\ p.first[4] = "preflight"
          /\ \A i \in 1 .. 3 : p.first[i] \notin {"preflight", "keep"}
          /\ \A i \in DOMAIN p.last : p.last[i] # "keep"
      BY <1>1
    <2>2. p.makes # Fresh /\ p.on \in Copied /\ p.on # "demo"
      BY <1>1, ImportsAre DEF Copied
    <2>3. \A i \in DOMAIN p.first :
             p.first[i] \in {"preflight", "keep"} =>
                i = 4 /\ p.first[i] = "preflight"
      BY <2>1
    <2> QED
      BY <2>1, <2>2, <2>3 DEF Guarded
  <1>7. Named(p, "enriched")
    BY <1>0, <1>1, <1>2, <1>3, <1>4, ImportsAre
       DEF Named, Databases, Copied, Homes, Fresh, Canonical
  <1> QED
    BY <1>5, <1>6, <1>7 DEF p

LEMMA EnrichedFullShape ==
    /\ Shaped(EnrichedFull, "enriched")
    /\ Guarded(EnrichedFull, "enriched")
    /\ Named(EnrichedFull, "enriched")
  <1> DEFINE p == EnrichedFull
  <1>1. /\ p.first = <<"package", "create", "restore", "switch", "preflight">>
        /\ p.makes = Merchandising
        /\ p.last = <<"verify", "dump">>
        /\ p.on = "full"
    BY DEF EnrichedFull
  <1>0. p.starts = "full-started" /\ p.ends = "full-complete"
    BY DEF EnrichedFull
  <1> HIDE DEF p
  <1>2. p.first \in Seq(Steps)
    BY <1>1, ListOf5 DEF Steps, Looks
  <1>3. p.makes \in Seq(Changes)
    BY <1>1, ImportsAre
  <1>4. p.last \in Seq(Steps)
    BY <1>1, ListOf2 DEF Steps, Looks, Canonical
  <1>5. Shaped(p, "enriched")
    BY <1>1, <1>2, <1>3, <1>4, ImportsAre
       DEF Shaped, Databases, Copied, Homes, Fresh, Canonical, Changes
  <1>6. Guarded(p, "enriched")
    <2>1. /\ DOMAIN p.first = 1 .. 5
          /\ p.first[4] = "switch" /\ p.first[5] = "preflight"
          /\ \A i \in 1 .. 4 : p.first[i] \notin {"preflight", "keep"}
          /\ \A i \in DOMAIN p.last : p.last[i] # "keep"
      BY <1>1
    <2>2. p.makes # Fresh /\ p.on \in Copied /\ p.on # "demo"
      BY <1>1, ImportsAre DEF Copied
    <2>3. \A i \in DOMAIN p.first :
             p.first[i] \in {"preflight", "keep"} =>
                i = 5 /\ p.first[i] = "preflight"
      BY <2>1
    <2> QED
      BY <2>1, <2>2, <2>3 DEF Guarded
  <1>7. Named(p, "enriched")
    BY <1>0, <1>1, <1>2, <1>3, <1>4, ImportsAre
       DEF Named, Databases, Copied, Homes, Fresh, Canonical
  <1> QED
    BY <1>5, <1>6, <1>7 DEF p

LEMMA UpdateShape ==
    Shaped(Update, "demo") /\ Guarded(Update, "demo") /\ Named(Update, "demo")
  <1> DEFINE p == Update
  <1>1. /\ p.first = <<"dump">>
        /\ p.makes = <<"schema", "attributes", "links">>
        /\ p.last = <<"canonical">>
        /\ p.on = "demo"
    BY DEF Update
  <1>0. p.starts = "update-started" /\ p.ends = "update-complete"
    BY DEF Update
  <1> HIDE DEF p
  <1>2. p.first \in Seq(Steps)
    BY <1>1, ListOf1 DEF Steps, Looks
  <1>3. p.makes \in Seq(Changes)
    BY <1>1, ListOf3 DEF Changes
  <1>4. p.last \in Seq(Steps)
    BY <1>1, ListOf1 DEF Steps, Looks, Canonical
  <1>5. Shaped(p, "demo")
    BY <1>1, <1>2, <1>3, <1>4
       DEF Shaped, Databases, Copied, Homes, Fresh, Canonical, Changes
  <1>6. Guarded(p, "demo")
    BY <1>1, <1>2, <1>3, <1>4
       DEF Guarded, Databases, Copied, Homes, Fresh, Canonical, Changes
  <1>7. Named(p, "demo")
    BY <1>0, <1>1, <1>2, <1>3, <1>4
       DEF Named, Databases, Copied, Homes, Fresh, Canonical, Changes
  <1> QED
    BY <1>5, <1>6, <1>7 DEF p

LEMMA FinishAfterStockRestorationShape ==
    /\ Shaped(FinishAfterStockRestoration, "demo")
    /\ Guarded(FinishAfterStockRestoration, "demo")
    /\ Named(FinishAfterStockRestoration, "demo")
  <1> DEFINE p == FinishAfterStockRestoration
  <1>1. /\ p.first = <<>>
        /\ p.makes = <<>>
        /\ p.last = <<"canonical-after-stock", "canonical-after-index">>
        /\ p.on = "demo"
    BY DEF FinishAfterStockRestoration, Update
  <1>0. p.starts = "update-started" /\ p.ends = "update-complete"
    BY DEF FinishAfterStockRestoration, Update
  <1> HIDE DEF p
  <1>2. p.first \in Seq(Steps)
    BY <1>1, ListOf0 DEF Steps, Looks
  <1>3. p.makes \in Seq(Changes)
    BY <1>1, ListOf0 DEF Changes
  <1>4. p.last \in Seq(Steps)
    BY <1>1, ListOf2 DEF Steps, Looks, Canonical
  <1>5. Shaped(p, "demo")
    BY <1>1, <1>2, <1>3, <1>4
       DEF Shaped, Databases, Copied, Homes, Fresh, Canonical, Changes
  <1>6. Guarded(p, "demo")
    BY <1>1, <1>2, <1>3, <1>4
       DEF Guarded, Databases, Copied, Homes, Fresh, Canonical, Changes
  <1>7. Named(p, "demo")
    BY <1>0, <1>1, <1>2, <1>3, <1>4
       DEF Named, Databases, Copied, Homes, Fresh, Canonical, Changes
  <1> QED
    BY <1>5, <1>6, <1>7 DEF p

LEMMA GalleryShape ==
    /\ Shaped(Gallery, "demo")
    /\ Guarded(Gallery, "demo")
    /\ Named(Gallery, "demo")
  <1> DEFINE p == Gallery
  <1>1. /\ p.first = <<"package", "dump">>
        /\ p.makes = <<"gallery">>
        /\ p.last = <<"canonical-with-gallery">>
        /\ p.on = "demo"
    BY DEF Gallery
  <1>0. p.starts = "gallery-started" /\ p.ends = "gallery-complete"
    BY DEF Gallery
  <1> HIDE DEF p
  <1>2. p.first \in Seq(Steps)
    BY <1>1, ListOf2 DEF Steps, Looks
  <1>3. p.makes \in Seq(Changes)
    BY <1>1, ListOf1 DEF Changes
  <1>4. p.last \in Seq(Steps)
    BY <1>1, ListOf1 DEF Steps, Looks, Canonical
  <1>5. Shaped(p, "demo")
    BY <1>1, <1>2, <1>3, <1>4
       DEF Shaped, Databases, Copied, Homes, Fresh, Canonical, Changes
  <1>6. Guarded(p, "demo")
    BY <1>1, <1>2, <1>3, <1>4
       DEF Guarded, Databases, Copied, Homes, Fresh, Canonical, Changes
  <1>7. Named(p, "demo")
    BY <1>0, <1>1, <1>2, <1>3, <1>4
       DEF Named, Databases, Copied, Homes, Fresh, Canonical, Changes
  <1> QED
    BY <1>5, <1>6, <1>7 DEF p

\* Two scripts of a site do not come into each other's way.
LEMMA ApartAcceptance == \A p, q \in Scripts("acceptance") : Apart(p, q)
  <1> DEFINE All == {Bootstrap, Starter, Full}
  <1>1. Scripts("acceptance") = All
    BY DEF Scripts, Procedures
  <1>2. /\ Bootstrap.starts = "bootstrap-started"
        /\ Bootstrap.ends = "bootstrap-complete"
        /\ Bootstrap.on = "starter" /\ Bootstrap.makes = <<"install">>
    BY DEF Bootstrap
  <1>3. /\ Starter.starts = "starter-started"
        /\ Starter.ends = "starter-complete"
        /\ Starter.on = "starter" /\ Starter.makes = Imports
    BY DEF Starter
  <1>4. /\ Full.starts = "full-started" /\ Full.ends = "full-complete"
        /\ Full.on = "full" /\ Full.makes = Imports
    BY DEF Full
  <1>5. /\ Bootstrap.needs = {}
        /\ Starter.needs = {"bootstrap-started"}
        /\ Full.needs = {"starter-complete"}
    BY DEF Bootstrap, Starter, Full
  <1>6. ASSUME NEW p \in All, NEW q \in All, p.starts # q.starts, p.on = q.on
        PROVE  Disjoint(p, q)
    <2> USE <1>2, <1>3, <1>4, <1>6, ImportsAre DEF Disjoint
    <2>1. CASE p = Bootstrap
      <3>1. q = Starter
        BY <2>1
      <3>2. /\ \A i \in DOMAIN p.makes : p.makes[i] = "install"
            /\ \A i \in DOMAIN q.makes : q.makes[i] # "install"
        BY <2>1, <3>1
      <3> QED
        BY <3>2
    <2>2. CASE p = Starter
      BY <2>2
    <2>3. CASE p = Full
      BY <2>3
    <2> QED
      BY <2>1, <2>2, <2>3
  <1>7. ASSUME NEW p \in All, NEW q \in All
        PROVE  Apart(p, q)
    <2> USE <1>2, <1>3, <1>4, <1>5
         DEF Apart, Copied, Fresh, Aside
    <2>1. CASE p = Bootstrap
      BY <2>1, <1>6
    <2>2. CASE p = Starter
      BY <2>2, <1>6
    <2>3. CASE p = Full
      BY <2>3, <1>6
    <2> QED
      BY <2>1, <2>2, <2>3
  <1> QED
    BY <1>1, <1>7

LEMMA ApartRecipient == \A p, q \in Scripts("recipient") : Apart(p, q)
  <1> DEFINE All == {Prepare, Install}
  <1>1. Scripts("recipient") = All
    BY DEF Scripts, Procedures
  <1>2. /\ Prepare.starts = "prepare-started"
        /\ Prepare.ends = "prepare-complete"
        /\ Prepare.on = "recipient" /\ Prepare.makes = <<"install">>
    BY DEF Prepare
  <1>3. /\ Install.starts = "install-started"
        /\ Install.ends = "install-complete"
        /\ Install.on = "recipient" /\ Install.makes = Merchandising
    BY DEF Install
  <1>4. /\ Prepare.needs = {}
        /\ Install.needs = {"prepare-complete"}
    BY DEF Prepare, Install
  <1>5. ASSUME NEW p \in All, NEW q \in All, p.starts # q.starts, p.on = q.on
        PROVE  Disjoint(p, q)
    <2>1. \A i \in DOMAIN Prepare.makes : Prepare.makes[i] = "install"
      BY <1>2
    <2>2. \A i \in DOMAIN Install.makes : Install.makes[i] # "install"
      BY <1>3, ImportsAre
    <2>3. Disjoint(Prepare, Install) /\ Disjoint(Install, Prepare)
      BY <2>1, <2>2 DEF Disjoint
    <2>4. \/ p = Prepare /\ q = Install
          \/ p = Install /\ q = Prepare
      BY <1>5
    <2> QED
      BY <2>3, <2>4
  <1>6. ASSUME NEW p \in All, NEW q \in All
        PROVE  Apart(p, q)
    <2> USE <1>2, <1>3, <1>4
         DEF Apart, Copied, Fresh, Aside
    <2>1. CASE p = Prepare
      BY <2>1, <1>5
    <2>2. CASE p = Install
      BY <2>2, <1>5
    <2> QED
      BY <2>1, <2>2
  <1> QED
    BY <1>1, <1>6

LEMMA ApartEnriched == \A p, q \in Scripts("enriched") : Apart(p, q)
  <1> DEFINE All == {EnrichedBootstrap, RetryEmptyInstall, Medium, EnrichedFull}
  <1>1. Scripts("enriched") = All
    BY DEF Scripts, Procedures
  <1>2. /\ EnrichedBootstrap.starts = "bootstrap-started"
        /\ EnrichedBootstrap.ends = "bootstrap-complete"
        /\ EnrichedBootstrap.on = "empty"
        /\ EnrichedBootstrap.makes = <<"install">>
    BY DEF EnrichedBootstrap
  <1>3. /\ RetryEmptyInstall.starts = "bootstrap-started"
        /\ RetryEmptyInstall.ends = "bootstrap-complete"
        /\ RetryEmptyInstall.on = "empty"
        /\ RetryEmptyInstall.makes = <<"install">>
    BY DEF RetryEmptyInstall, EnrichedBootstrap
  <1>4. /\ Medium.starts = "medium-started" /\ Medium.ends = "medium-complete"
        /\ Medium.on = "medium" /\ Medium.makes = Merchandising
    BY DEF Medium
  <1>5. /\ EnrichedFull.starts = "full-started"
        /\ EnrichedFull.ends = "full-complete"
        /\ EnrichedFull.on = "full" /\ EnrichedFull.makes = Merchandising
    BY DEF EnrichedFull
  <1>6. /\ EnrichedBootstrap.needs = {}
        /\ RetryEmptyInstall.needs = {}
        /\ Medium.needs = {"bootstrap-complete"}
        /\ EnrichedFull.needs = {"bootstrap-complete"}
    BY DEF EnrichedBootstrap, RetryEmptyInstall, Medium, EnrichedFull
  <1>7. ASSUME NEW p \in All, NEW q \in All, p.starts # q.starts, p.on = q.on
        PROVE  Disjoint(p, q)
    <2> USE <1>2, <1>3, <1>4, <1>5, <1>7 DEF Disjoint
    <2>1. CASE p = EnrichedBootstrap
      BY <2>1
    <2>2. CASE p = RetryEmptyInstall
      BY <2>2
    <2>3. CASE p = Medium
      BY <2>3
    <2>4. CASE p = EnrichedFull
      BY <2>4
    <2> QED
      BY <2>1, <2>2, <2>3, <2>4
  <1>8. ASSUME NEW p \in All, NEW q \in All
        PROVE  Apart(p, q)
    <2> USE <1>2, <1>3, <1>4, <1>5, <1>6
         DEF Apart, Copied, Fresh, Aside
    <2>1. CASE p = EnrichedBootstrap
      BY <2>1, <1>7
    <2>2. CASE p = RetryEmptyInstall
      BY <2>2, <1>7
    <2>3. CASE p = Medium
      BY <2>3, <1>7
    <2>4. CASE p = EnrichedFull
      BY <2>4, <1>7
    <2> QED
      BY <2>1, <2>2, <2>3, <2>4
  <1> QED
    BY <1>1, <1>8

LEMMA ApartDemo == \A p, q \in Scripts("demo") : Apart(p, q)
  <1> DEFINE All == {Update, FinishAfterStockRestoration, Gallery}
  <1>1. Scripts("demo") = All
    BY DEF Scripts, Procedures
  <1>2. /\ Update.starts = "update-started" /\ Update.ends = "update-complete"
        /\ Update.on = "demo"
        /\ Update.makes = <<"schema", "attributes", "links">>
    BY DEF Update
  <1>3. /\ FinishAfterStockRestoration.starts = "update-started"
        /\ FinishAfterStockRestoration.ends = "update-complete"
        /\ FinishAfterStockRestoration.on = "demo"
        /\ FinishAfterStockRestoration.makes = <<>>
    BY DEF FinishAfterStockRestoration, Update
  <1>4. /\ Gallery.starts = "gallery-started"
        /\ Gallery.ends = "gallery-complete"
        /\ Gallery.on = "demo" /\ Gallery.makes = <<"gallery">>
    BY DEF Gallery
  <1>5. /\ Update.needs = {}
        /\ FinishAfterStockRestoration.needs = {}
        /\ Gallery.needs = {"update-complete"}
    BY DEF Update, FinishAfterStockRestoration, Gallery
  <1>6. ASSUME NEW p \in All, NEW q \in All, p.starts # q.starts, p.on = q.on
        PROVE  Disjoint(p, q)
    <2> USE <1>2, <1>3, <1>4, <1>6 DEF Disjoint
    <2>1. CASE p = Update
      BY <2>1
    <2>2. CASE p = FinishAfterStockRestoration
      BY <2>2
    <2>3. CASE p = Gallery
      BY <2>3
    <2> QED
      BY <2>1, <2>2, <2>3
  <1>7. ASSUME NEW p \in All, NEW q \in All
        PROVE  Apart(p, q)
    <2> USE <1>2, <1>3, <1>4, <1>5
         DEF Apart, Copied, Fresh, Aside
    <2>1. CASE p = Update
      BY <2>1, <1>6
    <2>2. CASE p = FinishAfterStockRestoration
      BY <2>2, <1>6
    <2>3. CASE p = Gallery
      BY <2>3, <1>6
    <2> QED
      BY <2>1, <2>2, <2>3
  <1> QED
    BY <1>1, <1>7

\* All scripts of all sites.
LEMMA ScriptsShape ==
  ASSUME NEW s \in DOMAIN Procedures, NEW p \in Scripts(s)
  PROVE  Shaped(p, s) /\ Guarded(p, s) /\ Named(p, s)
  <1>1. CASE s = "acceptance"
    <2>1. p \in {Bootstrap, Starter, Full}
      BY <1>1 DEF Scripts, Procedures
    <2> QED
      BY <1>1, <2>1, BootstrapShape, StarterShape, FullShape
  <1>2. CASE s = "recipient"
    <2>1. p \in {Prepare, Install}
      BY <1>2 DEF Scripts, Procedures
    <2> QED
      BY <1>2, <2>1, PrepareShape, InstallShape
  <1>3. CASE s = "enriched"
    <2>1. p \in {EnrichedBootstrap, RetryEmptyInstall, Medium, EnrichedFull}
      BY <1>3 DEF Scripts, Procedures
    <2> QED
      BY <1>3, <2>1, EnrichedBootstrapShape, RetryEmptyInstallShape,
         MediumShape, EnrichedFullShape
  <1>4. CASE s = "demo"
    <2>1. p \in {Update, FinishAfterStockRestoration, Gallery}
      BY <1>4 DEF Scripts, Procedures
    <2> QED
      BY <1>4, <2>1, UpdateShape, FinishAfterStockRestorationShape,
         GalleryShape
  <1> QED
    BY <1>1, <1>2, <1>3, <1>4 DEF Procedures

LEMMA ScriptsApart ==
  ASSUME NEW s \in DOMAIN Procedures
  PROVE  \A p, q \in Scripts(s) : Apart(p, q)
  BY ApartAcceptance, ApartRecipient, ApartEnriched, ApartDemo DEF Procedures

\* The stages of a script are its three parts, one after the other.
LEMMA ThreeParts ==
  ASSUME NEW S, NEW p,
         p.first \in Seq(S), p.makes \in Seq(S), p.last \in Seq(S)
  PROVE  /\ Len(p.first) \in Nat /\ Len(p.makes) \in Nat /\ Len(p.last) \in Nat
         /\ DOMAIN p.first = 1 .. Len(p.first)
         /\ DOMAIN p.makes = 1 .. Len(p.makes)
         /\ DOMAIN p.last = 1 .. Len(p.last)
         /\ Len(Stages(p)) = Len(p.first) + Len(p.makes) + Len(p.last)
         /\ \A i \in 1 .. Len(p.first) : Stages(p)[i] = p.first[i]
         /\ \A i \in 1 .. Len(p.makes) : Stages(p)[Len(p.first) + i] = p.makes[i]
         /\ \A i \in 1 .. Len(p.last) :
               Stages(p)[Len(p.first) + Len(p.makes) + i] = p.last[i]
  <1> DEFINE s == p.first
             t == p.makes
             u == p.last
  <1>0. s \in Seq(S) /\ t \in Seq(S) /\ u \in Seq(S)
    OBVIOUS
  <1>10. Stages(p) = s \o t \o u
    BY DEF Stages
  <1> HIDE DEF s, t, u
  <1>1. /\ Len(s) \in Nat /\ Len(t) \in Nat /\ Len(u) \in Nat
        /\ DOMAIN s = 1 .. Len(s) /\ DOMAIN t = 1 .. Len(t)
        /\ DOMAIN u = 1 .. Len(u)
    BY <1>0
  <1>2. Len(s \o t \o u) = Len(s) + Len(t) + Len(u)
    BY <1>0
  <1>3. s \o t \in Seq(S) /\ Len(s \o t) = Len(s) + Len(t)
    BY <1>0
  <1>4. \A i \in 1 .. Len(s) + Len(t) + Len(u) :
           (s \o t \o u)[i] = IF i <= Len(s) + Len(t) THEN (s \o t)[i]
                              ELSE u[i - Len(s) - Len(t)]
    BY <1>0, <1>1, <1>3
  <1>5. \A i \in 1 .. Len(s) + Len(t) :
           (s \o t)[i] = IF i <= Len(s) THEN s[i] ELSE t[i - Len(s)]
    BY <1>0, <1>1
  <1>6. ASSUME NEW i \in 1 .. Len(s) PROVE (s \o t \o u)[i] = s[i]
    BY <1>0, <1>1, <1>4, <1>5
  <1>7. ASSUME NEW i \in 1 .. Len(t)
        PROVE  (s \o t \o u)[Len(s) + i] = t[i]
    <2>1. /\ Len(s) + i \in 1 .. Len(s) + Len(t)
          /\ Len(s) + i \in 1 .. Len(s) + Len(t) + Len(u)
          /\ ~(Len(s) + i <= Len(s)) /\ Len(s) + i - Len(s) = i
      BY <1>0, <1>1
    <2> QED
      BY <1>0, <1>4, <1>5, <2>1
  <1>8. ASSUME NEW i \in 1 .. Len(u)
        PROVE  (s \o t \o u)[Len(s) + Len(t) + i] = u[i]
    <2>1. /\ Len(s) + Len(t) + i \in 1 .. Len(s) + Len(t) + Len(u)
          /\ ~(Len(s) + Len(t) + i <= Len(s) + Len(t))
          /\ Len(s) + Len(t) + i - Len(s) - Len(t) = i
      BY <1>0, <1>1
    <2> QED
      BY <1>0, <1>4, <2>1
  <1> QED
    BY <1>0, <1>1, <1>2, <1>6, <1>7, <1>8, <1>10, Zenon DEF s, t, u

\* Which stage a script is at.
LEMMA StagesAre ==
  ASSUME NEW s, NEW p, Shaped(p, s)
  PROVE  /\ Len(p.first) \in Nat /\ Len(p.makes) \in Nat /\ Len(p.last) \in Nat
         /\ DOMAIN p.first = 1 .. Len(p.first)
         /\ DOMAIN p.makes = 1 .. Len(p.makes)
         /\ DOMAIN p.last = 1 .. Len(p.last)
         /\ Len(Stages(p)) = Len(p.first) + Len(p.makes) + Len(p.last)
         /\ \A i \in 1 .. Len(p.first) : Stages(p)[i] = p.first[i]
         /\ \A i \in 1 .. Len(p.makes) : Stages(p)[Len(p.first) + i] = p.makes[i]
         /\ \A i \in 1 .. Len(p.last) :
               Stages(p)[Len(p.first) + Len(p.makes) + i] = p.last[i]
  <1> DEFINE S == Steps \cup Changes
  <1>1. p.first \in Seq(S) /\ p.makes \in Seq(S) /\ p.last \in Seq(S)
    <2>1. /\ p.first \in Seq(Steps)
          /\ p.makes \in Seq(Changes)
          /\ p.last \in Seq(Steps)
      BY DEF Shaped
    <2> HIDE DEF Steps, Changes
    <2> QED
      BY <2>1
  <1> HIDE DEF S
  <1> QED
    BY <1>1, ThreeParts, Zenon

\* A script at work is one of its site's, and at one of its stages.
LEMMA AtWork ==
  ASSUME LabIInv, ~Free
  PROVE  /\ site \in DOMAIN Procedures
         /\ site # Nothing
         /\ Mine = Scripts(site)
         /\ script.by \in Mine
         /\ Shaped(script.by, site) /\ Guarded(script.by, site)
         /\ Named(script.by, site)
         /\ script.at \in Nat /\ script.at >= 1
  <1>1. site \in DOMAIN Procedures /\ site # Nothing
    BY NothingIsNothingElse DEF LabIInv, LabTyped
  <1>2. Mine = Scripts(site)
    BY <1>1 DEF Mine
  <1>3. script.by \in Mine
    BY DEF LabIInv, ScriptFits
  <1>4. script.at \in Nat /\ script.at >= 1
    BY DEF LabIInv, LabTyped, ScriptFits
  <1> QED
    BY <1>1, <1>2, <1>3, <1>4, ScriptsShape

\* A stage that begins the work, one that changes the database, or one after.
LEMMA StageKinds ==
  ASSUME LabIInv, script.begun
  PROVE  /\ ~Free
         /\ script.at \in 1 .. Len(Stages(script.by))
         /\ \/ /\ script.at <= Lead(script.by)
               /\ script.at \in DOMAIN script.by.first
               /\ Stage = script.by.first[script.at]
            \/ /\ script.at > Lead(script.by)
               /\ script.at <= Lead(script.by) + Len(script.by.makes)
               /\ script.at - Lead(script.by) \in DOMAIN script.by.makes
               /\ Stage = script.by.makes[script.at - Lead(script.by)]
            \/ /\ script.at > Lead(script.by) + Len(script.by.makes)
               /\ script.at - Lead(script.by) - Len(script.by.makes)
                     \in DOMAIN script.by.last
               /\ Stage = script.by.last[script.at - Lead(script.by)
                                          - Len(script.by.makes)]
  <1>1. ~Free
    BY DEF Free, NoScript
  <1>2. script.at \in 1 .. Len(Stages(script.by))
    BY <1>1 DEF LabIInv, ScriptFits
  <1>3. Shaped(script.by, site)
    BY <1>1, AtWork
  <1>4. PICK p : p = script.by
    OBVIOUS
  <1>5. PICK k : k = script.at
    OBVIOUS
  <1>6. PICK m : m = Len(p.first)
    OBVIOUS
  <1>7. PICK n : n = Len(p.makes)
    OBVIOUS
  <1>8. PICK l : l = Len(p.last)
    OBVIOUS
  <1>9. /\ m \in Nat /\ n \in Nat /\ l \in Nat
        /\ DOMAIN p.first = 1 .. m /\ DOMAIN p.makes = 1 .. n
        /\ DOMAIN p.last = 1 .. l
        /\ Len(Stages(p)) = m + n + l
        /\ \A i \in 1 .. m : Stages(p)[i] = p.first[i]
        /\ \A i \in 1 .. n : Stages(p)[m + i] = p.makes[i]
        /\ \A i \in 1 .. l : Stages(p)[m + n + i] = p.last[i]
    <2>1. Shaped(p, site)
      BY <1>3, <1>4, Zenon
    <2>2. /\ Len(p.first) \in Nat /\ Len(p.makes) \in Nat /\ Len(p.last) \in Nat
          /\ DOMAIN p.first = 1 .. Len(p.first)
          /\ DOMAIN p.makes = 1 .. Len(p.makes)
          /\ DOMAIN p.last = 1 .. Len(p.last)
          /\ Len(Stages(p)) = Len(p.first) + Len(p.makes) + Len(p.last)
          /\ \A i \in 1 .. Len(p.first) : Stages(p)[i] = p.first[i]
          /\ \A i \in 1 .. Len(p.makes) : Stages(p)[Len(p.first) + i] = p.makes[i]
          /\ \A i \in 1 .. Len(p.last) :
                Stages(p)[Len(p.first) + Len(p.makes) + i] = p.last[i]
      BY <2>1, StagesAre, Zenon
    <2> QED
      BY <2>2, <1>6, <1>7, <1>8
  <1>10. k \in 1 .. m + n + l /\ Stage = Stages(p)[k] /\ m = Lead(p)
    BY <1>2, <1>4, <1>5, <1>6, <1>9, Zenon DEF Stage, Lead
  <1>11. CASE k \in 1 .. m
    <2>1. k <= m
      BY <1>9, <1>11
    <2> QED
      BY <1>1, <1>2, <1>4, <1>5, <1>9, <1>10, <1>11, <2>1, Zenon
  <1>12. CASE k > m /\ k <= m + n /\ k - m \in 1 .. n /\ m + (k - m) = k
    <2>1. Stages(p)[k] = p.makes[k - m]
      BY <1>9, <1>12, Zenon
    <2> QED
      BY <1>1, <1>2, <1>4, <1>5, <1>7, <1>9, <1>10, <1>12, <2>1, Zenon
  <1>13. CASE k > m + n /\ k - m - n \in 1 .. l /\ m + n + (k - m - n) = k
    <2>1. Stages(p)[k] = p.last[k - m - n]
      BY <1>9, <1>13, Zenon
    <2> QED
      BY <1>1, <1>2, <1>4, <1>5, <1>7, <1>9, <1>10, <1>13, <2>1, Zenon
  <1>14. \/ k \in 1 .. m
         \/ k > m /\ k <= m + n /\ k - m \in 1 .. n /\ m + (k - m) = k
         \/ k > m + n /\ k - m - n \in 1 .. l /\ m + n + (k - m - n) = k
    <2>1. m \in Nat /\ n \in Nat /\ l \in Nat /\ k \in 1 .. m + n + l
      BY <1>9, <1>10, Zenon
    <2> QED
      BY <2>1
  <1> QED
    BY <1>11, <1>12, <1>13, <1>14

\* A stage that changes the shop is at its place among those that do.
LEMMA ChangeAt ==
  ASSUME LabIInv, script.begun, Stage \in Changes
  PROVE  /\ script.at > Lead(script.by)
         /\ script.at <= Lead(script.by) + Len(script.by.makes)
         /\ script.at - Lead(script.by) \in DOMAIN script.by.makes
         /\ Stage = script.by.makes[script.at - Lead(script.by)]
  <1>1. Shaped(script.by, site)
    BY StageKinds, AtWork
  <1>2. /\ \A i \in DOMAIN script.by.first : script.by.first[i] \notin Changes
        /\ \A i \in DOMAIN script.by.last : script.by.last[i] \notin Changes
    BY <1>1 DEF Shaped
  <1> QED
    BY <1>2, StageKinds

\* The shop is on the database that a script at work installs.
LEMMA EnvOwn ==
  ASSUME LabIInv, ~Free, script.by.on = Homes[site],
         script.by.makes # Fresh \/ site # "acceptance"
  PROVE  env = script.by.on
  <1> DEFINE p == script.by
  <1>1. /\ site \in DOMAIN Procedures /\ Mine = Scripts(site) /\ p \in Mine
        /\ Shaped(p, site) /\ Guarded(p, site)
    BY AtWork
  <1>2. /\ p.ends \notin marks /\ MarksInOrder /\ Configured
    BY <1>1 DEF LabIInv, ScriptFits
  <1>3. CASE site \in {"recipient", "demo"}
    BY <1>2, <1>3 DEF Configured
  <1>4. CASE site = "acceptance"
    <2>1. p = Starter
      <3>1. p \in {Bootstrap, Starter, Full}
        BY <1>1, <1>4 DEF Scripts, Procedures
      <3>2. p # Bootstrap
        BY <1>4 DEF Bootstrap, Fresh
      <3>3. p # Full
        BY <1>4 DEF Full, Homes
      <3> QED
        BY <3>1, <3>2, <3>3
    <2>2. "starter-complete" \notin marks
      BY <1>2, <2>1 DEF Starter
    <2>3. Full \in Mine
      BY <1>1, <1>4 DEF Scripts, Procedures
    <2>4. "full-started" \notin marks
      BY <1>2, <2>2, <2>3 DEF MarksInOrder, Full
    <2> QED
      BY <1>2, <1>4, <2>4 DEF Configured, Homes
  <1>5. CASE site = "enriched"
    <2>1. p \in {EnrichedBootstrap, RetryEmptyInstall}
      <3>1. p \in {EnrichedBootstrap, RetryEmptyInstall, Medium, EnrichedFull}
        BY <1>1, <1>5 DEF Scripts, Procedures
      <3>2. p # Medium
        BY <1>5 DEF Medium, Homes
      <3>3. p # EnrichedFull
        BY <1>5 DEF EnrichedFull, Homes
      <3> QED
        BY <3>1, <3>2, <3>3
    <2>2. "bootstrap-complete" \notin marks
      BY <1>2, <2>1 DEF EnrichedBootstrap, RetryEmptyInstall
    <2>3. Medium \in Mine /\ EnrichedFull \in Mine
      BY <1>1, <1>5 DEF Scripts, Procedures
    <2>4. "medium-started" \notin marks
      BY <1>2, <2>2, <2>3 DEF MarksInOrder, Medium
    <2>5. "full-started" \notin marks
      BY <1>2, <2>2, <2>3 DEF MarksInOrder, EnrichedFull
    <2> QED
      BY <1>2, <1>5, <2>4, <2>5 DEF Configured, Homes
  <1> QED
    BY <1>1, <1>3, <1>4, <1>5 DEF Procedures

\* Where it changes it: in the database that the procedure is about.
LEMMA ChangesOwn ==
  ASSUME LabIInv, script.begun, Stage \in Changes
  PROVE  On = script.by.on /\ base[script.by.on] # Nothing
         /\ base[script.by.on] \in Seq(Parts)
  <1> DEFINE p == script.by
  <1>1. /\ ~Free
        /\ site \in DOMAIN Procedures
        /\ Shaped(p, site)
        /\ Guarded(p, site)
    BY StageKinds, AtWork
  <1>2. p.makes # Fresh => Stage # "install"
    BY <1>1, ChangeAt DEF Shaped
  <1>3. p.makes = Fresh => Stage = "install"
    <2>1. ASSUME p.makes = Fresh PROVE \A i \in DOMAIN p.makes : p.makes[i] = "install"
      BY <2>1 DEF Fresh
    <2> QED
      BY <2>1, ChangeAt
  <1>4. p.on \in Databases
    BY <1>1 DEF Shaped
  <1>5. CASE p.on \in Copied
    <2>1. p.makes # Fresh /\ p.on # "demo"
      BY <1>1, <1>5 DEF Guarded, Copied
    <2>2. PICK i \in DOMAIN p.first : p.first[i] = "preflight"
      BY <1>1, <2>1 DEF Guarded
    <2>3. PICK j \in DOMAIN p.first : j < i /\ p.first[j] = "switch"
      BY <1>1, <1>5, <2>2 DEF Guarded
    <2>4. i < script.at /\ j < script.at
      BY <2>2, <2>3, <1>1, ChangeAt, StagesAre, AtWork DEF Lead
    <2>5. env = p.on
      BY <1>1, <2>3, <2>4 DEF LabIInv, Configured
    <2>6. base[p.on] # Nothing
      BY <1>1, <2>2, <2>4 DEF LabIInv, ExactOnceSure, Sure, IsExact
    <2> QED
      BY <1>2, <1>4, <2>1, <2>5, <2>6 DEF On, LabIInv, LabTyped
  <1>6. CASE p.on \notin Copied
    <2>1. p.on = Homes[site]
      BY <1>1, <1>6 DEF Shaped
    <2>2. base[p.on] # Nothing
      BY <1>1, <2>1, AtWork DEF LabIInv, LabTyped
    <2>3. p.makes # Fresh => env = p.on
      BY <1>1, <2>1, EnvOwn
    <2> QED
      BY <1>2, <1>3, <1>4, <2>2, <2>3 DEF On, LabIInv, LabTyped
  <1> QED
    BY <1>5, <1>6

\* What is known of the site that is looked at and of its scripts.
LEMMA SiteFacts ==
  ASSUME LabTyped, site # Nothing
  PROVE  /\ site \in DOMAIN Procedures /\ Mine = Scripts(site)
         /\ Own = Procedures[site] /\ Own \subseteq Mine
         /\ \A p \in Mine : Shaped(p, site) /\ Guarded(p, site) /\ Named(p, site)
         /\ \A p, q \in Mine : Apart(p, q)
  <1>1. site \in DOMAIN Procedures
    BY DEF LabTyped
  <1>2. Mine = Scripts(site) /\ Own = Procedures[site]
    BY DEF Mine, Own
  <1>3. Own \subseteq Mine
    BY <1>2 DEF Scripts
  <1> QED
    BY <1>1, <1>2, <1>3, ScriptsShape, ScriptsApart

\* Two scripts with the same last file make the same of their database.
LEMMA PackagedAlike ==
  ASSUME NEW p, NEW q, p.ends = q.ends, p.on = q.on,
         p.makes = q.makes \/ p.ends = "update-complete"
  PROVE  Packaged(p) = Packaged(q)
  BY DEF Packaged, Ground

\* What a package makes of a copy of the empty installation.
LEMMA PackagedIs ==
  ASSUME NEW s, NEW p, Shaped(p, s), Named(p, s), p.on # "demo"
  PROVE  /\ Packaged(p) \in Seq(Parts)
         /\ Len(Packaged(p)) = Below(p) + Len(p.makes)
         /\ Below(p) = 1 => Packaged(p)[1] = "install"
         /\ \A i \in DOMAIN p.makes : Packaged(p)[Below(p) + i] = p.makes[i]
         /\ Len(p.makes) \in Nat /\ DOMAIN p.makes = 1 .. Len(p.makes)
         /\ Below(p) \in {0, 1}
  <1>1. /\ p.makes \in Seq(Changes)
        /\ Changes \subseteq Parts
        /\ "install" \in Changes
    BY DEF Shaped, Parts, Changes
  <1>2. p.ends # "update-complete"
        /\ (p.makes = Fresh <=> p.ends \in {"bootstrap-complete", "prepare-complete"})
    BY DEF Named
  <1>3. Ground(p) = Fresh
    BY DEF Ground
  <1>4. CASE p.makes = Fresh
    <2>1. Packaged(p) = Fresh /\ Below(p) = 0
      BY <1>2, <1>3, <1>4 DEF Packaged, Below
    <2> QED
      BY <1>1, <1>4, <2>1 DEF Fresh
  <1>5. CASE p.makes # Fresh
    <2>1. Packaged(p) = <<"install">> \o p.makes /\ Below(p) = 1
      BY <1>2, <1>3, <1>5 DEF Packaged, Below, Fresh
    <2>2. p.makes \in Seq(Parts) /\ <<"install">> \in Seq(Parts)
      BY <1>1
    <2> HIDE DEF Parts, Changes
    <2> QED
      BY <2>1, <2>2
  <1> QED
    BY <1>4, <1>5

LEMMA PackagedInDemo ==
  ASSUME NEW p, p.on = "demo", p.makes \in Seq(Changes)
  PROVE  Packaged(p) \in Seq(Parts)
  <1>1. Update.makes \in Seq(Changes)
    BY UpdateShape DEF Shaped
  <1>2. Changes \subseteq Parts /\ "shop" \in Parts
    BY DEF Parts
  <1> HIDE DEF Parts, Changes
  <1>3. <<"shop">> \in Seq(Parts)
    BY <1>2
  <1>4. Update.makes \in Seq(Parts) /\ p.makes \in Seq(Parts)
    BY <1>1, <1>2
  <1> QED
    BY <1>3, <1>4 DEF Packaged, Ground

\* A change more: what a database had is kept, and one thing is added.
LEMMA Added ==
  ASSUME NEW e \in Databases, NEW x \in Parts,
         base \in [Databases -> {Nothing} \cup Seq(Parts)], base[e] # Nothing,
         base' = [base EXCEPT ![e] = Append(@, x)]
  PROVE  /\ base' \in [Databases -> {Nothing} \cup Seq(Parts)]
         /\ \A d \in Databases : base'[d] = Nothing <=> base[d] = Nothing
         /\ \A d \in Databases : d # e => base'[d] = base[d]
         /\ \A d \in Databases : \A s \in Parts : Holds(d, s) => Holds(d, s)'
         /\ \A d \in Databases : \A s \in Parts :
               Holds(d, s)' => Holds(d, s) \/ (d = e /\ s = x)
         /\ \A d \in Databases : \A s \in Seq(Parts) :
               Extends(d, s) => Extends(d, s)'
  <1>1. base[e] \in Seq(Parts) /\ base'[e] = Append(base[e], x)
    OBVIOUS
  <1>2. Append(base[e], x) \in Seq(Parts)
    BY <1>1
  <1>3. Append(base[e], x) # Nothing
    BY <1>2, NothingIsNothingElse DEF Parts
  <1>4. base' \in [Databases -> {Nothing} \cup Seq(Parts)]
    BY <1>2
  <1>5. \A d \in Databases : d # e => base'[d] = base[d]
    OBVIOUS
  <1> HIDE DEF Parts
  <1>6. /\ Len(base[e]) \in Nat /\ DOMAIN base[e] = 1 .. Len(base[e])
        /\ Len(Append(base[e], x)) = Len(base[e]) + 1
        /\ DOMAIN Append(base[e], x) = 1 .. Len(base[e]) + 1
        /\ \A i \in 1 .. Len(base[e]) : Append(base[e], x)[i] = base[e][i]
        /\ Append(base[e], x)[Len(base[e]) + 1] = x
    BY <1>1
  <1>7. ASSUME NEW s \in Parts
        PROVE  Holds(e, s)' <=> Holds(e, s) \/ s = x
    <2>1. Holds(e, s)' <=> \E i \in 1 .. Len(base[e]) + 1 : Append(base[e], x)[i] = s
      BY <1>1, <1>3, <1>6 DEF Holds
    <2>2. Holds(e, s) <=> \E i \in 1 .. Len(base[e]) : base[e][i] = s
      BY <1>6 DEF Holds
    <2> QED
      BY <1>6, <2>1, <2>2
  <1>8. ASSUME NEW s \in Seq(Parts), Extends(e, s)
        PROVE  Extends(e, s)'
    <2>1. Len(s) \in Nat /\ Len(s) <= Len(base[e])
          /\ \A i \in 1 .. Len(s) : base[e][i] = s[i]
      BY <1>8 DEF Extends
    <2> QED
      BY <1>1, <1>3, <1>6, <2>1 DEF Extends
  <1>9. ASSUME NEW d \in Databases, d # e
        PROVE  /\ \A s : Holds(d, s)' <=> Holds(d, s)
               /\ \A s : Extends(d, s) => Extends(d, s)'
               /\ base'[d] = Nothing <=> base[d] = Nothing
    BY <1>5, <1>9 DEF Holds, Extends
  <1> QED
    BY <1>1, <1>3, <1>4, <1>5, <1>7, <1>8, <1>9
LEMMA AddedOnce ==
  ASSUME NEW e \in Databases, NEW x \in Parts, NothingTwice,
         base \in [Databases -> {Nothing} \cup Seq(Parts)], base[e] # Nothing,
         base' = [base EXCEPT ![e] = Append(@, x)],
         x \in Changes => ~Holds(e, x)
  PROVE  NothingTwice'
  <1>1. base[e] \in Seq(Parts) /\ base'[e] = Append(base[e], x)
    OBVIOUS
  <1> HIDE DEF Parts
  <1>2. /\ Len(base[e]) \in Nat /\ DOMAIN base[e] = 1 .. Len(base[e])
        /\ DOMAIN Append(base[e], x) = 1 .. Len(base[e]) + 1
        /\ \A i \in 1 .. Len(base[e]) : Append(base[e], x)[i] = base[e][i]
        /\ Append(base[e], x)[Len(base[e]) + 1] = x
    BY <1>1
  <1>3. ASSUME NEW d \in Databases, base'[d] # Nothing,
               NEW i \in DOMAIN base'[d], NEW j \in DOMAIN base'[d],
               base'[d][i] \in Changes, base'[d][i] = base'[d][j]
        PROVE  i = j
    <2>1. CASE d # e
      <3>1. base'[d] = base[d]
        BY <2>1
      <3> QED
        BY <1>3, <3>1 DEF NothingTwice
    <2>2. CASE d = e
      <3>1. i \in 1 .. Len(base[e]) + 1 /\ j \in 1 .. Len(base[e]) + 1
        BY <1>1, <1>2, <1>3, <2>2
      <3>2. \A k, l \in 1 .. Len(base[e]) :
               base[e][k] \in Changes /\ base[e][k] = base[e][l] => k = l
        BY <1>2 DEF NothingTwice
      <3>3. x \in Changes => \A k \in 1 .. Len(base[e]) : base[e][k] # x
        BY <1>2 DEF Holds
      <3>4. /\ Append(base[e], x)[i] \in Changes
            /\ Append(base[e], x)[i] = Append(base[e], x)[j]
        BY <1>1, <1>3, <2>2
      <3> QED
        BY <1>2, <3>1, <3>2, <3>3, <3>4
    <2> QED
      BY <2>1, <2>2
  <1> QED
    BY <1>3 DEF NothingTwice

\* Where a new orphan works: on a stage that is new to its database.
LEMMA StageIsNew ==
  ASSUME LabIInv, script.begun, Stage \in Changes
  PROVE  /\ ~Holds(script.by.on, Stage)
         /\ [stage |-> Stage, on |-> script.by.on] \notin orphans
         /\ \A q \in Mine : \A i \in DOMAIN q.makes :
               q.on = script.by.on /\ q.makes[i] = Stage
               /\ (q.starts \notin marks \/ (q = script.by /\ script.at < Lead(q) + i))
                  => FALSE
  <1>1. ~Free
    BY StageKinds
  <1> DEFINE p == script.by
             j == script.at - Lead(p)
  <1>2. /\ site # Nothing /\ p \in Mine /\ LabTyped /\ Shaped(p, site)
        /\ p.starts \in marks /\ AheadIsNew
    BY <1>1, AtWork DEF LabIInv, ScriptFits
  <1>3. j \in DOMAIN p.makes /\ Stage = p.makes[j] /\ script.at = Lead(p) + j
        /\ j \in Nat /\ Lead(p) \in Nat
    <2>1. script.at \in Nat /\ Lead(p) \in Nat
      BY <1>1, <1>2, AtWork, StagesAre DEF Lead
    <2> QED
      BY <2>1, <1>2, ChangeAt, StagesAre
  <1>4. Ahead(p, j)
    BY <1>1, <1>3 DEF Ahead, Runs
  <1>5. ~Holds(p.on, Stage) /\ [stage |-> Stage, on |-> p.on] \notin orphans
    BY <1>2, <1>3, <1>4 DEF AheadIsNew
  <1>6. ASSUME NEW q \in Mine, NEW i \in DOMAIN q.makes,
               q.on = p.on, q.makes[i] = Stage, q.starts \notin marks
        PROVE  FALSE
    <2>1. q.starts # p.starts
      BY <1>2, <1>6
    <2>2. Disjoint(q, p)
      BY <1>2, <1>6, <2>1, SiteFacts DEF Apart
    <2> QED
      BY <1>3, <1>6, <2>2 DEF Disjoint
  <1>7. ASSUME NEW i \in DOMAIN p.makes, p.makes[i] = Stage, script.at < Lead(p) + i
        PROVE  FALSE
    <2>1. i = j
      BY <1>2, <1>3, <1>7 DEF Shaped
    <2> QED
      BY <1>3, <1>7, <2>1
  <1> QED
    BY <1>5, <1>6, <1>7

\* What an installation needs that has not begun is untouched, for its
\* database is not the one of another script at work.
LEMMA AtWorkElsewhere ==
  ASSUME LabIInv, ~Free,
         NEW q \in Mine, q.makes = Fresh, q.starts \notin marks
  PROVE  q.on # script.by.on
  <1> DEFINE p == script.by
  <1>1. /\ site # Nothing /\ p \in Mine /\ LabTyped /\ MarksInOrder
        /\ p.starts \in marks /\ p.needs \subseteq marks
    BY AtWork DEF LabIInv, ScriptFits
  <1>2. Apart(q, p) /\ Shaped(q, site) /\ Shaped(p, site) /\ Apart(p, q)
    BY <1>1, SiteFacts
  <1>3. SUFFICES ASSUME q.on = p.on PROVE FALSE
    OBVIOUS
  <1>4. CASE p.makes = Fresh
    <2>1. Disjoint(q, p)
      BY <1>1, <1>2, <1>3 DEF Apart
    <2> QED
      BY <1>4, <2>1 DEF Disjoint, Fresh
  <1>5. CASE p.makes # Fresh
    <2>1. q.ends \in marks
      BY <1>1, <1>2, <1>3, <1>5 DEF Apart
    <2> QED
      BY <1>1, <2>1 DEF MarksInOrder
  <1> QED
    BY <1>4, <1>5
\* How much is made before a script's stage.
LEMMA Making ==
  ASSUME NEW p, Lead(p) \in Nat, Len(p.makes) \in Nat, NEW k \in Nat
  PROVE  /\ MadeSoFar(p, k) \in Nat
         /\ k > Lead(p) + Len(p.makes) => MadeSoFar(p, k) = Len(p.makes)
         /\ k <= Lead(p) + 1 => MadeSoFar(p, k) = 0
         /\ \A j \in 1 .. Len(p.makes) : k = Lead(p) + j =>
               MadeSoFar(p, k) = j - 1 /\ MadeSoFar(p, k + 1) = j
  BY DEF MadeSoFar, Least

\* A script that is done has made what it packages.
LEMMA WorkDone ==
  ASSUME LabIInv, ~Free, NoneLeft
  PROVE  Extends(script.by.on, Packaged(script.by))
  <1> DEFINE p == script.by
             n == Len(p.makes)
  <1>1. /\ Shaped(p, site) /\ Guarded(p, site) /\ Named(p, site)
        /\ script.at \in Nat
    BY AtWork
  <1>2. /\ Lead(p) \in Nat /\ n \in Nat /\ Len(p.last) \in Nat
        /\ Len(Stages(p)) = Lead(p) + n + Len(p.last)
        /\ DOMAIN p.first = 1 .. Lead(p) /\ DOMAIN p.makes = 1 .. n
    BY <1>1, StagesAre DEF Lead
  <1>3. script.at > Lead(p) + n + Len(p.last)
    BY <1>2 DEF NoneLeft
  <1>6. script.at \in Nat
    BY <1>1
  <1>4. CASE p.on = "demo"
    <2>1. Len(p.last) >= 1
      <3>1. p.last # <<>> /\ p.last \in Seq(Steps)
        BY <1>1, <1>4 DEF Guarded, Shaped
      <3> HIDE DEF Steps
      <3> QED
        BY <3>1, <1>2
    <2>2. script.at > Lead(p) + n + 1
      BY <1>2, <1>3, <1>6, <2>1
    <2>3. VerifiedInDemo
      BY DEF LabIInv
    <2>4. Extends("demo", Packaged(p))
      BY <1>4, <2>2, <2>3 DEF VerifiedInDemo
    <2> QED
      BY <1>4, <2>4
  <1>5. CASE p.on # "demo"
    <2>1. Sure(p, script.at)
      <3>1. \A i \in DOMAIN p.first : i < script.at
        BY <1>2, <1>3, <1>6
      <3> QED
        BY <1>1, <1>5, <3>1 DEF Guarded, Sure
    <2>2. IsExact(p, script.at)
      BY <2>1 DEF LabIInv, ExactOnceSure
    <2>3. MadeSoFar(p, script.at) = n
      <3>1. script.at > Lead(p) + n
        BY <1>2, <1>3, <1>6
      <3> QED
        BY <1>1, <1>2, <3>1, Making
    <2>4. /\ base[p.on] # Nothing
          /\ Len(base[p.on]) = Below(p) + n
          /\ Below(p) = 1 => base[p.on][1] = "install"
          /\ \A i \in 1 .. n : base[p.on][Below(p) + i] = p.makes[i]
      BY <2>2, <2>3 DEF IsExact
    <2>5. /\ Len(Packaged(p)) = Below(p) + n
          /\ Below(p) = 1 => Packaged(p)[1] = "install"
          /\ \A i \in 1 .. n : Packaged(p)[Below(p) + i] = p.makes[i]
          /\ Below(p) \in {0, 1}
      BY <1>1, <1>2, <1>5, PackagedIs
    <2>6. \A i \in 1 .. Below(p) + n : base[p.on][i] = Packaged(p)[i]
      <3>1. ASSUME NEW i \in 1 .. Below(p) + n
            PROVE  base[p.on][i] = Packaged(p)[i]
        <4>1. CASE Below(p) = 1 /\ i = 1
          BY <2>4, <2>5, <4>1
        <4>2. CASE ~(Below(p) = 1 /\ i = 1)
          <5>1. i - Below(p) \in 1 .. n /\ Below(p) + (i - Below(p)) = i
            BY <1>2, <2>5, <4>2
          <5>2. PICK k \in 1 .. n : k = i - Below(p)
            BY <5>1
          <5>3. Below(p) + k = i
            BY <5>1, <5>2
          <5> QED
            BY <2>4, <2>5, <5>2, <5>3
        <4> QED
          BY <4>1, <4>2
      <3> QED
        BY <3>1
    <2> QED
      BY <1>2, <2>4, <2>5, <2>6 DEF Extends
  <1> QED
    BY <1>4, <1>5
\* A script that ends, fails or is killed leaves what it was doing: a part
\* of a stage, an orphan, or at its end the package's own.
LEMMA Stopped ==
  ASSUME LabIInv, ~Free, script' = NoScript,
         site' = site, saved' = saved, env' = env,
         \/ marks' = marks
         \/ marks' = marks \cup {"products-and-links-exact"}
         \/ NoneLeft /\ marks' = marks \cup {script.by.ends},
         \/ state' = state
         \/ script.begun /\ state' = Failed(Stage) /\ orphans' = orphans,
         \/ base' = base /\ orphans' = orphans
         \/ /\ script.begun /\ Stage \in Changes
            /\ base' = [base EXCEPT ![On] = Append(@, "part")]
            /\ orphans' = orphans
         \/ /\ script.begun /\ Stage \in Changes /\ base' = base
            /\ orphans' = orphans \cup {[stage |-> Stage, on |-> On]}
            /\ state' = state
  PROVE  LabIInv'
  <1> DEFINE p == script.by
  <1>1. /\ site \in DOMAIN Procedures /\ site # Nothing /\ Mine = Scripts(site)
        /\ p \in Mine /\ Shaped(p, site) /\ Guarded(p, site) /\ Named(p, site)
        /\ \A q \in Mine : Shaped(q, site) /\ Named(q, site)
        /\ \A q, r \in Mine : Apart(q, r)
    BY AtWork, SiteFacts DEF LabIInv
  <1>2. /\ LabTyped /\ ScriptFits /\ MarksInOrder /\ Configured /\ StateFits
        /\ NothingTwice /\ OrphansAreNew /\ OrphansBelong /\ AheadIsNew
        /\ Untouched /\ ExactOnceSure /\ VerifiedInDemo /\ CompleteIsPackaged
    BY DEF LabIInv
  <1>3. p.starts \in marks /\ p.ends \notin marks /\ p.on \in Databases
    BY <1>1, <1>2 DEF ScriptFits, Shaped
  <1>4. Mine' = Mine /\ Free' /\ ~script'.begun /\ script'.by = Nothing
        /\ script'.at = 0
    BY DEF Mine, Free, NoScript
  <1>5. /\ marks \subseteq marks'
        /\ \A q \in Mine : q.starts \in marks' => q.starts \in marks
        /\ \A q \in Mine : q.ends \in marks' =>
              q.ends \in marks \/ (NoneLeft /\ q.ends = p.ends)
    <2>1. \A q \in Mine :
             /\ q.starts # p.ends
             /\ q.starts # "products-and-links-exact"
             /\ q.ends # "products-and-links-exact"
      BY <1>1 DEF Apart, Aside
    <2>2. CASE marks' = marks
      BY <2>2
    <2>3. CASE marks' = marks \cup {"products-and-links-exact"}
      BY <2>1, <2>3
    <2>4. CASE NoneLeft /\ marks' = marks \cup {p.ends}
      BY <2>1, <2>4
    <2> QED
      BY <2>2, <2>3, <2>4
  <1>6. script.begun /\ Stage \in Changes =>
           On = p.on /\ base[p.on] # Nothing
    BY ChangesOwn
  <1>7. /\ base' \in [Databases -> {Nothing} \cup Seq(Parts)]
        /\ \A d \in Databases :
              /\ base'[d] = Nothing <=> base[d] = Nothing
              /\ \A s \in Changes : Holds(d, s)' <=> Holds(d, s)
              /\ \A s \in Seq(Parts) : Extends(d, s) => Extends(d, s)'
              /\ d # p.on => base'[d] = base[d]
        /\ NothingTwice'
    <2>1. CASE base' = base
      BY <1>2, <2>1 DEF Holds, Extends, NothingTwice, LabTyped
    <2>2. CASE /\ script.begun /\ Stage \in Changes
               /\ base' = [base EXCEPT ![On] = Append(@, "part")]
      <3>1. /\ base' = [base EXCEPT ![p.on] = Append(@, "part")]
            /\ base \in [Databases -> {Nothing} \cup Seq(Parts)]
            /\ base[p.on] # Nothing
        BY <1>2, <1>6, <2>2 DEF LabTyped
      <3>2. /\ "part" \in Parts
            /\ Changes \subseteq Parts
            /\ "part" \notin Changes
        BY DEF Parts, Changes
      <3>3. NothingTwice'
        BY <1>2, <1>3, <3>1, <3>2, AddedOnce
      <3>4. /\ base' \in [Databases -> {Nothing} \cup Seq(Parts)]
            /\ \A d \in Databases : base'[d] = Nothing <=> base[d] = Nothing
            /\ \A d \in Databases : d # p.on => base'[d] = base[d]
            /\ \A d \in Databases : \A s \in Parts : Holds(d, s) => Holds(d, s)'
            /\ \A d \in Databases : \A s \in Parts :
                  Holds(d, s)' => Holds(d, s) \/ (d = p.on /\ s = "part")
            /\ \A d \in Databases : \A s \in Seq(Parts) :
                  Extends(d, s) => Extends(d, s)'
        BY <1>3, <3>1, <3>2, Added, Zenon
      <3> QED
        BY <3>2, <3>3, <3>4
    <2> QED
      BY <2>1, <2>2
  <1>8. /\ orphans \subseteq orphans'
        /\ \A o \in orphans' : o \in orphans
              \/ /\ script.begun /\ Stage \in Changes /\ state' = state
                 /\ o = [stage |-> Stage, on |-> p.on]
    BY <1>6
  <1>9. LabTyped'
    <2>1. orphans' \in SUBSET [stage : Changes, on : Databases]
      BY <1>2, <1>3, <1>8 DEF LabTyped
    <2>2. script' \in [by : {Nothing} \cup Mine', at : Nat, begun : BOOLEAN]
      BY DEF NoScript
    <2>3. Homes[site] \in Databases
      BY <1>1 DEF Procedures, Homes, Databases
    <2> QED
      BY <1>1, <1>2, <1>7, <2>1, <2>2, <2>3 DEF LabTyped
  <1>10. ScriptFits' /\ ExactOnceSure' /\ VerifiedInDemo'
    BY <1>4 DEF ScriptFits, ExactOnceSure, VerifiedInDemo, Free
  <1>11. MarksInOrder'
    <2>1. ASSUME NEW q \in Mine, q.ends \in marks', q.ends = p.ends
          PROVE  q.starts \in marks'
      BY <1>1, <1>3, <1>5, <2>1 DEF Apart
    <2> QED
      BY <1>2, <1>4, <1>5, <2>1 DEF MarksInOrder
  <1>12. Configured'
    BY <1>2, <1>4, <1>5 DEF Configured
  <1>13. StateFits'
    <2>1. ASSUME site' = "enriched", state' = Failed("install")
          PROVE  /\ "bootstrap-started" \in marks'
                 /\ [stage |-> "install", on |-> "empty"] \notin orphans'
      <3>1. CASE state' = state
        <4>1. ~script.begun
          BY <1>2, <2>1, <3>1 DEF StateFits, Failed
        <4> QED
          BY <1>2, <1>5, <1>8, <2>1, <3>1, <4>1 DEF StateFits
      <3>2. CASE script.begun /\ state' = Failed(Stage) /\ orphans' = orphans
        <4>1. Stage = "install"
          BY <2>1, <3>2 DEF Failed
        <4>2. p.makes = Fresh
          <5>1. Stage \in Changes
            BY <4>1 DEF Changes
          <5> QED
            BY <1>1, <3>2, <4>1, <5>1, ChangeAt DEF Shaped
        <4>3. p.starts = "bootstrap-started" /\ p.on = "empty"
          BY <1>1, <2>1, <4>2 DEF Named
        <4>4. \A o \in orphans : o.on # p.on
          BY <1>2, <4>2 DEF ExactOnceSure, Sure
        <4> QED
          BY <1>3, <1>5, <3>2, <4>3, <4>4
      <3> QED
        BY <3>1, <3>2
    <2>2. ASSUME state' = Failed("canonical")
          PROVE  site' = "demo" /\ "update-started" \in marks'
      <3>1. CASE state' = state
        <4>1. ~script.begun
          BY <1>2, <2>2, <3>1 DEF StateFits, Failed
        <4> QED
          BY <1>2, <1>5, <2>2, <3>1, <4>1 DEF StateFits
      <3>2. CASE script.begun /\ state' = Failed(Stage)
        <4>1. Stage = "canonical" /\ Stage \notin Changes
          BY <2>2, <3>2 DEF Failed, Changes
        <4>2. \E i \in DOMAIN p.last : p.last[i] = "canonical"
          BY <1>1, <3>2, <4>1, StageKinds DEF Shaped, Named
        <4> QED
          BY <1>1, <1>3, <1>5, <2>2, <4>2 DEF Named
      <3> QED
        BY <3>1, <3>2
    <2> QED
      BY <1>4, <2>1, <2>2 DEF StateFits
  <1>14. OrphansAreNew'
    <2>1. ASSUME NEW o \in orphans'
          PROVE  base'[o.on] # Nothing /\ ~Holds(o.on, o.stage)'
      <3>1. CASE o \in orphans
        <4>1. o.on \in Databases /\ o.stage \in Changes
          BY <1>2, <3>1 DEF LabTyped
        <4> QED
          BY <1>2, <1>7, <3>1, <4>1 DEF OrphansAreNew
      <3>2. CASE /\ script.begun /\ Stage \in Changes
                 /\ o = [stage |-> Stage, on |-> p.on]
        BY <1>3, <1>6, <1>7, <3>2, StageIsNew
      <3> QED
        BY <1>8, <3>1, <3>2
    <2> QED
      BY <2>1 DEF OrphansAreNew
  <1>15. OrphansBelong'
    <2>1. ASSUME NEW o \in orphans'
          PROVE  \E q \in Mine : q.on = o.on
                    /\ \E i \in DOMAIN q.makes : q.makes[i] = o.stage
      <3>1. CASE o \in orphans
        BY <1>2, <3>1 DEF OrphansBelong
      <3>2. CASE /\ script.begun /\ Stage \in Changes
                 /\ o = [stage |-> Stage, on |-> p.on]
        BY <1>1, <3>2, ChangeAt
      <3> QED
        BY <1>8, <3>1, <3>2
    <2> QED
      BY <1>4, <2>1 DEF OrphansBelong
  <1>16. AheadIsNew'
    <2>1. ASSUME NEW q \in Mine, NEW i \in DOMAIN q.makes, Ahead(q, i)'
          PROVE  /\ ~Holds(q.on, q.makes[i])'
                 /\ [stage |-> q.makes[i], on |-> q.on] \notin orphans'
      <3>1. q.starts \notin marks
        BY <1>4, <1>5, <2>1 DEF Ahead, Runs
      <3>2. Ahead(q, i)
        BY <1>3, <3>1 DEF Ahead, Runs
      <3>3. /\ ~Holds(q.on, q.makes[i])
            /\ [stage |-> q.makes[i], on |-> q.on] \notin orphans
        BY <1>2, <3>2 DEF AheadIsNew
      <3>4. q.on \in Databases /\ q.makes[i] \in Changes
        BY <1>1 DEF Shaped
      <3>5. ~Holds(q.on, q.makes[i])'
        BY <1>7, <3>3, <3>4
      <3>6. script.begun /\ Stage \in Changes =>
               [stage |-> q.makes[i], on |-> q.on]
                  # [stage |-> Stage, on |-> p.on]
        <4>1. script.begun /\ Stage \in Changes =>
                 ~(q.on = p.on /\ q.makes[i] = Stage)
          BY <3>1, StageIsNew
        <4> QED
          BY <4>1
      <3> QED
        BY <1>8, <3>3, <3>5, <3>6
    <2> QED
      BY <1>4, <2>1 DEF AheadIsNew
  <1>17. Untouched'
    <2>1. ASSUME NEW q \in Mine, q.makes = Fresh, q.starts \notin marks'
          PROVE  base'[q.on] = <<>> /\ \A o \in orphans' : o.on # q.on
      <3>1. q.on # p.on /\ q.on \in Databases
        BY <1>1, <1>5, <2>1, AtWorkElsewhere DEF Shaped
      <3>2. base[q.on] = <<>> /\ \A o \in orphans : o.on # q.on
        BY <1>2, <1>5, <2>1 DEF Untouched
      <3> QED
        BY <1>7, <1>8, <3>1, <3>2
    <2> QED
      BY <1>4, <2>1 DEF Untouched
  <1>18. CompleteIsPackaged'
    <2>1. ASSUME NEW q \in Mine, q.ends \in marks'
          PROVE  Extends(q.on, Packaged(q))'
      <3>1. q.on \in Databases /\ Packaged(q) \in Seq(Parts)
        BY <1>1, PackagedIs, PackagedInDemo DEF Shaped
      <3>2. CASE q.ends \in marks
        BY <1>2, <1>7, <3>1, <3>2 DEF CompleteIsPackaged
      <3>3. CASE NoneLeft /\ q.ends = p.ends
        <4>1. Packaged(q) = Packaged(p) /\ q.on = p.on
          BY <1>1, <3>3, PackagedAlike DEF Apart
        <4>2. Extends(p.on, Packaged(p))
          BY <3>3, WorkDone
        <4> QED
          BY <1>7, <3>1, <4>1, <4>2
      <3> QED
        BY <1>5, <2>1, <3>2, <3>3
    <2> QED
      BY <1>4, <2>1 DEF CompleteIsPackaged
  <1> QED
    BY <1>7, <1>9, <1>10, <1>11, <1>12, <1>13, <1>14, <1>15, <1>16, <1>17,
       <1>18 DEF LabIInv
LEMMA FirstStages ==
  ASSUME NEW s, NEW p, Shaped(p, s)
  PROVE  \A i \in DOMAIN p.first : Stages(p)[i] = p.first[i]
  <1>1. /\ Len(p.first) \in Nat /\ Len(p.makes) \in Nat /\ Len(p.last) \in Nat
        /\ DOMAIN p.first = 1 .. Len(p.first)
        /\ DOMAIN p.makes = 1 .. Len(p.makes)
        /\ DOMAIN p.last = 1 .. Len(p.last)
        /\ Len(Stages(p)) = Len(p.first) + Len(p.makes) + Len(p.last)
        /\ \A i \in 1 .. Len(p.first) : Stages(p)[i] = p.first[i]
        /\ \A i \in 1 .. Len(p.makes) : Stages(p)[Len(p.first) + i] = p.makes[i]
        /\ \A i \in 1 .. Len(p.last) :
              Stages(p)[Len(p.first) + Len(p.makes) + i] = p.last[i]
    BY StagesAre, Zenon
  <1> QED
    BY <1>1

\* A database that a preflight finds as the empty installation left it, in
\* which nothing goes on, is where the imports begin.
LEMMA PreflightSure ==
  ASSUME LabIInv, script.begun, script.at \in DOMAIN script.by.first,
         script.by.first[script.at] = "preflight",
         script.by.makes # Fresh, base[env] = Fresh
  PROVE  /\ \A o \in orphans : o.on # script.by.on
         /\ IsExact(script.by, script.at + 1)
  <1> DEFINE p == script.by
  <1>1. /\ ~Free /\ p \in Mine /\ site # Nothing /\ LabTyped
        /\ Shaped(p, site) /\ Guarded(p, site)
        /\ \A q \in Mine : Apart(q, p)
        /\ script.at \in Nat
    BY StageKinds, AtWork, SiteFacts DEF LabIInv
  <1>2. /\ Lead(p) \in Nat /\ Len(p.makes) \in Nat
        /\ DOMAIN p.first = 1 .. Lead(p) /\ DOMAIN p.makes = 1 .. Len(p.makes)
    BY <1>1, StagesAre DEF Lead
  <1>3. script.at <= Lead(p)
    BY <1>2
  <1>4. p.on # "demo"
    BY <1>1 DEF Guarded
  <1>5. env = p.on
    <2>1. CASE p.on \in Copied
      <3>1. PICK j \in DOMAIN p.first : j < script.at /\ p.first[j] = "switch"
        BY <1>1, <2>1 DEF Guarded
      <3> QED
        BY <1>1, <3>1 DEF LabIInv, Configured
    <2>2. CASE p.on \notin Copied
      <3>1. p.on = Homes[site]
        BY <1>1, <2>2 DEF Shaped
      <3> QED
        BY <1>1, <3>1, EnvOwn
    <2> QED
      BY <2>1, <2>2
  <1>6. ASSUME NEW o \in orphans, o.on = p.on PROVE FALSE
    <2>1. PICK q \in Mine : q.on = o.on
             /\ \E i \in DOMAIN q.makes : q.makes[i] = o.stage
      BY DEF LabIInv, OrphansBelong
    <2>2. PICK i \in DOMAIN q.makes : q.makes[i] = o.stage
      BY <2>1
    <2>3. o = [stage |-> o.stage, on |-> o.on]
      BY <1>1 DEF LabTyped
    <2>4. CASE q.starts = p.starts
      <3>1. q.makes = p.makes \/ q.ends = "update-complete"
        BY <1>1, <2>4 DEF Apart
      <3>2. q.makes = p.makes
        <4>1. Named(q, site)
          BY <1>1, SiteFacts
        <4> QED
          BY <1>4, <1>6, <2>1, <3>1, <4>1 DEF Named
      <3>3. i \in DOMAIN p.makes /\ p.makes[i] = o.stage /\ i \in Nat
        BY <1>2, <2>2, <3>2
      <3>4. Ahead(p, i)
        BY <1>1, <1>2, <1>3, <3>3 DEF Ahead, Runs
      <3> QED
        BY <1>1, <1>6, <2>3, <3>3, <3>4 DEF LabIInv, AheadIsNew
    <2>5. CASE q.starts # p.starts
      <3>1. q.makes = Fresh
        BY <1>1, <1>4, <1>6, <2>1, <2>5 DEF Apart
      <3>2. o.stage = "install"
        BY <2>2, <3>1 DEF Fresh
      <3>3. Holds(p.on, "install")
        <4>1. Fresh # Nothing
          <5>1. Fresh \in Seq(Changes \cup {"shop", "part"})
            BY ListOf1 DEF Fresh, Changes
          <5> QED
            BY <5>1, NothingIsNothingElse
        <4> QED
          BY <1>5, <4>1 DEF Holds, Fresh
      <3> QED
        BY <1>6, <3>2, <3>3 DEF LabIInv, OrphansAreNew
    <2> QED
      BY <2>4, <2>5
  <1>7. IsExact(p, script.at + 1)
    <2>1. MadeSoFar(p, script.at + 1) = 0
      <3>1. script.at \in Nat
        BY <1>1
      <3>2. script.at + 1 \in Nat /\ script.at + 1 <= Lead(p) + 1
        BY <1>2, <1>3, <3>1
      <3> QED
        BY <1>2, <3>2, Making
    <2>2. Below(p) = 1
      BY DEF Below
    <2>3. Fresh # Nothing
      <3>1. Fresh \in Seq(Changes \cup {"shop", "part"})
        BY ListOf1 DEF Fresh, Changes
      <3> QED
        BY <3>1, NothingIsNothingElse
    <2>4. Len(Fresh) = 1 /\ Fresh[1] = "install"
      BY DEF Fresh
    <2>5. base[p.on] = Fresh
      BY <1>5
    <2>6. Len(base[p.on]) = Below(p) + MadeSoFar(p, script.at + 1)
      BY <2>1, <2>2, <2>4, <2>5
    <2>7. \A i \in 1 .. MadeSoFar(p, script.at + 1) :
             base[p.on][Below(p) + i] = p.makes[i]
      BY <2>1
    <2> QED
      BY <2>3, <2>4, <2>5, <2>6, <2>7 DEF IsExact
  <1> QED
    BY <1>6, <1>7

\* A stage that changes no database takes its script on.
LEMMA Advanced ==
  ASSUME LabIInv, script.begun, Completes, Stage \notin Changes,
         site' = site, marks' = marks, base' = base, orphans' = orphans,
         saved' \in {Nothing, Fresh},
         IF Stage = "switch" THEN env' = script.by.on ELSE env' = env,
         Stage = "preflight" => base[env] = Fresh,
         Stage \in Canonical => base[env] = Packaged(script.by)
  PROVE  LabIInv'
  <1> DEFINE p == script.by
             k == script.at
             n == Len(p.makes)
  <1>1. /\ ~Free /\ p \in Mine /\ site # Nothing /\ site \in DOMAIN Procedures
        /\ Shaped(p, site) /\ Guarded(p, site) /\ Named(p, site) /\ k \in Nat
    BY StageKinds, AtWork
  <1>2. /\ LabTyped /\ ScriptFits /\ MarksInOrder /\ Configured /\ StateFits
        /\ NothingTwice /\ OrphansAreNew /\ OrphansBelong /\ AheadIsNew
        /\ Untouched /\ ExactOnceSure /\ VerifiedInDemo /\ CompleteIsPackaged
    BY DEF LabIInv
  <1>3. /\ Lead(p) \in Nat /\ n \in Nat /\ Len(p.last) \in Nat
        /\ DOMAIN p.first = 1 .. Lead(p) /\ DOMAIN p.makes = 1 .. n
        /\ Len(Stages(p)) = Lead(p) + n + Len(p.last)
    BY <1>1, StagesAre DEF Lead
  <1>17. \A i \in DOMAIN p.first : Stages(p)[i] = p.first[i]
    BY <1>1, FirstStages
  <1>4. /\ script' = [by |-> p, at |-> k + 1, begun |-> FALSE]
        /\ script'.by = p /\ script'.at = k + 1 /\ script'.begun = FALSE
    BY <1>2 DEF Completes, LabTyped
  <1>5. ~Free'
    BY <1>1, <1>4 DEF Free, NoScript
  <1>6. Mine' = Mine /\ \A q : Runs(q)' <=> Runs(q)
    BY <1>1, <1>4, <1>5 DEF Mine, Runs
  <1>7. k \in 1 .. Len(Stages(p)) /\ (k <= Lead(p) \/ k > Lead(p) + n)
    <2>1. \A i \in DOMAIN p.makes : p.makes[i] \in Changes
      BY <1>1 DEF Shaped
    <2> QED
      BY <2>1, StageKinds
  <1>8. LabTyped'
    BY <1>1, <1>2, <1>4, <1>6 DEF LabTyped
  <1>9. ScriptFits'
    <2>1. k + 1 \in 1 .. Len(Stages(p)) + 1
      BY <1>1, <1>3, <1>7
    <2> QED
      BY <1>1, <1>2, <1>4, <1>6, <2>1 DEF ScriptFits
  <1>10. MarksInOrder' /\ CompleteIsPackaged' /\ Untouched'
    BY <1>2, <1>6 DEF MarksInOrder, CompleteIsPackaged, Untouched, Extends
  <1>11. Configured'
    <2>1. ASSUME NEW i \in DOMAIN p.first, i < k + 1, p.first[i] = "switch"
          PROVE  env' = p.on
      <3>1. CASE i < k
        BY <1>1, <1>2, <2>1, <3>1 DEF Configured
      <3>2. CASE i = k
        BY <1>17, <2>1, <3>2 DEF Stage
      <3> QED
        BY <1>1, <1>3, <2>1, <3>1, <3>2
    <2>2. CASE Stage # "switch"
      BY <1>2, <1>4, <2>1, <2>2 DEF Configured
    <2>3. CASE Stage = "switch"
      <3>1. p.on \in Copied
        <4>1. \E i \in DOMAIN p.first : p.first[i] = "switch"
          BY <1>1, <2>3, StageKinds DEF Shaped
        <4> QED
          BY <1>1, <4>1 DEF Guarded
      <3>2. \/ site = "acceptance" /\ "full-started" \in marks
            \/ site = "enriched" /\ {"medium-started", "full-started"} \cap marks # {}
        BY <1>1, <1>2, <3>1 DEF Named, ScriptFits
      <3> QED
        BY <1>4, <2>1, <3>2 DEF Configured
    <2> QED
      BY <2>2, <2>3
  <1>12. StateFits'
    <2>1. state' # Failed("install") /\ state' # Failed("canonical")
      BY DEF Completes, Failed
    <2> QED
      BY <1>4, <2>1 DEF StateFits
  <1>13. NothingTwice' /\ OrphansAreNew' /\ OrphansBelong'
    BY <1>2, <1>6 DEF NothingTwice, OrphansAreNew, OrphansBelong, Holds
  <1>14. AheadIsNew'
    <2>1. ASSUME NEW q \in Mine, NEW i \in DOMAIN q.makes, Ahead(q, i)'
          PROVE  Ahead(q, i)
      <3>1. CASE q = p
        <4>3. Runs(q) /\ i \in Nat
          BY <1>1, <1>3, <3>1 DEF Runs
        <4>0. Runs(q)' /\ i \in Nat
          BY <1>6, <4>3
        <4>1. k + 1 <= Lead(p) + i
          BY <1>4, <2>1, <3>1, <4>0 DEF Ahead
        <4>2. k <= Lead(p) + i
          BY <1>1, <1>3, <4>0, <4>1
        <4> QED
          BY <1>1, <3>1, <4>2 DEF Ahead, Runs
      <3>2. CASE q # p
        BY <1>4, <1>6, <2>1, <3>2 DEF Ahead, Runs
      <3> QED
        BY <3>1, <3>2
    <2> QED
      BY <1>2, <1>6, <2>1 DEF AheadIsNew, Holds
  <1>15. ExactOnceSure'
    <2>1. SUFFICES ASSUME Sure(p, k + 1)
                   PROVE  /\ \A o \in orphans : o.on # p.on
                          /\ IsExact(p, k + 1)
      BY <1>4 DEF ExactOnceSure, IsExact
    <2>2. CASE Sure(p, k)
      <3>1. MadeSoFar(p, k + 1) = MadeSoFar(p, k)
        <4>1. CASE k <= Lead(p)
          <5>1. k + 1 \in Nat /\ k <= Lead(p) + 1 /\ k + 1 <= Lead(p) + 1
            BY <1>1, <1>3, <4>1
          <5>2. MadeSoFar(p, k + 1) = 0 /\ MadeSoFar(p, k) = 0
            BY <1>1, <1>3, <5>1, Making
          <5> QED
            BY <5>2
        <4>2. CASE k > Lead(p) + n
          <5>1. k + 1 \in Nat /\ k + 1 > Lead(p) + n
            BY <1>1, <1>3, <4>2
          <5>2. MadeSoFar(p, k + 1) = n /\ MadeSoFar(p, k) = n
            BY <1>1, <1>3, <4>2, <5>1, Making
          <5> QED
            BY <5>2
        <4> QED
          BY <1>7, <4>1, <4>2
      <3> QED
        BY <1>1, <1>2, <2>2, <3>1 DEF ExactOnceSure, IsExact
    <2>3. CASE ~Sure(p, k)
      <3>1. PICK i \in DOMAIN p.first : i < k + 1 /\ p.first[i] = "preflight"
        BY <2>1, <2>3 DEF Sure
      <3>2. i = k /\ p.makes # Fresh
        BY <1>1, <1>3, <2>3, <3>1 DEF Sure
      <3>3. Stage = "preflight"
        BY <1>17, <3>1, <3>2 DEF Stage
      <3> QED
        BY <3>1, <3>2, <3>3, PreflightSure
    <2> QED
      BY <2>2, <2>3
  <1>16. VerifiedInDemo'
    <2>1. SUFFICES ASSUME p.on = "demo", k + 1 > Lead(p) + n + 1
                   PROVE  Extends("demo", Packaged(p))
      BY <1>4 DEF VerifiedInDemo, Extends
    <2>2. k > Lead(p) + n /\ ~(k <= Lead(p)) /\ ~(k <= Lead(p) + n)
      BY <1>1, <1>3, <2>1
    <2>3. Stage \in Canonical
      BY <1>1, <2>1, <2>2, StageKinds DEF Guarded
    <2>4. env = "demo" /\ base["demo"] # Nothing
      BY <1>1, <1>2, <2>1 DEF Shaped, Configured, Homes, LabTyped
    <2>5. Packaged(p) \in Seq(Parts)
      BY <1>1, <2>1, PackagedInDemo DEF Shaped
    <2> HIDE DEF Parts
    <2> QED
      BY <2>3, <2>4, <2>5 DEF Extends
  <1> QED
    BY <1>8, <1>9, <1>10, <1>11, <1>12, <1>13, <1>14, <1>15, <1>16 DEF LabIInv
\* A stage that changes the shop adds what its database did not have.
LEMMA Changed ==
  ASSUME LabIInv, Change
  PROVE  LabIInv'
  <1> DEFINE p == script.by
             k == script.at
             n == Len(p.makes)
  <1>1. /\ script.begun /\ Stage \in Changes /\ Completes
        /\ base' = [base EXCEPT ![On] = Append(@, Stage)]
        /\ site' = site /\ marks' = marks /\ saved' = saved /\ env' = env
        /\ orphans' = orphans
    BY DEF Change, At
  <1>2. /\ ~Free /\ p \in Mine /\ site # Nothing /\ site \in DOMAIN Procedures
        /\ Shaped(p, site) /\ k \in Nat
        /\ \A q \in Mine : Shaped(q, site) /\ Named(q, site)
    BY <1>1, StageKinds, AtWork, SiteFacts DEF LabIInv
  <1>3. /\ LabTyped /\ ScriptFits /\ MarksInOrder /\ Configured /\ StateFits
        /\ NothingTwice /\ OrphansAreNew /\ OrphansBelong /\ AheadIsNew
        /\ Untouched /\ ExactOnceSure /\ VerifiedInDemo /\ CompleteIsPackaged
    BY DEF LabIInv
  <1>4. /\ Lead(p) \in Nat /\ n \in Nat
        /\ DOMAIN p.first = 1 .. Lead(p) /\ DOMAIN p.makes = 1 .. n
    BY <1>2, StagesAre DEF Lead
  <1>5. /\ k > Lead(p) /\ k <= Lead(p) + n /\ k - Lead(p) \in DOMAIN p.makes
        /\ Stage = p.makes[k - Lead(p)]
    BY <1>1, ChangeAt
  <1>6. PICK j \in 1 .. n : k = Lead(p) + j /\ Stage = p.makes[j]
    <2>1. PICK j : j = k - Lead(p)
      OBVIOUS
    <2>2. j \in 1 .. n /\ Stage = p.makes[j]
      BY <1>4, <1>5, <2>1
    <2>3. k = Lead(p) + j
      BY <1>2, <1>4, <2>1
    <2> QED
      BY <2>2, <2>3
  <1>7. /\ On = p.on /\ p.on \in Databases /\ base[p.on] # Nothing
        /\ base[p.on] \in Seq(Parts) /\ Stage \in Parts
        /\ base \in [Databases -> {Nothing} \cup Seq(Parts)]
        /\ base' = [base EXCEPT ![p.on] = Append(@, Stage)]
    BY <1>1, <1>2, <1>3, ChangesOwn DEF Shaped, LabTyped, Parts
  <1>8. /\ base' \in [Databases -> {Nothing} \cup Seq(Parts)]
        /\ \A d \in Databases : base'[d] = Nothing <=> base[d] = Nothing
        /\ \A d \in Databases : d # p.on => base'[d] = base[d]
        /\ \A d \in Databases : \A s \in Parts : Holds(d, s) => Holds(d, s)'
        /\ \A d \in Databases : \A s \in Parts :
              Holds(d, s)' => Holds(d, s) \/ (d = p.on /\ s = Stage)
        /\ \A d \in Databases : \A s \in Seq(Parts) :
              Extends(d, s) => Extends(d, s)'
    BY <1>7, Added, Zenon
  <1>9. /\ ~Holds(p.on, Stage)
        /\ [stage |-> Stage, on |-> p.on] \notin orphans
        /\ \A q \in Mine : \A i \in DOMAIN q.makes :
              q.on = p.on /\ q.makes[i] = Stage
              /\ (q.starts \notin marks \/ (q = p /\ k < Lead(q) + i)) => FALSE
    BY <1>1, StageIsNew
  <1>10. /\ script' = [by |-> p, at |-> k + 1, begun |-> FALSE]
         /\ script'.by = p /\ script'.at = k + 1 /\ script'.begun = FALSE
    BY <1>1, <1>3 DEF Completes, LabTyped
  <1>11. ~Free'
    BY <1>2, <1>10 DEF Free, NoScript
  <1>12. Mine' = Mine /\ \A q : Runs(q)' <=> Runs(q)
    BY <1>1, <1>2, <1>10, <1>11 DEF Mine, Runs
  <1>13. LabTyped'
    <2>1. Homes[site] \in Databases
      BY <1>2 DEF Procedures, Homes, Databases
    <2> QED
      BY <1>1, <1>2, <1>3, <1>8, <1>10, <1>12, <2>1 DEF LabTyped
  <1>14. ScriptFits'
    <2>1. /\ Len(Stages(p)) = Lead(p) + n + Len(p.last)
          /\ Len(p.last) \in Nat
      BY <1>2, StagesAre DEF Lead
    <2>2. k \in 1 .. Len(Stages(p))
      BY <1>1, StageKinds
    <2>3. k + 1 \in 1 .. Len(Stages(p)) + 1
      BY <1>2, <1>4, <2>1, <2>2
    <2> QED
      BY <1>1, <1>2, <1>3, <1>10, <1>12, <2>3 DEF ScriptFits
  <1>15. MarksInOrder'
    BY <1>1, <1>3, <1>12 DEF MarksInOrder
  <1>16. Configured'
    <2>1. ASSUME NEW i \in DOMAIN p.first, i < k + 1, p.first[i] = "switch"
          PROVE  env = p.on
      <3>1. i < k
        BY <1>2, <1>4, <1>5, <2>1
      <3> QED
        BY <1>2, <1>3, <2>1, <3>1 DEF Configured
    <2> QED
      BY <1>1, <1>3, <1>10, <2>1 DEF Configured
  <1>17. StateFits'
    <2>1. state' # Failed("install") /\ state' # Failed("canonical")
      BY <1>1 DEF Completes, Failed
    <2> QED
      BY <1>10, <2>1 DEF StateFits
  <1>18. NothingTwice'
    BY <1>3, <1>7, <1>9, AddedOnce
  <1>19. OrphansAreNew'
    <2>1. ASSUME NEW o \in orphans
          PROVE  base'[o.on] # Nothing /\ ~Holds(o.on, o.stage)'
      <3>1. /\ o.on \in Databases /\ o.stage \in Parts
            /\ o = [stage |-> o.stage, on |-> o.on]
        BY <1>3 DEF LabTyped, Parts
      <3>2. base[o.on] # Nothing /\ ~Holds(o.on, o.stage)
        BY <1>3 DEF OrphansAreNew
      <3>3. ~(o.on = p.on /\ o.stage = Stage)
        BY <1>9, <3>1
      <3> QED
        BY <1>8, <3>1, <3>2, <3>3
    <2> QED
      BY <1>1, <2>1 DEF OrphansAreNew
  <1>20. OrphansBelong'
    BY <1>1, <1>3, <1>12 DEF OrphansBelong
  <1>21. AheadIsNew'
    <2>1. ASSUME NEW q \in Mine, NEW i \in DOMAIN q.makes, Ahead(q, i)'
          PROVE  /\ ~Holds(q.on, q.makes[i])'
                 /\ [stage |-> q.makes[i], on |-> q.on] \notin orphans
      <3>1. Ahead(q, i) /\ (q.starts \notin marks \/ (q = p /\ k < Lead(q) + i))
        <4>1. CASE q = p
          <5>1. Runs(q) /\ i \in Nat
            BY <1>2, <1>4, <4>1 DEF Runs
          <5>2. Runs(q)'
            BY <1>12, <5>1
          <5>3. k + 1 <= Lead(p) + i
            BY <1>10, <2>1, <4>1, <5>2 DEF Ahead
          <5>4. k <= Lead(p) + i /\ k < Lead(p) + i
            BY <1>2, <1>4, <5>1, <5>3
          <5> QED
            BY <4>1, <5>1, <5>4 DEF Ahead
        <4>2. CASE q # p
          BY <1>1, <1>10, <1>12, <2>1, <4>2 DEF Ahead, Runs
        <4> QED
          BY <4>1, <4>2
      <3>2. /\ ~Holds(q.on, q.makes[i])
            /\ [stage |-> q.makes[i], on |-> q.on] \notin orphans
        BY <1>3, <3>1 DEF AheadIsNew
      <3>3. ~(q.on = p.on /\ q.makes[i] = Stage)
        BY <1>9, <3>1
      <3>4. q.on \in Databases /\ q.makes[i] \in Parts
        BY <1>2 DEF Shaped, Parts
      <3> QED
        BY <1>8, <3>2, <3>3, <3>4
    <2> QED
      BY <1>1, <1>12, <2>1 DEF AheadIsNew
  <1>22. Untouched'
    <2>1. ASSUME NEW q \in Mine, q.makes = Fresh, q.starts \notin marks
          PROVE  base'[q.on] = <<>> /\ \A o \in orphans : o.on # q.on
      <3>1. q.on # p.on /\ q.on \in Databases
        BY <1>2, <2>1, AtWorkElsewhere DEF Shaped
      <3> QED
        BY <1>3, <1>8, <2>1, <3>1 DEF Untouched
    <2> QED
      BY <1>1, <1>12, <2>1 DEF Untouched
  <1>23. ExactOnceSure'
    <2>1. SUFFICES ASSUME Sure(p, k + 1)
                   PROVE  /\ \A o \in orphans : o.on # p.on
                          /\ base'[p.on] # Nothing
                          /\ Len(base'[p.on])
                                = Below(p) + MadeSoFar(p, k + 1)
                          /\ Below(p) = 1 => base'[p.on][1] = "install"
                          /\ \A i \in 1 .. MadeSoFar(p, k + 1) :
                                base'[p.on][Below(p) + i] = p.makes[i]
      BY <1>1, <1>10 DEF ExactOnceSure, IsExact
    <2>2. Sure(p, k)
      <3>1. \A i \in DOMAIN p.first : i < k
        BY <1>2, <1>4, <1>5
      <3> QED
        BY <2>1, <3>1 DEF Sure
    <2>3. (\A o \in orphans : o.on # p.on) /\ IsExact(p, k)
      BY <1>2, <1>3, <2>2 DEF ExactOnceSure
    <2>4. MadeSoFar(p, k) = j - 1 /\ MadeSoFar(p, k + 1) = j
      BY <1>2, <1>4, <1>6, Making
    <2>5. PICK b : b = base[p.on]
      OBVIOUS
    <2>6. PICK m : m = Below(p)
      OBVIOUS
    <2>7. /\ b \in Seq(Parts) /\ Stage \in Parts /\ m \in {0, 1}
          /\ j \in 1 .. n /\ n \in Nat /\ Len(b) = m + (j - 1)
          /\ m = 1 => b[1] = "install"
          /\ \A i \in 1 .. j - 1 : b[m + i] = p.makes[i]
      BY <1>4, <1>7, <2>3, <2>4, <2>5, <2>6 DEF IsExact, Below
    <2>8. /\ Len(Append(b, Stage)) = m + j
          /\ m = 1 => Append(b, Stage)[1] = "install"
          /\ \A i \in 1 .. j : Append(b, Stage)[m + i] = p.makes[i]
      <3> HIDE DEF Parts
      <3>1. /\ Len(Append(b, Stage)) = Len(b) + 1
            /\ \A i \in 1 .. Len(b) : Append(b, Stage)[i] = b[i]
            /\ Append(b, Stage)[Len(b) + 1] = Stage
        BY <2>7
      <3>2. Len(b) + 1 = m + j
        BY <2>7
      <3>3. \A i \in 1 .. j - 1 : m + i \in 1 .. Len(b)
        BY <2>7
      <3>4. m = 1 => Append(b, Stage)[1] = "install"
        <4>1. CASE Len(b) = 0
          BY <2>7, <4>1
        <4>2. CASE Len(b) # 0
          BY <2>7, <3>1, <4>2
        <4> QED
          BY <4>1, <4>2
      <3>5. ASSUME NEW i \in 1 .. j PROVE Append(b, Stage)[m + i] = p.makes[i]
        <4>1. CASE i = j
          BY <1>6, <3>1, <3>2, <4>1
        <4>2. CASE i # j
          <5>1. i \in 1 .. j - 1
            BY <2>7, <4>2
          <5> QED
            BY <2>7, <3>1, <3>3, <5>1
        <4> QED
          BY <4>1, <4>2
      <3> QED
        BY <3>1, <3>2, <3>4, <3>5
    <2>9. base'[p.on] = Append(b, Stage) /\ base'[p.on] # Nothing
      BY <1>7, <1>8, <2>5
    <2> QED
      BY <2>3, <2>4, <2>6, <2>8, <2>9
  <1>24. VerifiedInDemo'
    <2>1. ~(k + 1 > Lead(p) + n + 1)
      BY <1>2, <1>4, <1>5
    <2> QED
      BY <1>10, <2>1 DEF VerifiedInDemo
  <1>25. CompleteIsPackaged'
    <2>1. ASSUME NEW q \in Mine, q.ends \in marks
          PROVE  Extends(q.on, Packaged(q))'
      <3>1. q.on \in Databases /\ Packaged(q) \in Seq(Parts)
        BY <1>2, PackagedIs, PackagedInDemo DEF Shaped
      <3> QED
        BY <1>3, <1>8, <2>1, <3>1 DEF CompleteIsPackaged
    <2> QED
      BY <1>1, <1>12, <2>1 DEF CompleteIsPackaged
  <1> QED
    BY <1>13, <1>14, <1>15, <1>16, <1>17, <1>18, <1>19, <1>20, <1>21, <1>22,
       <1>23, <1>24, <1>25 DEF LabIInv
\* A database that is created, or filled with the copy that was kept, is one
\* that no other script and no orphan works on.
LEMMA Recreated ==
  ASSUME LabIInv, script.begun, Completes, Stage \in {"create", "restore"},
         NEW b \in {Nothing, <<>>, Fresh},
         base' = [base EXCEPT ![script.by.on] = b],
         site' = site, marks' = marks, saved' = saved, env' = env,
         orphans' = orphans
  PROVE  LabIInv'
  <1> DEFINE p == script.by
             k == script.at
             n == Len(p.makes)
  <1>1. /\ ~Free /\ p \in Mine /\ site # Nothing /\ site \in DOMAIN Procedures
        /\ Shaped(p, site) /\ Guarded(p, site) /\ k \in Nat
        /\ \A q \in Mine : Shaped(q, site) /\ Named(q, site) /\ Apart(q, p)
    BY StageKinds, AtWork, SiteFacts DEF LabIInv
  <1>2. /\ LabTyped /\ ScriptFits /\ MarksInOrder /\ Configured /\ StateFits
        /\ NothingTwice /\ OrphansAreNew /\ OrphansBelong /\ AheadIsNew
        /\ Untouched /\ ExactOnceSure /\ VerifiedInDemo /\ CompleteIsPackaged
    BY DEF LabIInv
  <1>3. /\ Lead(p) \in Nat /\ n \in Nat /\ Len(p.last) \in Nat
        /\ DOMAIN p.first = 1 .. Lead(p) /\ DOMAIN p.makes = 1 .. n
        /\ Len(Stages(p)) = Lead(p) + n + Len(p.last)
    BY <1>1, StagesAre DEF Lead
  <1>4. k <= Lead(p) /\ k \in DOMAIN p.first /\ Stage = p.first[k]
    <2>1. /\ Stage \notin Changes
          /\ \A i \in DOMAIN p.makes : p.makes[i] \in Changes
          /\ \A i \in DOMAIN p.last : p.last[i] \notin {"create", "restore"}
      BY <1>1 DEF Shaped, Changes
    <2> QED
      BY <2>1, StageKinds
  <1>5. /\ p.on \in Copied /\ p.on \in Databases /\ p.on # "demo"
        /\ p.makes # Fresh /\ p.on # Homes[site]
    <2>1. p.on \in Copied
      BY <1>1, <1>4 DEF Guarded
    <2> QED
      BY <1>1, <2>1 DEF Guarded, Copied, Databases, Homes, Procedures
  <1>6. ~Sure(p, k + 1)
    <2>1. ASSUME NEW i \in DOMAIN p.first, i < k + 1, p.first[i] = "preflight"
          PROVE  FALSE
      <3>1. i # k
        BY <1>4, <2>1
      <3>2. i < k
        BY <1>1, <1>3, <2>1, <3>1
      <3> QED
        BY <1>1, <1>4, <2>1, <3>2 DEF Guarded
    <2> QED
      BY <1>5, <2>1 DEF Sure
  <1>7. ASSUME NEW q \in Mine, q.on = p.on
        PROVE  q.starts = p.starts /\ q.ends = p.ends /\ q.makes = p.makes
    <2>1. q.starts = p.starts
      BY <1>1, <1>5, <1>7 DEF Apart
    <2> QED
      BY <1>1, <1>5, <1>7, <2>1 DEF Apart, Named
  <1>8. p.ends \notin marks /\ p.starts \in marks
    BY <1>1, <1>2 DEF ScriptFits
  <1>9. \A o \in orphans : o.on # p.on
    <2>1. ASSUME NEW o \in orphans, o.on = p.on PROVE FALSE
      <3>1. PICK q \in Mine : q.on = o.on
               /\ \E i \in DOMAIN q.makes : q.makes[i] = o.stage
        BY <1>2 DEF OrphansBelong
      <3>2. PICK i \in DOMAIN q.makes : q.makes[i] = o.stage
        BY <3>1
      <3>3. i \in DOMAIN p.makes /\ p.makes[i] = o.stage /\ i \in Nat
        BY <1>3, <1>7, <2>1, <3>1, <3>2
      <3>4. Ahead(p, i)
        BY <1>1, <1>3, <1>4, <3>3 DEF Ahead, Runs
      <3>5. o = [stage |-> o.stage, on |-> o.on]
        BY <1>2 DEF LabTyped
      <3> QED
        BY <1>1, <1>2, <2>1, <3>3, <3>4, <3>5 DEF AheadIsNew
    <2> QED
      BY <2>1
  <1>10. /\ base' \in [Databases -> {Nothing} \cup Seq(Parts)]
         /\ base'[p.on] = b
         /\ \A d \in Databases : d # p.on => base'[d] = base[d]
    <2>1. <<>> \in Seq(Parts) /\ Fresh \in Seq(Parts)
      BY ListOf0, ListOf1 DEF Fresh, Parts, Changes
    <2>2. b \in {Nothing} \cup Seq(Parts)
      BY <2>1
    <2>3. base \in [Databases -> {Nothing} \cup Seq(Parts)]
      BY <1>2 DEF LabTyped
    <2> HIDE DEF Parts
    <2> QED
      BY <1>5, <2>2, <2>3
  <1>11. /\ script' = [by |-> p, at |-> k + 1, begun |-> FALSE]
         /\ script'.by = p /\ script'.at = k + 1 /\ script'.begun = FALSE
    BY <1>2 DEF Completes, LabTyped
  <1>12. ~Free'
    BY <1>1, <1>11 DEF Free, NoScript
  <1>13. Mine' = Mine /\ \A q : Runs(q)' <=> Runs(q)
    BY <1>1, <1>11, <1>12 DEF Mine, Runs
  <1>14. LabTyped'
    <2>1. Homes[site] \in Databases
      BY <1>1 DEF Procedures, Homes, Databases
    <2> QED
      BY <1>1, <1>2, <1>5, <1>10, <1>11, <1>13, <2>1 DEF LabTyped
  <1>15. ScriptFits'
    <2>1. k \in 1 .. Len(Stages(p))
      BY StageKinds
    <2>2. k + 1 \in 1 .. Len(Stages(p)) + 1
      BY <1>1, <1>3, <2>1
    <2> QED
      BY <1>1, <1>2, <1>11, <1>13, <2>2 DEF ScriptFits
  <1>16. MarksInOrder'
    BY <1>2, <1>13 DEF MarksInOrder
  <1>17. Configured'
    <2>1. ASSUME NEW i \in DOMAIN p.first, i < k + 1, p.first[i] = "switch"
          PROVE  env = p.on
      <3>1. i # k
        BY <1>4, <2>1
      <3>2. i < k
        BY <1>1, <1>3, <2>1, <3>1
      <3> QED
        BY <1>1, <1>2, <2>1, <3>2 DEF Configured
    <2> QED
      BY <1>2, <1>11, <2>1 DEF Configured
  <1>18. StateFits'
    <2>1. state' # Failed("install") /\ state' # Failed("canonical")
      BY DEF Completes, Failed
    <2> QED
      BY <1>11, <2>1 DEF StateFits
  <1>19. NothingTwice'
    <2>1. ASSUME NEW d \in Databases, base'[d] # Nothing,
                 NEW i \in DOMAIN base'[d], NEW j \in DOMAIN base'[d],
                 base'[d][i] \in Changes, base'[d][i] = base'[d][j]
          PROVE  i = j
      <3>1. CASE d = p.on
        <4>1. b \in {<<>>, <<"install">>} /\ i \in DOMAIN b /\ j \in DOMAIN b
          BY <1>10, <2>1, <3>1 DEF Fresh
        <4> QED
          BY <4>1
      <3>2. CASE d # p.on
        <4>1. base'[d] = base[d]
          BY <1>10, <3>2
        <4> QED
          BY <1>2, <2>1, <4>1 DEF NothingTwice
      <3> QED
        BY <3>1, <3>2
    <2> QED
      BY <2>1 DEF NothingTwice
  <1>20. OrphansAreNew'
    <2>1. \A o \in orphans : base'[o.on] = base[o.on]
      BY <1>2, <1>9, <1>10 DEF LabTyped
    <2> QED
      BY <1>2, <2>1 DEF OrphansAreNew, Holds
  <1>21. OrphansBelong'
    BY <1>2, <1>13 DEF OrphansBelong
  <1>22. AheadIsNew'
    <2>1. ASSUME NEW q \in Mine, NEW i \in DOMAIN q.makes, Ahead(q, i)'
          PROVE  /\ ~Holds(q.on, q.makes[i])'
                 /\ [stage |-> q.makes[i], on |-> q.on] \notin orphans
      <3>1. CASE q.on = p.on
        <4>1. q.makes[i] # "install"
          BY <1>1, <1>5, <1>7, <2>1, <3>1 DEF Shaped
        <4>2. b = Nothing \/ \A j \in DOMAIN b : b[j] = "install"
          <5>1. CASE b = <<>>
            BY <5>1
          <5>2. CASE b = Fresh
            BY <5>2 DEF Fresh
          <5> QED
            BY <5>1, <5>2
        <4>3. ~Holds(q.on, q.makes[i])'
          BY <1>10, <3>1, <4>1, <4>2 DEF Holds
        <4>4. [stage |-> q.makes[i], on |-> q.on] \notin orphans
          BY <1>9, <3>1
        <4> QED
          BY <4>3, <4>4
      <3>2. CASE q.on # p.on
        <4>1. Ahead(q, i)
          BY <1>11, <1>13, <2>1, <3>2 DEF Ahead, Runs
        <4>2. base'[q.on] = base[q.on]
          BY <1>1, <1>10, <3>2 DEF Shaped
        <4> QED
          BY <1>2, <4>1, <4>2 DEF AheadIsNew, Holds
      <3> QED
        BY <3>1, <3>2
    <2> QED
      BY <1>13, <2>1 DEF AheadIsNew
  <1>23. Untouched'
    <2>1. ASSUME NEW q \in Mine, q.makes = Fresh, q.starts \notin marks
          PROVE  base'[q.on] = <<>> /\ \A o \in orphans : o.on # q.on
      <3>1. q.on # p.on /\ q.on \in Databases
        BY <1>1, <2>1, AtWorkElsewhere DEF Shaped
      <3> QED
        BY <1>2, <1>10, <2>1, <3>1 DEF Untouched
    <2> QED
      BY <1>13, <2>1 DEF Untouched
  <1>24. ExactOnceSure'
    BY <1>6, <1>11 DEF ExactOnceSure
  <1>25. VerifiedInDemo'
    BY <1>5, <1>11 DEF VerifiedInDemo
  <1>26. CompleteIsPackaged'
    <2>1. ASSUME NEW q \in Mine, q.ends \in marks
          PROVE  Extends(q.on, Packaged(q))'
      <3>1. q.on # p.on
        BY <1>7, <1>8, <2>1
      <3>2. base'[q.on] = base[q.on]
        BY <1>1, <1>10, <3>1 DEF Shaped
      <3> QED
        BY <1>2, <2>1, <3>2 DEF CompleteIsPackaged, Extends
    <2> QED
      BY <1>13, <2>1 DEF CompleteIsPackaged
  <1> QED
    BY <1>14, <1>15, <1>16, <1>17, <1>18, <1>19, <1>20, <1>21, <1>22, <1>23,
       <1>24, <1>25, <1>26 DEF LabIInv
\* A stage that has outlived its script ends, in the database that it was
\* started on.
LEMMA OrphanEnded ==
  ASSUME LabIInv, OrphanEnds
  PROVE  LabIInv'
  <1>1. PICK e \in orphans :
           /\ orphans' = orphans \ {e}
           /\ base' = [base EXCEPT ![e.on] = Append(@, e.stage)]
           /\ site' = site /\ marks' = marks /\ state' = state
           /\ saved' = saved /\ env' = env /\ script' = script
    BY DEF OrphanEnds
  <1>2. /\ LabTyped /\ ScriptFits /\ MarksInOrder /\ Configured /\ StateFits
        /\ NothingTwice /\ OrphansAreNew /\ OrphansBelong /\ AheadIsNew
        /\ Untouched /\ ExactOnceSure /\ VerifiedInDemo /\ CompleteIsPackaged
    BY DEF LabIInv
  <1>3. /\ e.on \in Databases /\ e.stage \in Parts /\ e.stage \in Changes
        /\ e = [stage |-> e.stage, on |-> e.on]
        /\ base[e.on] # Nothing /\ ~Holds(e.on, e.stage)
        /\ base \in [Databases -> {Nothing} \cup Seq(Parts)]
    BY <1>2 DEF LabTyped, OrphansAreNew, Parts
  <1>4. /\ site # Nothing /\ site \in DOMAIN Procedures
        /\ \A q \in Mine : Shaped(q, site) /\ Named(q, site)
    <2>1. site # Nothing
      BY <1>2 DEF LabTyped
    <2> QED
      BY <1>2, <2>1, SiteFacts
  <1>5. /\ base' \in [Databases -> {Nothing} \cup Seq(Parts)]
        /\ \A d \in Databases : base'[d] = Nothing <=> base[d] = Nothing
        /\ \A d \in Databases : d # e.on => base'[d] = base[d]
        /\ \A d \in Databases : \A s \in Parts : Holds(d, s) => Holds(d, s)'
        /\ \A d \in Databases : \A s \in Parts :
              Holds(d, s)' => Holds(d, s) \/ (d = e.on /\ s = e.stage)
        /\ \A d \in Databases : \A s \in Seq(Parts) :
              Extends(d, s) => Extends(d, s)'
    BY <1>1, <1>3, Added, Zenon
  <1>6. Mine' = Mine /\ (Free' <=> Free) /\ \A q, i : Ahead(q, i)' <=> Ahead(q, i)
    BY <1>1 DEF Mine, Free, Ahead, Runs
  <1>7. LabTyped'
    <2>1. Homes[site] \in Databases
      BY <1>4 DEF Procedures, Homes, Databases
    <2> QED
      BY <1>1, <1>2, <1>4, <1>5, <1>6, <2>1 DEF LabTyped
  <1>8. ScriptFits' /\ MarksInOrder' /\ Configured'
    BY <1>1, <1>2, <1>6 DEF ScriptFits, MarksInOrder, Configured
  <1>9. StateFits'
    BY <1>1, <1>2 DEF StateFits, Stage
  <1>10. NothingTwice'
    BY <1>1, <1>2, <1>3, AddedOnce
  <1>11. OrphansAreNew'
    <2>1. ASSUME NEW o \in orphans, o # e
          PROVE  base'[o.on] # Nothing /\ ~Holds(o.on, o.stage)'
      <3>1. /\ o.on \in Databases /\ o.stage \in Parts
            /\ o = [stage |-> o.stage, on |-> o.on]
        BY <1>2 DEF LabTyped, Parts
      <3>2. base[o.on] # Nothing /\ ~Holds(o.on, o.stage)
        BY <1>2 DEF OrphansAreNew
      <3>3. ~(o.on = e.on /\ o.stage = e.stage)
        BY <1>3, <2>1, <3>1
      <3> QED
        BY <1>5, <3>1, <3>2, <3>3
    <2> QED
      BY <1>1, <2>1 DEF OrphansAreNew
  <1>12. OrphansBelong'
    BY <1>1, <1>2, <1>6 DEF OrphansBelong
  <1>13. AheadIsNew'
    <2>1. ASSUME NEW q \in Mine, NEW i \in DOMAIN q.makes, Ahead(q, i)
          PROVE  /\ ~Holds(q.on, q.makes[i])'
                 /\ [stage |-> q.makes[i], on |-> q.on] \notin orphans'
      <3>1. /\ ~Holds(q.on, q.makes[i])
            /\ [stage |-> q.makes[i], on |-> q.on] \notin orphans
        BY <1>2, <2>1 DEF AheadIsNew
      <3>2. q.on \in Databases /\ q.makes[i] \in Parts
        BY <1>4 DEF Shaped, Parts
      <3>3. ~(q.on = e.on /\ q.makes[i] = e.stage)
        BY <1>3, <3>1
      <3> QED
        BY <1>1, <1>5, <3>1, <3>2, <3>3
    <2> QED
      BY <1>6, <2>1 DEF AheadIsNew
  <1>14. Untouched'
    <2>1. ASSUME NEW q \in Mine, q.makes = Fresh, q.starts \notin marks
          PROVE  base'[q.on] = <<>> /\ \A o \in orphans' : o.on # q.on
      <3>1. base[q.on] = <<>> /\ \A o \in orphans : o.on # q.on
        BY <1>2, <2>1 DEF Untouched
      <3>2. q.on \in Databases
        BY <1>4 DEF Shaped
      <3> QED
        BY <1>1, <1>5, <3>1, <3>2
    <2> QED
      BY <1>1, <1>6, <2>1 DEF Untouched
  <1>15. ExactOnceSure'
    <2>1. ASSUME ~Free, Sure(script.by, script.at)
          PROVE  /\ \A o \in orphans' : o.on # script.by.on
                 /\ base'[script.by.on] = base[script.by.on]
      <3>1. \A o \in orphans : o.on # script.by.on
        BY <1>2, <2>1 DEF ExactOnceSure
      <3>2. script.by.on \in Databases
        BY <1>2, <1>4, <2>1 DEF ScriptFits, Shaped
      <3> QED
        BY <1>1, <1>5, <3>1, <3>2
    <2> QED
      BY <1>1, <1>2, <1>6, <2>1 DEF ExactOnceSure, IsExact
  <1>16. VerifiedInDemo'
    <2>1. ASSUME ~Free, script.by.on = "demo", Extends("demo", Packaged(script.by))
          PROVE  Extends("demo", Packaged(script.by))'
      <3>1. Packaged(script.by) \in Seq(Parts) /\ "demo" \in Databases
        BY <1>2, <1>4, <2>1, PackagedInDemo DEF ScriptFits, Shaped, Databases
      <3>2. PICK s \in Seq(Parts) : s = Packaged(script.by)
        BY <3>1
      <3>3. Extends("demo", s)'
        BY <1>5, <2>1, <3>1, <3>2
      <3> QED
        BY <1>1, <3>2, <3>3 DEF Extends
    <2> QED
      BY <1>1, <1>2, <1>6, <2>1 DEF VerifiedInDemo
  <1>17. CompleteIsPackaged'
    <2>1. ASSUME NEW q \in Mine, q.ends \in marks
          PROVE  Extends(q.on, Packaged(q))'
      <3>1. q.on \in Databases /\ Packaged(q) \in Seq(Parts)
        BY <1>4, PackagedIs, PackagedInDemo DEF Shaped
      <3> QED
        BY <1>2, <1>5, <2>1, <3>1 DEF CompleteIsPackaged
    <2> QED
      BY <1>1, <1>6, <2>1 DEF CompleteIsPackaged
  <1> QED
    BY <1>7, <1>8, <1>9, <1>10, <1>11, <1>12, <1>13, <1>14, <1>15, <1>16,
       <1>17 DEF LabIInv

\* A database that is empty is a database.
LEMMA EmptyIsNotNothing ==
    <<>> # Nothing /\ Fresh # Nothing /\ <<"shop">> # Nothing
  <1>1. <<>> \in Seq(Changes \cup {"shop", "part"})
    BY ListOf0
  <1>2. Fresh \in Seq(Changes \cup {"shop", "part"})
    BY ListOf1 DEF Fresh, Changes
  <1>3. <<"shop">> \in Seq(Changes \cup {"shop", "part"})
    BY ListOf1
  <1> QED
    BY <1>1, <1>2, <1>3, NothingIsNothingElse

\* A script begins on a database that has nothing of what it will make.
LEMMA ScriptBegins ==
  ASSUME LabIInv, Free, site # Nothing, NEW p \in Mine, Starts(p),
         site' = site, base' = base, saved' = saved, env' = env,
         orphans' = orphans, state' = state,
         marks \subseteq marks',
         marks' \subseteq marks \cup {p.starts, "continued"},
         p.starts \in marks', p.ends \notin marks, p.needs \subseteq marks,
         p.makes = Fresh =>
            base[p.on] = <<>> /\ \A o \in orphans : o.on # p.on,
         \A i \in DOMAIN p.makes :
            /\ ~Holds(p.on, p.makes[i])
            /\ [stage |-> p.makes[i], on |-> p.on] \notin orphans
  PROVE  LabIInv'
  <1>1. /\ site \in DOMAIN Procedures
        /\ \A q \in Mine : Shaped(q, site) /\ Apart(q, p) /\ Apart(p, q)
    BY SiteFacts DEF LabIInv
  <1>2. /\ LabTyped /\ ScriptFits /\ MarksInOrder /\ Configured /\ StateFits
        /\ NothingTwice /\ OrphansAreNew /\ OrphansBelong /\ AheadIsNew
        /\ Untouched /\ ExactOnceSure /\ VerifiedInDemo /\ CompleteIsPackaged
    BY DEF LabIInv
  <1>3. /\ Lead(p) \in Nat /\ Len(p.makes) \in Nat /\ Len(p.last) \in Nat
        /\ DOMAIN p.first = 1 .. Lead(p) /\ DOMAIN p.makes = 1 .. Len(p.makes)
        /\ Len(Stages(p)) = Lead(p) + Len(p.makes) + Len(p.last)
    BY <1>1, StagesAre DEF Lead
  <1>4. /\ script' = [by |-> p, at |-> 1, begun |-> FALSE]
        /\ script'.by = p /\ script'.at = 1 /\ script'.begun = FALSE
    BY DEF Starts
  <1>5. ~Free' /\ Mine' = Mine /\ ~script.begun
    BY <1>4 DEF Free, NoScript, Mine
  <1>6. /\ \A q \in Mine : q.starts \in marks' =>
              q.starts \in marks \/ q.starts = p.starts
        /\ \A q \in Mine : q.ends \in marks' => q.ends \in marks
    <2>1. \A q \in Mine :
             /\ p.starts # q.ends
             /\ q.starts # "continued" /\ q.ends # "continued"
      BY <1>1 DEF Apart, Aside
    <2> QED
      BY <2>1
  <1>7. \A i \in DOMAIN p.first : ~(i < 1)
    BY <1>3
  <1>8. LabTyped'
    BY <1>2, <1>4, <1>5 DEF LabTyped
  <1>9. ScriptFits'
    <2>1. 1 \in 1 .. Len(Stages(p)) + 1
      BY <1>3
    <2>2. p.ends \notin marks'
      BY <1>6
    <2> QED
      BY <1>4, <1>5, <2>1, <2>2 DEF ScriptFits
  <1>10. MarksInOrder'
    <2>1. ASSUME NEW q \in Mine, q.starts \in marks'
          PROVE  q.needs \subseteq marks'
      <3>1. CASE q.starts \in marks
        BY <1>2, <3>1 DEF MarksInOrder
      <3>2. CASE q.starts = p.starts
        BY <1>1, <3>2 DEF Apart
      <3> QED
        BY <1>6, <2>1, <3>1, <3>2
    <2> QED
      BY <1>2, <1>5, <1>6, <2>1 DEF MarksInOrder
  <1>11. Configured'
    BY <1>2, <1>4, <1>7 DEF Configured
  <1>12. StateFits'
    BY <1>2, <1>4 DEF StateFits
  <1>13. NothingTwice' /\ OrphansAreNew' /\ OrphansBelong'
    BY <1>2, <1>5 DEF NothingTwice, OrphansAreNew, OrphansBelong, Holds
  <1>14. AheadIsNew'
    <2>1. ASSUME NEW q \in Mine, NEW i \in DOMAIN q.makes, Ahead(q, i)'
          PROVE  /\ ~Holds(q.on, q.makes[i])
                 /\ [stage |-> q.makes[i], on |-> q.on] \notin orphans
      <3>1. CASE q = p
        BY <2>1, <3>1
      <3>2. CASE q # p
        <4>1. q.starts \notin marks
          BY <1>4, <2>1, <3>2 DEF Ahead, Runs
        <4>2. Ahead(q, i)
          BY <4>1 DEF Ahead, Runs
        <4> QED
          BY <1>2, <4>2 DEF AheadIsNew
      <3> QED
        BY <3>1, <3>2
    <2> QED
      BY <1>5, <2>1 DEF AheadIsNew, Holds
  <1>15. Untouched'
    BY <1>2, <1>5 DEF Untouched
  <1>16. ExactOnceSure'
    <2>1. SUFFICES ASSUME Sure(p, 1)
                   PROVE  /\ \A o \in orphans : o.on # p.on
                          /\ IsExact(p, 1)
      BY <1>4 DEF ExactOnceSure, IsExact
    <2>2. p.makes = Fresh
      BY <1>7, <2>1 DEF Sure
    <2>3. MadeSoFar(p, 1) = 0 /\ Below(p) = 0
      BY <1>3, <2>2, Making DEF Below
    <2>4. base[p.on] = <<>> /\ Len(<<>>) = 0
      BY <2>2
    <2> QED
      BY <2>2, <2>3, <2>4, EmptyIsNotNothing DEF IsExact
  <1>17. VerifiedInDemo'
    <2>1. ~(1 > Lead(p) + Len(p.makes) + 1)
      BY <1>3
    <2> QED
      BY <1>4, <2>1 DEF VerifiedInDemo
  <1>18. CompleteIsPackaged'
    BY <1>2, <1>5, <1>6 DEF CompleteIsPackaged, Extends
  <1> QED
    BY <1>8, <1>9, <1>10, <1>11, <1>12, <1>13, <1>14, <1>15, <1>16, <1>17,
       <1>18 DEF LabIInv
\* How many stages a script has.
LEMMA StagesLength ==
  ASSUME NEW s, NEW p, Shaped(p, s)
  PROVE  Len(Stages(p)) \in Nat
  <1>1. PICK m : m = Len(p.first)
    OBVIOUS
  <1>2. PICK n : n = Len(p.makes)
    OBVIOUS
  <1>3. PICK l : l = Len(p.last)
    OBVIOUS
  <1>4. m \in Nat /\ n \in Nat /\ l \in Nat /\ Len(Stages(p)) = m + n + l
    BY <1>1, <1>2, <1>3, StagesAre
  <1> QED
    BY <1>4

\* A procedure is begun; the two continuations begin likewise.
LEMMA Begun ==
  ASSUME LabIInv, NEW p \in Own, BeginProcedure(p)
  PROVE  LabIInv'
  <1>1. site # Nothing
    BY DEF Own
  <1>2. /\ p \in Mine /\ Apart(p, p)
    BY <1>1, SiteFacts DEF LabIInv
  <1>3. /\ Free
        /\ Starts(p)
        /\ p.needs \subseteq marks
        /\ p.starts \notin marks
        /\ marks' = marks \cup {p.starts}
        /\ site' = site /\ base' = base /\ saved' = saved /\ env' = env
        /\ orphans' = orphans /\ state' = state
    BY DEF BeginProcedure
  <1>4. p.ends \notin marks
    BY <1>2, <1>3 DEF LabIInv, MarksInOrder
  <1>5. p.makes = Fresh =>
           base[p.on] = <<>> /\ \A o \in orphans : o.on # p.on
    BY <1>2, <1>3 DEF LabIInv, Untouched
  <1>6. \A i \in DOMAIN p.makes :
           /\ ~Holds(p.on, p.makes[i])
           /\ [stage |-> p.makes[i], on |-> p.on] \notin orphans
    <2>1. \A i \in DOMAIN p.makes : Ahead(p, i)
      BY <1>3 DEF Ahead, Runs
    <2> QED
      BY <1>2, <2>1 DEF LabIInv, AheadIsNew
  <1> QED
    BY <1>1, <1>2, <1>3, <1>4, <1>5, <1>6, ScriptBegins

LEMMA Retried ==
  ASSUME LabIInv, Retry
  PROVE  LabIInv'
  <1> DEFINE p == RetryEmptyInstall
  <1>1. /\ Free /\ site = "enriched" /\ Starts(p)
        /\ state = Failed("install") /\ base["empty"] = <<>>
        /\ marks' = marks
        /\ site' = site /\ base' = base /\ saved' = saved /\ env' = env
        /\ orphans' = orphans /\ state' = state
    BY DEF Retry, Retriable
  <1>2. site # Nothing
    BY <1>1, NothingIsNothingElse DEF Procedures
  <1>3. /\ Mine = {EnrichedBootstrap, RetryEmptyInstall, Medium, EnrichedFull}
        /\ p \in Mine
    BY <1>1, <1>2 DEF Mine, Scripts, Procedures
  <1>4. /\ p.starts = "bootstrap-started" /\ p.ends = "bootstrap-complete"
        /\ p.needs = {} /\ p.on = "empty" /\ p.makes = Fresh
    BY DEF RetryEmptyInstall, EnrichedBootstrap, Fresh
  <1>5. /\ "bootstrap-started" \in marks
        /\ [stage |-> "install", on |-> "empty"] \notin orphans
    BY <1>1 DEF LabIInv, StateFits
  <1>6. p.ends \notin marks
    <2>1. SUFFICES ASSUME p.ends \in marks PROVE FALSE
      OBVIOUS
    <2>2. Extends("empty", Packaged(p))
      BY <1>3, <1>4, <2>1 DEF LabIInv, CompleteIsPackaged
    <2>3. Packaged(p) = <<"install">>
      BY <1>4 DEF Packaged, Ground, Fresh
    <2> QED
      BY <1>1, <2>2, <2>3 DEF Extends
  <1>7. \A o \in orphans : o.on # p.on
    <2>1. ASSUME NEW o \in orphans, o.on = "empty" PROVE FALSE
      <3>1. PICK q \in Mine : q.on = o.on
               /\ \E i \in DOMAIN q.makes : q.makes[i] = o.stage
        BY DEF LabIInv, OrphansBelong
      <3>2. q.makes = <<"install">>
        BY <1>3, <2>1, <3>1 DEF EnrichedBootstrap, RetryEmptyInstall, Medium,
           EnrichedFull
      <3>3. o.stage = "install"
        BY <3>1, <3>2
      <3>4. o = [stage |-> o.stage, on |-> o.on]
        BY DEF LabIInv, LabTyped
      <3> QED
        BY <1>5, <2>1, <3>3, <3>4
    <2> QED
      BY <1>4, <2>1
  <1>8. \A i \in DOMAIN p.makes :
           /\ ~Holds(p.on, p.makes[i])
           /\ [stage |-> p.makes[i], on |-> p.on] \notin orphans
    BY <1>1, <1>4, <1>7 DEF Holds
  <1>9. /\ marks \subseteq marks'
        /\ marks' \subseteq marks \cup {p.starts, "continued"}
        /\ p.starts \in marks' /\ p.needs \subseteq marks
    BY <1>1, <1>4, <1>5
  <1> HIDE DEF p
  <1> QED
    BY <1>1, <1>2, <1>3, <1>4, <1>6, <1>7, <1>8, <1>9, ScriptBegins

LEMMA Continued ==
  ASSUME LabIInv, Continue
  PROVE  LabIInv'
  <1> DEFINE p == FinishAfterStockRestoration
  <1>1. /\ Free /\ Starts(p) /\ state = Failed("canonical")
        /\ "restoration-passed" \in marks /\ "update-complete" \notin marks
        /\ marks' = marks \cup {"continued"}
        /\ site' = site /\ base' = base /\ saved' = saved /\ env' = env
        /\ orphans' = orphans /\ state' = state
    BY DEF Continue
  <1>2. site # Nothing /\ site \in DOMAIN Procedures
    BY <1>1 DEF LabIInv, LabTyped
  <1>3. /\ p.starts = "update-started" /\ p.ends = "update-complete"
        /\ p.needs = {} /\ p.makes = <<>>
    BY DEF FinishAfterStockRestoration, Update
  <1>4. site = "demo"
    BY <1>1 DEF LabIInv, StateFits
  <1>5. p \in Mine
    BY <1>2, <1>4 DEF Mine, Scripts
  <1>6. "update-started" \in marks
    BY <1>1, <1>4 DEF LabIInv, StateFits
  <1>7. /\ marks \subseteq marks'
        /\ marks' \subseteq marks \cup {p.starts, "continued"}
        /\ p.starts \in marks'
        /\ p.needs \subseteq marks
        /\ p.ends \notin marks
    BY <1>1, <1>3, <1>6
  <1>8. p.makes # Fresh /\ DOMAIN p.makes = {}
    BY <1>3 DEF Fresh
  <1> HIDE DEF p
  <1> QED
    BY <1>1, <1>2, <1>5, <1>7, <1>8, ScriptBegins

\* The site is chosen: a database that is empty, or the demo's.
LEMMA Chosen ==
  ASSUME LabIInv, Choose
  PROVE  LabIInv'
  <1>1. /\ site = Nothing /\ site' \in DOMAIN Procedures
        /\ env' = Homes[site']
        /\ base' = [base EXCEPT ![env'] =
                      IF site' = "demo" THEN <<"shop">> ELSE <<>>]
        /\ marks' = marks /\ state' = state /\ saved' = saved
        /\ script' = script /\ orphans' = orphans
    BY DEF Choose
  <1>2. /\ marks = {} /\ orphans = {} /\ script = NoScript /\ state = Nothing
        /\ base = [d \in Databases |-> Nothing] /\ saved \in {Nothing, Fresh}
    BY <1>1 DEF LabIInv, LabTyped, Free
  <1>3. PICK s \in DOMAIN Procedures : s = site'
    BY <1>1
  <1>4. /\ Mine' = Scripts(s) /\ s # Nothing /\ Homes[s] \in Databases
    BY <1>1, <1>3, NothingIsNothingElse
       DEF Mine, Homes, Databases, Procedures
  <1>5. \A q \in Scripts(s) : Shaped(q, s) /\ Guarded(q, s) /\ Named(q, s)
    BY ScriptsShape
  <1>6. PICK b : b = IF s = "demo" THEN <<"shop">> ELSE <<>>
    OBVIOUS
  <1>7. /\ base' = [d \in Databases |-> IF d = Homes[s] THEN b ELSE Nothing]
        /\ b # Nothing /\ b \in Seq(Parts) /\ \A i \in DOMAIN b : b[i] = "shop"
    <2>1. base' = [d \in Databases |-> IF d = Homes[s] THEN b ELSE Nothing]
      BY <1>1, <1>2, <1>3, <1>6
    <2>2. CASE s = "demo"
      <3>1. b = <<"shop">>
        BY <1>6, <2>2
      <3> QED
        BY <2>1, <3>1, ListOf1, EmptyIsNotNothing DEF Parts
    <2>3. CASE s # "demo"
      <3>1. b = <<>>
        BY <1>6, <2>3
      <3> QED
        BY <2>1, <3>1, ListOf0, EmptyIsNotNothing DEF Parts
    <2> QED
      BY <2>2, <2>3
  <1>8. LabTyped'
    <2>1. base' \in [Databases -> {Nothing} \cup Seq(Parts)]
      BY <1>7
    <2>2. base'[Homes[s]] # Nothing
      BY <1>4, <1>7
    <2>3. script' \in [by : {Nothing} \cup Mine', at : Nat, begun : BOOLEAN]
      BY <1>1, <1>2 DEF NoScript
    <2> QED
      BY <1>1, <1>2, <1>3, <1>4, <2>1, <2>2, <2>3 DEF LabTyped
  <1>9. /\ ScriptFits' /\ MarksInOrder' /\ Configured' /\ ExactOnceSure'
        /\ VerifiedInDemo' /\ CompleteIsPackaged'
    <2>1. Free' /\ marks' = {} /\ script'.begun = FALSE
      BY <1>1, <1>2 DEF Free, NoScript
    <2>2. Configured'
      BY <1>1, <2>1 DEF Configured, Homes
    <2> QED
      BY <2>1, <2>2 DEF ScriptFits, MarksInOrder, ExactOnceSure,
         VerifiedInDemo, CompleteIsPackaged
  <1>10. StateFits'
    <2>1. state' # Failed("install") /\ state' # Failed("canonical")
          /\ script'.begun = FALSE
      BY <1>1, <1>2, NothingIsNothingElse DEF NoScript
    <2> QED
      BY <2>1 DEF StateFits
  <1>11. \A d, c : Holds(d, c)' /\ d \in Databases => c = "shop"
    BY <1>7 DEF Holds
  <1>12. NothingTwice'
    <2>1. "shop" \notin Changes
      BY DEF Changes
    <2>2. ASSUME NEW d \in Databases, base'[d] # Nothing,
                 NEW i \in DOMAIN base'[d]
          PROVE  base'[d][i] \notin Changes
      BY <1>7, <2>1, <2>2
    <2> QED
      BY <2>2 DEF NothingTwice
  <1>13. OrphansAreNew' /\ OrphansBelong'
    BY <1>1, <1>2 DEF OrphansAreNew, OrphansBelong
  <1>14. AheadIsNew'
    <2>1. ASSUME NEW q \in Scripts(s), NEW i \in DOMAIN q.makes
          PROVE  ~Holds(q.on, q.makes[i])'
      <3>1. q.on \in Databases /\ q.makes[i] # "shop"
        BY <1>5, <2>1 DEF Shaped, Changes
      <3> QED
        BY <1>11, <3>1
    <2> QED
      BY <1>1, <1>2, <1>4, <2>1 DEF AheadIsNew
  <1>15. Untouched'
    <2>1. ASSUME NEW q \in Scripts(s), q.makes = Fresh
          PROVE  base'[q.on] = <<>>
      <3>1. q.on = Homes[s] /\ s # "demo"
        BY <1>5, <2>1 DEF Guarded
      <3> QED
        BY <1>4, <1>6, <1>7, <3>1
    <2> QED
      BY <1>1, <1>2, <1>4, <2>1 DEF Untouched
  <1> QED
    BY <1>8, <1>9, <1>10, <1>12, <1>13, <1>14, <1>15 DEF LabIInv

\* The state file says that a stage runs; nothing else is different.
LEMMA StageStarts ==
  ASSUME LabIInv, Start
  PROVE  LabIInv'
  <1>1. /\ ~Free /\ ~script.begun /\ ~NoneLeft
        /\ state' = [stage |-> Stage, status |-> "running"]
        /\ script' = [script EXCEPT !.begun = TRUE]
        /\ site' = site /\ marks' = marks /\ base' = base /\ saved' = saved
        /\ env' = env /\ orphans' = orphans
    BY DEF Start
  <1>2. /\ LabTyped /\ ScriptFits /\ MarksInOrder /\ Configured /\ StateFits
        /\ NothingTwice /\ OrphansAreNew /\ OrphansBelong /\ AheadIsNew
        /\ Untouched /\ ExactOnceSure /\ VerifiedInDemo /\ CompleteIsPackaged
    BY DEF LabIInv
  <1>3. /\ site # Nothing /\ script.by \in Mine /\ Shaped(script.by, site)
        /\ script.at \in Nat /\ script.at >= 1
    BY <1>1, AtWork
  <1>4. /\ script'.by = script.by /\ script'.at = script.at
        /\ script'.begun = TRUE
        /\ script' \in [by : {Nothing} \cup Mine, at : Nat, begun : BOOLEAN]
    BY <1>1, <1>2 DEF LabTyped
  <1>5. ~Free'
    BY <1>4 DEF Free, NoScript
  <1>6. /\ Mine' = Mine
        /\ \A q : Runs(q)' <=> Runs(q)
        /\ \A q, i : Ahead(q, i)' <=> Ahead(q, i)
    <2>1. \A q : Runs(q)' <=> Runs(q)
      BY <1>1, <1>4, <1>5 DEF Runs
    <2> QED
      BY <1>1, <1>4, <2>1 DEF Mine, Ahead
  <1>7. LabTyped'
    BY <1>1, <1>2, <1>3, <1>4, <1>6 DEF LabTyped
  <1>8. ScriptFits'
    <2>2. PICK l \in Nat : l = Len(Stages(script.by))
      BY <1>3, StagesLength
    <2>3. l \in Nat
      BY <2>2
    <2>4. ~(script.at > l)
      BY <1>1, <2>2 DEF NoneLeft
    <2>5. script.at \in 1 .. l
      BY <1>3, <2>3, <2>4
    <2> QED
      BY <1>1, <1>2, <1>4, <1>6, <2>2, <2>5 DEF ScriptFits
  <1>9. MarksInOrder' /\ Configured'
    BY <1>1, <1>2, <1>4, <1>6 DEF MarksInOrder, Configured
  <1>10. StateFits'
    <2>1. state' # Failed("install") /\ state' # Failed("canonical")
      BY <1>1 DEF Failed
    <2>2. state' = [stage |-> Stage', status |-> "running"]
      BY <1>1, <1>4 DEF Stage
    <2> QED
      BY <2>1, <2>2 DEF StateFits
  <1>11. NothingTwice' /\ OrphansAreNew' /\ OrphansBelong' /\ AheadIsNew'
    BY <1>1, <1>2, <1>6
       DEF NothingTwice, OrphansAreNew, OrphansBelong, AheadIsNew, Holds
  <1>12. Untouched' /\ CompleteIsPackaged'
    BY <1>1, <1>2, <1>6 DEF Untouched, CompleteIsPackaged, Extends
  <1>13. ExactOnceSure' /\ VerifiedInDemo'
    BY <1>1, <1>2, <1>4
       DEF ExactOnceSure, IsExact, VerifiedInDemo, Extends
  <1> QED
    BY <1>7, <1>8, <1>9, <1>10, <1>11, <1>12, <1>13 DEF LabIInv

\* The files about the demo's stock rows are no procedure's, and nothing else
\* that the installations rest on is different.
LEMMA MarkedAside ==
  ASSUME LabIInv, site # Nothing \/ marks' = marks,
         NEW A \in SUBSET Aside, marks' = marks \cup A,
         site' = site, state' = state, base' = base, saved' = saved,
         env' = env, script' = script, orphans' = orphans
  PROVE  LabIInv'
  <1>1. /\ LabTyped /\ ScriptFits /\ MarksInOrder /\ Configured /\ StateFits
        /\ NothingTwice /\ OrphansAreNew /\ OrphansBelong /\ AheadIsNew
        /\ Untouched /\ ExactOnceSure /\ VerifiedInDemo /\ CompleteIsPackaged
    BY DEF LabIInv
  <1>2. \A q \in Mine :
           /\ q.starts \in marks' <=> q.starts \in marks
           /\ q.ends \in marks' <=> q.ends \in marks
    <2>1. CASE site = Nothing
      BY <2>1 DEF Mine
    <2>2. CASE site # Nothing
      <3>1. \A q \in Mine : q.starts \notin Aside /\ q.ends \notin Aside
        BY <1>1, <2>2, SiteFacts DEF Apart
      <3> QED
        BY <3>1
    <2> QED
      BY <2>1, <2>2
  <1>3. /\ Mine' = Mine /\ (Free' <=> Free) /\ marks \subseteq marks'
        /\ \A q : Runs(q)' <=> Runs(q)
    BY DEF Mine, Free, Runs
  <1>4. LabTyped'
    BY <1>1, <1>3 DEF LabTyped
  <1>5. ScriptFits' /\ MarksInOrder' /\ Configured'
    <2>1. ScriptFits'
      BY <1>1, <1>2, <1>3 DEF ScriptFits
    <2>2. MarksInOrder'
      BY <1>1, <1>2, <1>3 DEF MarksInOrder
    <2>3. Configured'
      BY <1>1, <1>3 DEF Configured
    <2> QED
      BY <2>1, <2>2, <2>3
  <1>6. StateFits'
    BY <1>1, <1>3 DEF StateFits, Stage
  <1>7. NothingTwice' /\ OrphansAreNew' /\ OrphansBelong'
    BY <1>1, <1>3 DEF NothingTwice, OrphansAreNew, OrphansBelong, Holds
  <1>8. AheadIsNew'
    <2>1. \A q \in Mine : \A i : Ahead(q, i)' <=> Ahead(q, i)
      BY <1>2, <1>3 DEF Ahead
    <2> QED
      BY <1>1, <1>3, <2>1 DEF AheadIsNew, Holds
  <1>9. Untouched' /\ CompleteIsPackaged'
    <2>1. Untouched'
      BY <1>1, <1>2, <1>3 DEF Untouched
    <2>2. CompleteIsPackaged'
      BY <1>1, <1>2, <1>3 DEF CompleteIsPackaged, Extends
    <2> QED
      BY <2>1, <2>2
  <1>10. ExactOnceSure' /\ VerifiedInDemo'
    BY <1>1, <1>3 DEF ExactOnceSure, IsExact, VerifiedInDemo, Extends
  <1> QED
    BY <1>4, <1>5, <1>6, <1>7, <1>8, <1>9, <1>10 DEF LabIInv
\* Before there is a site there is nothing.
LEMMA LabInitIInv == LabInit => LabIInv
  <1> SUFFICES ASSUME LabInit PROVE LabIInv
    OBVIOUS
  <1>1. /\ site = Nothing /\ marks = {} /\ orphans = {} /\ script = NoScript
        /\ state = Nothing /\ base = [d \in Databases |-> Nothing]
        /\ saved = Nothing
    BY DEF LabInit
  <1>2. Mine = {} /\ Free /\ script.begun = FALSE
    BY <1>1 DEF Mine, Free, NoScript
  <1>3. LabTyped
    <2>1. script \in [by : {Nothing} \cup Mine, at : Nat, begun : BOOLEAN]
      BY <1>1 DEF NoScript
    <2> QED
      BY <1>1, <1>2, <2>1 DEF LabTyped
  <1>4. site \notin {"acceptance", "recipient", "enriched", "demo"}
    BY <1>1, NothingIsNothingElse DEF Procedures
  <1>5. Configured
    BY <1>2, <1>4 DEF Configured
  <1>6. StateFits
    BY <1>1, <1>2, NothingIsNothingElse DEF StateFits
  <1>7. NothingTwice
    BY <1>1 DEF NothingTwice
  <1> QED
    BY <1>1, <1>2, <1>3, <1>5, <1>6, <1>7
       DEF LabIInv, ScriptFits, MarksInOrder, OrphansAreNew, OrphansBelong,
           AheadIsNew, Untouched, ExactOnceSure, VerifiedInDemo,
           CompleteIsPackaged

\* A database with an empty installation and nothing else.
LEMMA AloneIsFresh ==
  ASSUME NEW d \in Databases, base[d] # Nothing,
         base \in [Databases -> {Nothing} \cup Seq(Parts)],
         Len(base[d]) = 1, base[d][1] = "install"
  PROVE  base[d] = Fresh
  <1>1. base[d] \in Seq(Parts)
    OBVIOUS
  <1> HIDE DEF Parts
  <1>2. PICK b \in Seq(Parts) : b = base[d]
    BY <1>1
  <1>3. b = <<"install">>
    BY <1>2
  <1> QED
    BY <1>2, <1>3 DEF Fresh

\* A stage that is kept is the empty installation.
LEMMA StageKept ==
  ASSUME LabIInv, Keep
  PROVE  LabIInv'
  <1> DEFINE p == script.by
             k == script.at
  <1>1. /\ script.begun /\ Stage = "keep" /\ Completes /\ saved' = base[env]
        /\ site' = site /\ marks' = marks /\ base' = base /\ env' = env
        /\ orphans' = orphans
    BY DEF Keep, At
  <1>2. /\ ~Free /\ Shaped(p, site) /\ Guarded(p, site) /\ Named(p, site)
        /\ k \in Nat /\ site \in DOMAIN Procedures
    BY <1>1, StageKinds, AtWork
  <1>3. /\ Lead(p) \in Nat /\ Len(p.makes) \in Nat
        /\ DOMAIN p.first = 1 .. Lead(p) /\ DOMAIN p.makes = 1 .. Len(p.makes)
    BY <1>2, StagesAre DEF Lead
  <1>4. \/ k <= Lead(p) /\ k \in DOMAIN p.first /\ p.first[k] = "keep"
        \/ /\ k > Lead(p) + Len(p.makes)
           /\ \E i \in DOMAIN p.last : p.last[i] = "keep"
    <2>1. \A i \in DOMAIN p.makes : p.makes[i] # "keep"
      BY <1>2 DEF Shaped, Changes
    <2> QED
      BY <1>1, <2>1, StageKinds
  <1>5. base[env] = Fresh
    <2>1. CASE k <= Lead(p) /\ k \in DOMAIN p.first /\ p.first[k] = "keep"
      <3>1. /\ p.makes # Fresh /\ p.on = Homes[site]
            /\ \E j \in DOMAIN p.first : j < k /\ p.first[j] = "preflight"
        BY <1>2, <2>1 DEF Guarded
      <3>2. env = p.on
        BY <1>2, <3>1, EnvOwn
      <3>3. IsExact(p, k)
        BY <1>2, <3>1 DEF LabIInv, ExactOnceSure, Sure
      <3>4. MadeSoFar(p, k) = 0 /\ Below(p) = 1
        <4>1. k <= Lead(p) + 1
          BY <1>2, <1>3, <2>1
        <4>2. MadeSoFar(p, k) = 0
          BY <1>2, <1>3, <4>1, Making
        <4> QED
          BY <3>1, <4>2 DEF Below
      <3>5. Len(base[p.on]) = 1 /\ base[p.on][1] = "install"
        BY <3>3, <3>4 DEF IsExact
      <3> QED
        BY <1>2, <3>2, <3>3, <3>5, AloneIsFresh
           DEF Shaped, IsExact, LabIInv, LabTyped
    <2>2. CASE /\ k > Lead(p) + Len(p.makes)
               /\ \E i \in DOMAIN p.last : p.last[i] = "keep"
      <3>1. p.makes = Fresh /\ p.on = Homes[site] /\ site # "acceptance"
        BY <1>2, <2>2 DEF Guarded, Named
      <3>2. env = p.on
        BY <1>2, <3>1, EnvOwn
      <3>3. IsExact(p, k)
        BY <1>2, <3>1 DEF LabIInv, ExactOnceSure, Sure
      <3>4. MadeSoFar(p, k) = 1 /\ Below(p) = 0 /\ p.makes[1] = "install"
        <4>1. Len(p.makes) = 1 /\ p.makes[1] = "install"
          BY <3>1 DEF Fresh
        <4> QED
          BY <1>2, <1>3, <2>2, <3>1, <4>1, Making DEF Below
      <3>5. Len(base[p.on]) = 1 /\ base[p.on][1] = "install"
        BY <3>3, <3>4 DEF IsExact
      <3> QED
        BY <1>2, <3>2, <3>3, <3>5, AloneIsFresh
           DEF Shaped, IsExact, LabIInv, LabTyped
    <2> QED
      BY <1>4, <2>1, <2>2
  <1>6. Stage \notin Changes \cup Canonical \cup {"switch", "preflight"}
    BY <1>1 DEF Changes, Canonical
  <1> QED
    BY <1>1, <1>5, <1>6, Advanced

\* Every step, one case for each.
LEMMA LabStep ==
    LabIInv /\ NothingInspected /\ [LabNext]_labVars => LabIInv'
  <1> SUFFICES ASSUME LabIInv, NothingInspected, [LabNext]_labVars
               PROVE  LabIInv'
    OBVIOUS
  <1>1. CASE Choose
    BY <1>1, Chosen
  <1>2. ASSUME NEW p \in Own, BeginProcedure(p) PROVE LabIInv'
    BY <1>2, Begun
  <1>3. CASE Retry
    BY <1>3, Retried
  <1>4. CASE Start
    BY <1>4, StageStarts
  <1>5. CASE Change
    BY <1>5, Changed
  <1>6. CASE Keep
    BY <1>6, StageKept
  <1>7. CASE Create
    <2>1. /\ script.begun /\ Stage \in {"create", "restore"} /\ Completes
          /\ base' = [base EXCEPT ![script.by.on] = <<>>]
          /\ site' = site /\ marks' = marks /\ saved' = saved /\ env' = env
          /\ orphans' = orphans
      BY <1>7 DEF Create, At
    <2> QED
      BY <2>1, Recreated
  <1>8. CASE Restore
    <2>1. /\ script.begun /\ Stage \in {"create", "restore"} /\ Completes
          /\ base' = [base EXCEPT ![script.by.on] = saved]
          /\ site' = site /\ marks' = marks /\ saved' = saved /\ env' = env
          /\ orphans' = orphans
      BY <1>8 DEF Restore, At
    <2>2. saved \in {Nothing, <<>>, Fresh}
      BY DEF LabIInv, LabTyped
    <2> QED
      BY <2>1, <2>2, Recreated
  <1>9. CASE Switch
    <2>1. /\ script.begun /\ Stage = "switch" /\ Completes
          /\ env' = script.by.on
          /\ site' = site /\ marks' = marks /\ base' = base /\ saved' = saved
          /\ orphans' = orphans
      BY <1>9 DEF Switch, At
    <2>2. Stage \notin Changes \cup Canonical /\ Stage # "preflight"
      BY <2>1 DEF Changes, Canonical
    <2>3. saved' \in {Nothing, Fresh}
      BY <2>1 DEF LabIInv, LabTyped
    <2> QED
      BY <2>1, <2>2, <2>3, Advanced
  <1>10. CASE Look
    <2>1. /\ script.begun /\ Stage \in Looks /\ Completes /\ Passes(Stage)
          /\ site' = site /\ marks' = marks /\ base' = base /\ saved' = saved
          /\ env' = env /\ orphans' = orphans
      BY <1>10 DEF Look, At
    <2>2. Stage \notin Changes /\ Stage # "switch"
      BY <2>1 DEF Looks, Changes, Canonical
    <2>3. saved' \in {Nothing, Fresh}
      BY <2>1 DEF LabIInv, LabTyped
    <2>4. /\ Stage = "preflight" => base[env] = Fresh
          /\ Stage \in Canonical => base[env] = Packaged(script.by)
      BY <2>1 DEF Passes
    <2> QED
      BY <2>1, <2>2, <2>3, <2>4, Advanced
  <1>11. CASE StageRefused
    <2>1. /\ script.begun /\ state' = Failed(Stage) /\ script' = NoScript
          /\ site' = site /\ base' = base /\ saved' = saved /\ env' = env
          /\ orphans' = orphans
      BY <1>11 DEF StageRefused, Unfit, At, Fails
    <2>2. \/ marks' = marks
          \/ marks' = marks \cup {"products-and-links-exact"}
      BY <1>11 DEF StageRefused
    <2>3. ~Free
      BY <2>1, StageKinds
    <2> QED
      BY <2>1, <2>2, <2>3, Stopped
  <1>12. CASE StageFails
    <2>1. /\ ~Free /\ script.begun /\ state' = Failed(Stage)
          /\ script' = NoScript /\ site' = site /\ marks' = marks
          /\ saved' = saved /\ env' = env /\ orphans' = orphans
          /\ \/ base' = base
             \/ /\ Stage \in Changes
                /\ base' = [base EXCEPT ![On] = Append(@, "part")]
      BY <1>12 DEF StageFails, Fails
    <2> QED
      BY <2>1, Stopped
  <1>13. CASE Finish
    <2>1. /\ ~Free /\ NoneLeft /\ marks' = marks \cup {script.by.ends}
          /\ script' = NoScript /\ site' = site /\ state' = state
          /\ base' = base /\ saved' = saved /\ env' = env
          /\ orphans' = orphans
      BY <1>13 DEF Finish
    <2> QED
      BY <2>1, Stopped
  <1>14. CASE Kill
    <2>1. /\ ~Free /\ script' = NoScript /\ site' = site /\ marks' = marks
          /\ state' = state /\ base' = base /\ saved' = saved /\ env' = env
          /\ orphans' = IF script.begun /\ Stage \in Changes
                        THEN orphans \cup {[stage |-> Stage, on |-> On]}
                        ELSE orphans
      BY <1>14 DEF Kill
    <2> QED
      BY <2>1, Stopped
  <1>15. CASE OrphanEnds
    BY <1>15, OrphanEnded
  <1>16. CASE Use \/ UNCHANGED labVars
    <2>1. /\ site' = site /\ marks' = marks /\ state' = state
          /\ base' = base /\ saved' = saved /\ env' = env
          /\ script' = script /\ orphans' = orphans
      BY <1>16 DEF Use, labVars
    <2>2. {} \in SUBSET Aside /\ marks' = marks \cup {}
      BY <2>1
    <2> QED
      BY <2>1, <2>2, MarkedAside
  <1>17. CASE ExtractStock \/ RestoreStock
    <2>1. /\ site' = site /\ state' = state /\ base' = base /\ saved' = saved
          /\ env' = env /\ script' = script /\ orphans' = orphans
      BY <1>17 DEF ExtractStock, RestoreStock
    <2>2. PICK A \in SUBSET Aside : marks' = marks \cup A
      <3>1. /\ {"stock-extracted"} \in SUBSET Aside
            /\ {"restoration-passed"} \in SUBSET Aside
            /\ {"restoration-failed"} \in SUBSET Aside
        BY DEF Aside
      <3> QED
        BY <1>17, <3>1 DEF ExtractStock, RestoreStock
    <2>3. site # Nothing
      <3>1. CASE ExtractStock
        BY <3>1, NothingIsNothingElse
           DEF ExtractStock, LabIInv, LabTyped
      <3>2. CASE RestoreStock
        BY <3>2 DEF RestoreStock, NothingInspected
      <3> QED
        BY <1>17, <3>1, <3>2
    <2> QED
      BY <2>1, <2>2, <2>3, MarkedAside
  <1>18. CASE Continue
    BY <1>18, Continued
  <1> QED
    BY <1>1, <1>2, <1>3, <1>4, <1>5, <1>6, <1>7, <1>8, <1>9, <1>10, <1>11,
       <1>12, <1>13, <1>14, <1>15, <1>16, <1>17, <1>18 DEF LabNext

\* Only the stock rows of a demo are inspected.
LEMMA InspectedStep ==
    LabIInv /\ NothingInspected /\ [LabNext]_labVars => NothingInspected'
  <1> SUFFICES ASSUME LabIInv, NothingInspected, [LabNext]_labVars,
                      site' = Nothing
               PROVE  diff' = Nothing
    BY DEF NothingInspected
  <1>1. CASE Choose
    BY <1>1, NothingIsNothingElse DEF Choose
  <1>2. CASE ExtractStock
    BY <1>2, NothingIsNothingElse DEF ExtractStock, LabIInv, LabTyped
  <1>3. CASE RestoreStock
    BY <1>3 DEF RestoreStock, NothingInspected
  <1>4. CASE Use
    BY <1>4 DEF Use, NothingInspected
  <1>5. CASE \/ \E p \in Own : BeginProcedure(p)
             \/ Retry \/ Start \/ Keep \/ Create \/ Restore \/ Switch \/ Look
    BY <1>5 DEF BeginProcedure, Retry, Start, Keep, Create, Restore, Switch,
       Look, NothingInspected, demoVars
  <1>6. CASE \/ StageRefused \/ StageFails \/ Finish \/ Kill \/ OrphanEnds
             \/ Continue
    BY <1>6 DEF StageRefused, StageFails, Finish, Kill, OrphanEnds, Continue,
       NothingInspected, demoVars
  <1>7. CASE Change
    BY <1>7 DEF Change, NothingInspected
  <1>8. CASE UNCHANGED labVars
    BY <1>8 DEF labVars, NothingInspected, demoVars
  <1> QED
    BY <1>1, <1>2, <1>3, <1>4, <1>5, <1>6, <1>7, <1>8 DEF LabNext
\* A database that extends what a package makes begins with it.
LEMMA ExtendsIsPrefix ==
  ASSUME NEW d \in Databases, NEW s \in Seq(Parts), Extends(d, s),
         base \in [Databases -> {Nothing} \cup Seq(Parts)]
  PROVE  IsPrefix(s, base[d])
  <1> HIDE DEF Parts
  <1>1. PICK b \in Seq(Parts) : b = base[d]
    BY DEF Extends
  <1>2. /\ Len(s) <= Len(b) /\ Len(s) \in Nat /\ Len(b) \in Nat
        /\ \A i \in 1 .. Len(s) : b[i] = s[i]
    BY <1>1 DEF Extends
  <1>3. \A i \in 1 .. Len(s) : s[i] = b[i]
    BY <1>2
  <1>4. SubSeq(s, 1, Len(s)) = SubSeq(b, 1, Len(s))
    BY <1>2, <1>3
  <1> QED
    BY <1>1, <1>2, <1>3, <1>4 DEF IsPrefix

\* What a complete procedure has made, and nothing twice.
LEMMA LabIInvInstalled == LabIInv => InstalledAsPackaged
  <1> SUFFICES ASSUME LabIInv PROVE InstalledAsPackaged
    OBVIOUS
  <1>1. LabTyped /\ NothingTwice /\ CompleteIsPackaged
    BY DEF LabIInv
  <1>2. ASSUME NEW p \in Own, p.ends \in marks
        PROVE  IsPrefix(Packaged(p), base[p.on]) /\ saved \in {Nothing, Fresh}
    <2>1. site # Nothing
      BY DEF Own
    <2>2. p \in Mine /\ Shaped(p, site) /\ Named(p, site)
      BY <1>1, <2>1, SiteFacts
    <2>3. Extends(p.on, Packaged(p))
      BY <1>1, <1>2, <2>2 DEF CompleteIsPackaged
    <2>4. p.on \in Databases /\ Packaged(p) \in Seq(Parts)
      BY <2>2, PackagedIs, PackagedInDemo DEF Shaped
    <2>5. base \in [Databases -> {Nothing} \cup Seq(Parts)]
      BY <1>1 DEF LabTyped
    <2>6. IsPrefix(Packaged(p), base[p.on])
      BY <2>3, <2>4, <2>5, ExtendsIsPrefix
    <2> QED
      BY <1>1, <2>6 DEF LabTyped
  <1> QED
    BY <1>1, <1>2 DEF InstalledAsPackaged, NothingTwice

-----------------------------------------------------------------------------
(* Downloads.  The argument: whoever is past the lock has it, so nobody    *)
(* else touches the partial file, and it ends where the range begins that  *)
(* was asked for; whoever dies and comes again measures it anew.           *)

Rooms == {"out", "assets", "lock", "manifest", "writing", "file", "attempt", "stream",
          "check"}
Inside == Rooms \ {"out", "assets", "lock"}

DownloadTyped ==
    /\ client \in [Clients -> [at : Rooms, tries : Nat, offset : 0 .. Size]]
    /\ partial \in [blocks : 0 .. Size, right : BOOLEAN, there : BOOLEAN]

\* Whoever works in the cache has its lock.
InsideLocked == \A c \in Clients : client[c].at \in Inside => holder = c

\* What arrives is put where the range begins that was asked for.
RangesMeet ==
    \A c \in Clients : In(c, "stream") => partial.blocks = client[c].offset

DownloadIInv == DownloadTyped /\ InsideLocked /\ RangesMeet

LEMMA InitDownloadIInv == DownloadInit => DownloadIInv
  BY DownloadBounds DEF DownloadInit, DownloadIInv, DownloadTyped, InsideLocked, RangesMeet,
     In, Out, NoPartial, Rooms, Inside

\* Nobody else is in the cache.
LEMMA AloneInCache ==
  ASSUME DownloadIInv, NEW c \in Clients, client[c].at \in Inside,
         NEW d \in Clients, d # c
  PROVE  client[d].at \notin Inside
  BY DEF DownloadIInv, InsideLocked

\* A client that goes on, and says nothing of the others.
LEMMA ClientMoves ==
  ASSUME DownloadIInv, NEW c \in Clients,
         NEW new \in [at : Rooms, tries : Nat, offset : 0 .. Size],
         client' = [client EXCEPT ![c] = new],
         holder' = holder \/ holder = c \/ (holder' = c /\ holder = Nobody),
         new.at \in Inside => holder' = c,
         partial' \in [blocks : 0 .. Size, right : BOOLEAN, there : BOOLEAN],
         partial' = partial \/ client[c].at \in Inside,
         new.at = "stream" => partial'.blocks = new.offset
  PROVE  DownloadIInv'
  <1>1. /\ client' \in [Clients -> [at : Rooms, tries : Nat, offset : 0 .. Size]]
        /\ client'[c] = new /\ \A d \in Clients : d # c => client'[d] = client[d]
    BY DEF DownloadIInv, DownloadTyped
  <1>2. DownloadTyped'
    BY <1>1 DEF DownloadTyped
  <1>3. InsideLocked'
    <2> SUFFICES ASSUME NEW d \in Clients, client'[d].at \in Inside PROVE holder' = d
      BY DEF InsideLocked
    <2>1. CASE d = c
      BY <1>1, <2>1
    <2>2. CASE d # c
      <3>1. client[d].at \in Inside /\ holder = d /\ d # Nobody
        BY <1>1, <2>2, DownloadBounds DEF DownloadIInv, InsideLocked
      <3> QED
        BY <2>2, <3>1
    <2> QED
      BY <2>1, <2>2
  <1>4. RangesMeet'
    <2> SUFFICES ASSUME NEW d \in Clients, client'[d].at = "stream"
                 PROVE  partial'.blocks = client'[d].offset
      BY DEF RangesMeet, In
    <2>1. CASE d = c
      BY <1>1, <2>1
    <2>2. CASE d # c
      <3>1. client'[d] = client[d] /\ client[d].at = "stream" /\ client[d].at \in Inside
        BY <1>1, <2>2 DEF Inside, Rooms
      <3>2. partial' = partial
        BY <2>2, <3>1, AloneInCache
      <3> QED
        BY <3>1, <3>2 DEF DownloadIInv, RangesMeet, In
    <2> QED
      BY <2>1, <2>2
  <1> QED
    BY <1>2, <1>3, <1>4 DEF DownloadIInv

\* A client that ends its run, or dies.
LEMMA ClientLeaves ==
  ASSUME DownloadIInv, NEW c \in Clients, client' = [client EXCEPT ![c] = Out],
         holder' = IF holder = c THEN Nobody ELSE holder,
         partial' \in [blocks : 0 .. Size, right : BOOLEAN, there : BOOLEAN],
         partial' = partial \/ client[c].at \in Inside
  PROVE  DownloadIInv'
  <1>1. Out \in [at : Rooms, tries : Nat, offset : 0 .. Size] /\ Out.at = "out"
    BY DownloadBounds DEF Out, Rooms
  <1>2. Out.at \notin Inside /\ Out.at # "stream"
    BY <1>1 DEF Inside
  <1>3. holder' = holder \/ holder = c
    OBVIOUS
  <1> QED
    BY <1>1, <1>2, <1>3, ClientMoves

\* A failed attempt, whatever the partial file holds then.
LEMMA AttemptFails ==
  ASSUME DownloadIInv, NEW c \in Clients, NextAttempt(c), client[c].at \in Inside,
         partial' \in [blocks : 0 .. Size, right : BOOLEAN, there : BOOLEAN]
  PROVE  DownloadIInv'
  <1>1. holder = c /\ client[c] \in [at : Rooms, tries : Nat, offset : 0 .. Size]
    BY DEF DownloadIInv, DownloadTyped, InsideLocked
  <1>2. CASE client[c].tries + 1 < Attempts
    <2> DEFINE place == IF client[c].at = "manifest" THEN client[c].at ELSE "attempt"
               new == [client[c] EXCEPT !.tries = client[c].tries + 1, !.at = place]
    <2>3. /\ client' = [client EXCEPT ![c].tries = @ + 1,
                                      ![c].at = IF @ = "manifest" THEN @ ELSE "attempt"]
          /\ holder' = holder
      BY <1>2 DEF NextAttempt
    <2>4. client \in [Clients -> [at : Rooms, tries : Nat, offset : 0 .. Size]]
      BY DEF DownloadIInv, DownloadTyped
    <2>1. client' = [client EXCEPT ![c] = new] /\ holder' = holder
      <3>1. CASE client[c].at = "manifest"
        BY <2>3, <2>4, <3>1
      <3>2. CASE client[c].at # "manifest"
        BY <2>3, <2>4, <3>2
      <3> QED
        BY <3>1, <3>2
    <2>5. place \in {"manifest", "attempt"}
      OBVIOUS
    <2> HIDE DEF place
    <2>2. /\ new \in [at : Rooms, tries : Nat, offset : 0 .. Size]
          /\ new.at \in {"manifest", "attempt"}
      <3>1. place \in Rooms
        BY <2>5 DEF Rooms
      <3>2. client[c].tries + 1 \in Nat
        BY <1>1
      <3> QED
        BY <1>1, <2>5, <3>1, <3>2
    <2> HIDE DEF new
    <2> QED
      BY <1>1, <2>1, <2>2, ClientMoves
  <1>3. CASE ~(client[c].tries + 1 < Attempts)
    BY <1>3, ClientLeaves DEF NextAttempt, Leaves
  <1> QED
    BY <1>2, <1>3

\* What is left of a partial file before a request.
LEMMA KeptTyped ==
  ASSUME DownloadIInv
  PROVE  /\ Kept \in [blocks : 0 .. Size, right : BOOLEAN, there : BOOLEAN]
         /\ Kept.blocks # 0 => Kept = partial
  BY DownloadBounds DEF DownloadIInv, DownloadTyped, Kept, NoPartial

\* Up to the lock, and what is done about the manifest.
LEMMA ManifestDownloadIInv ==
  ASSUME DownloadIInv, NEW c \in Clients,
         \/ StartDownload(c) \/ ListAssets(c) \/ AssetsUnavailable(c) \/ LockCache(c)
         \/ CachedManifest(c) \/ OpenManifest(c) \/ WriteManifest(c) \/ ManifestFails(c)
  PROVE  DownloadIInv'
  <1>1. /\ client[c] \in [at : Rooms, tries : Nat, offset : 0 .. Size]
        /\ client[c].at \in Inside => holder = c
        /\ partial' \in [blocks : 0 .. Size, right : BOOLEAN, there : BOOLEAN]
        /\ partial' = partial
    BY DEF DownloadIInv, DownloadTyped, InsideLocked, StartDownload, ListAssets,
           AssetsUnavailable, LockCache, CachedManifest, OpenManifest, WriteManifest,
           ManifestFails, cache
  <1>2. ASSUME NEW place \in {"assets", "lock", "manifest", "writing", "file"},
               client' = [client EXCEPT ![c].at = place],
               \/ place \in {"assets", "lock"} /\ holder' = holder
               \/ place = "manifest" /\ holder = Nobody /\ holder' = c
               \/ client[c].at \in Inside /\ holder' = holder
        PROVE  DownloadIInv'
    <2> DEFINE new == [client[c] EXCEPT !.at = place]
    <2>1. client' = [client EXCEPT ![c] = new]
      BY <1>2
    <2>2. new \in [at : Rooms, tries : Nat, offset : 0 .. Size] /\ new.at = place
      BY <1>1 DEF Rooms
    <2>3. new.at \in Inside => holder' = c
      BY <1>1, <1>2, <2>2 DEF Inside
    <2>4. holder' = holder \/ holder = c \/ (holder' = c /\ holder = Nobody)
      BY <1>2
    <2>5. new.at # "stream"
      BY <2>2
    <2> HIDE DEF new
    <2> QED
      BY <1>1, <2>1, <2>2, <2>3, <2>4, <2>5, ClientMoves
  <1>3. ASSUME client' = [client EXCEPT ![c].at = "file", ![c].tries = 0],
               client[c].at \in Inside, holder' = holder
        PROVE  DownloadIInv'
    <2> DEFINE new == [client[c] EXCEPT !.at = "file", !.tries = 0]
    <2>1. client' = [client EXCEPT ![c] = new]
      BY <1>3
    <2>2. new \in [at : Rooms, tries : Nat, offset : 0 .. Size] /\ new.at = "file"
      BY <1>1 DEF Rooms
    <2> HIDE DEF new
    <2> QED
      BY <1>1, <1>3, <2>1, <2>2, ClientMoves
  <1>4. ASSUME NEW word, Leaves(c, word) PROVE DownloadIInv'
    BY <1>1, <1>4, ClientLeaves DEF Leaves
  <1>5. CASE StartDownload(c)
    <2>1. \E place \in {"assets", "lock"} :
             client' = [client EXCEPT ![c].at = place] /\ holder' = holder
      BY <1>5 DEF StartDownload, Enters
    <2> QED
      BY <1>2, <2>1
  <1>6. CASE ListAssets(c)
    BY <1>2, <1>6 DEF ListAssets, Enters
  <1>7. CASE AssetsUnavailable(c)
    BY <1>4, <1>7 DEF AssetsUnavailable
  <1>8. CASE LockCache(c)
    BY <1>2, <1>4, <1>8 DEF LockCache, Enters
  <1>9. CASE CachedManifest(c)
    <2>1. client[c].at \in Inside
      BY <1>9 DEF CachedManifest, In, Inside, Rooms
    <2> QED
      BY <1>3, <1>4, <1>9, <2>1 DEF CachedManifest
  <1>10. CASE OpenManifest(c)
    <2>1. client[c].at \in Inside
      BY <1>10 DEF OpenManifest, In, Inside, Rooms
    <2> QED
      BY <1>2, <1>10, <2>1 DEF OpenManifest, Enters
  <1>11. CASE WriteManifest(c)
    <2>1. client[c].at \in Inside
      BY <1>11 DEF WriteManifest, In, Inside, Rooms
    <2> QED
      BY <1>3, <1>11, <2>1 DEF WriteManifest
  <1>12. CASE ManifestFails(c)
    <2>1. client[c].at \in Inside
      BY <1>12 DEF ManifestFails, In, Inside, Rooms
    <2> QED
      BY <1>1, <1>4, <1>12, <2>1, AttemptFails DEF ManifestFails
  <1> QED
    BY <1>5, <1>6, <1>7, <1>8, <1>9, <1>10, <1>11, <1>12

\* The archive is looked at, fetched, promoted and checked.
LEMMA ArchiveDownloadIInv ==
  ASSUME DownloadIInv, NEW c \in Clients,
         \/ LookAtArchive(c) \/ PromotePartial(c) \/ SendRange(c) \/ SendAll(c)
         \/ Refused(c) \/ Receive(c) \/ Break(c) \/ Promote(c) \/ Check(c)
  PROVE  DownloadIInv'
  <1>1. client[c].at \in Inside
    BY DEF LookAtArchive, PromotePartial, SendRange, SendAll, Refused, Receive, Break,
           Promote, Check, Streams, In, Inside, Rooms
  <1>2. /\ client[c] \in [at : Rooms, tries : Nat, offset : 0 .. Size] /\ holder = c
        /\ partial \in [blocks : 0 .. Size, right : BOOLEAN, there : BOOLEAN]
        /\ In(c, "stream") => partial.blocks = client[c].offset
    BY <1>1 DEF DownloadIInv, DownloadTyped, InsideLocked, RangesMeet
  <1>3. NoPartial \in [blocks : 0 .. Size, right : BOOLEAN, there : BOOLEAN]
    BY DownloadBounds DEF NoPartial
  <1>4. ASSUME NEW place \in {"check", "attempt"}, Enters(c, place), holder' = holder,
               partial' \in {partial, NoPartial}
        PROVE  DownloadIInv'
    <2> DEFINE new == [client[c] EXCEPT !.at = place]
    <2>1. client' = [client EXCEPT ![c] = new]
      BY <1>4 DEF Enters
    <2>2. new \in [at : Rooms, tries : Nat, offset : 0 .. Size] /\ new.at = place
      BY <1>2 DEF Rooms
    <2>3. new.at # "stream"
      BY <2>2
    <2> HIDE DEF new
    <2> QED
      BY <1>1, <1>2, <1>3, <1>4, <2>1, <2>2, <2>3, ClientMoves
  <1>5. ASSUME NEW offset \in 0 .. Size, Connect(c, offset), holder' = holder,
               partial' \in [blocks : 0 .. Size, right : BOOLEAN, there : BOOLEAN],
               partial'.blocks = offset
        PROVE  DownloadIInv'
    <2> DEFINE new == [client[c] EXCEPT !.at = "stream", !.offset = offset]
    <2>1. client' = [client EXCEPT ![c] = new]
      BY <1>5 DEF Connect
    <2>2. /\ new \in [at : Rooms, tries : Nat, offset : 0 .. Size]
          /\ new.at = "stream" /\ new.offset = offset
      BY <1>2 DEF Rooms
    <2> HIDE DEF new
    <2> QED
      BY <1>1, <1>2, <1>5, <2>1, <2>2, ClientMoves
  <1>6. CASE LookAtArchive(c)
    BY <1>4, <1>6 DEF LookAtArchive
  <1>7. CASE PromotePartial(c)
    BY <1>4, <1>7 DEF PromotePartial
  <1>8. CASE SendRange(c)
    <2>1. /\ Kept.blocks \in 0 .. Size /\ partial' = Kept
          /\ Kept \in [blocks : 0 .. Size, right : BOOLEAN, there : BOOLEAN]
      <3>1. Kept.blocks \in 1 .. Size - 1 /\ partial' = Kept /\ Kept = partial
        BY <1>8, KeptTyped DEF SendRange
      <3> QED
        BY <1>2, <3>1
    <2> QED
      BY <1>5, <1>8, <2>1 DEF SendRange
  <1>9. CASE SendAll(c)
    <2>1. /\ Partial(0, TRUE) \in [blocks : 0 .. Size, right : BOOLEAN, there : BOOLEAN]
          /\ Partial(0, TRUE).blocks = 0 /\ 0 \in 0 .. Size
      BY DownloadBounds DEF Partial
    <2>2. partial' = Partial(0, TRUE) /\ Connect(c, 0) /\ holder' = holder
      BY <1>9 DEF SendAll
    <2> QED
      BY <1>5, <2>1, <2>2
  <1>10. CASE Refused(c)
    BY <1>1, <1>10, KeptTyped, AttemptFails DEF Refused
  <1>11. CASE Receive(c)
    <2> DEFINE new == [client[c] EXCEPT !.offset = client[c].offset + 1]
    <2>1. client' = [client EXCEPT ![c] = new] /\ holder' = holder /\ Streams(c)
      BY <1>11 DEF Receive
    <2>2. /\ client[c].at = "stream" /\ client[c].offset + 1 \in 0 .. Size
          /\ partial.blocks = client[c].offset
      BY <1>2, <2>1, DownloadBounds DEF Streams, In
    <2>3. /\ new \in [at : Rooms, tries : Nat, offset : 0 .. Size]
          /\ new.offset = client[c].offset + 1
      BY <1>2, <2>2
    <2>4. \E right \in BOOLEAN : partial' = Partial(partial.blocks + 1, right)
      BY <1>2, <1>11 DEF Receive
    <2>5. /\ partial' \in [blocks : 0 .. Size, right : BOOLEAN, there : BOOLEAN]
          /\ partial'.blocks = client[c].offset + 1
      BY <2>2, <2>4 DEF Partial
    <2> HIDE DEF new
    <2> QED
      BY <1>1, <1>2, <2>1, <2>3, <2>5, ClientMoves
  <1>12. CASE Break(c)
    BY <1>1, <1>2, <1>12, AttemptFails DEF Break, cache
  <1>13. CASE Promote(c)
    BY <1>1, <1>3, <1>4, <1>13, AttemptFails DEF Promote
  <1>14. CASE Check(c)
    BY <1>2, <1>14, ClientLeaves DEF Check, Leaves, cache
  <1> QED
    BY <1>6, <1>7, <1>8, <1>9, <1>10, <1>11, <1>12, <1>13, <1>14

LEMMA DownloadStepIInv ==
  ASSUME DownloadIInv, [DownloadNext]_downloadVars PROVE DownloadIInv'
  <1>1. CASE UNCHANGED downloadVars
    BY <1>1 DEF downloadVars, DownloadIInv, DownloadTyped, InsideLocked, RangesMeet, In
  <1>2. ASSUME NEW c \in Clients, KillClient(c) PROVE DownloadIInv'
    BY <1>2, ClientLeaves DEF KillClient, cache, DownloadIInv, DownloadTyped
  <1>3. CASE Rot
    <2>1. /\ UNCHANGED <<client, holder>>
          /\ \/ partial' = partial
             \/ partial' = [partial EXCEPT !.right = FALSE]
      BY <1>3 DEF Rot
    <2>2. /\ partial' \in [blocks : 0 .. Size, right : BOOLEAN, there : BOOLEAN]
          /\ partial'.blocks = partial.blocks
      BY <2>1 DEF DownloadIInv, DownloadTyped
    <2> QED
      BY <2>1, <2>2 DEF DownloadIInv, DownloadTyped, InsideLocked, RangesMeet, In
  <1>4. ASSUME NEW c \in Clients, Fetches(c) PROVE DownloadIInv'
    BY <1>4, ManifestDownloadIInv, ArchiveDownloadIInv DEF Fetches
  <1> QED
    BY <1>1, <1>2, <1>3, <1>4, ManifestDownloadIInv, ArchiveDownloadIInv DEF DownloadNext

\* A partial file that holds the right bytes goes wrong by a mirror or a disk
\* alone, not because clients die, resume or come in each other's way.
LEMMA PartialStaysRight ==
  ASSUME DownloadIInv, DownloadNext, partial.right, ~partial'.right
  PROVE  trouble' = trouble + 1
  <1>1. CASE Rot
    BY <1>1 DEF Rot, Trouble
  <1>2. ASSUME NEW c \in Clients, Receive(c) PROVE trouble' = trouble + 1
    <2>1. partial.blocks = client[c].offset
      BY <1>2 DEF DownloadIInv, RangesMeet, Receive, Streams
    <2>2. CASE partial' = Partial(partial.blocks + 1,
                             partial.right /\ partial.blocks = client[c].offset)
      <3>1. partial'.right = (partial.right /\ partial.blocks = client[c].offset)
        BY <2>2 DEF Partial
      <3> QED
        BY <2>1, <3>1
    <2>3. CASE Trouble
      BY <2>3 DEF Trouble
    <2> QED
      BY <1>2, <2>2, <2>3 DEF Receive
  <1>3. partial' \notin {partial, NoPartial, Kept, Partial(0, TRUE)}
    BY DEF NoPartial, Kept, Partial
  <1> QED
    BY <1>1, <1>2, <1>3
       DEF DownloadNext, Fetches, StartDownload, ListAssets, AssetsUnavailable, LockCache,
           CachedManifest, OpenManifest, WriteManifest, ManifestFails, LookAtArchive,
           PromotePartial, SendRange, SendAll, Refused, Break, Promote, Check, KillClient,
           cache

-----------------------------------------------------------------------------
(* Delivery.  Packets change while they are built and commerce cases once  *)
(* there is a lab; what is uploaded between leaves no pins behind.         *)

DeliveryIInv ==
    /\ CaseIInv
    /\ LabIInv /\ NothingInspected
    /\ DownloadIInv
    /\ phase = "build" => ChainIInv
    /\ phase # "build" => \A i \in Places : packet[i].pin = None

LEMMA DeliveryStepIInv ==
  ASSUME DeliveryIInv, [DeliveryNext]_deliveryVars
  PROVE  DeliveryIInv'
  <1>1. CaseIInv'
    <2>1. [CaseNext]_caseVars
      BY DEF DeliveryNext, Builds, Upload, Downloads, HandOver, Installs, Tries,
             deliveryVars
    <2> QED
      BY <2>1, CaseStepIInv DEF DeliveryIInv
  <1>2. LabIInv' /\ NothingInspected'
    <2>1. [LabNext]_labVars
      BY DEF DeliveryNext, Builds, Upload, Downloads, HandOver, Installs, Tries,
             deliveryVars
    <2> QED
      BY <2>1, LabStep, InspectedStep DEF DeliveryIInv
  <1>3. DownloadIInv'
    <2>1. CASE HandOver
      BY <2>1, DownloadBounds
         DEF HandOver, DownloadIInv, DownloadTyped, InsideLocked, RangesMeet, In, Out,
             NoPartial, Rooms, Inside
    <2>2. CASE ~HandOver
      <3>1. [DownloadNext]_downloadVars
        BY <2>2 DEF DeliveryNext, Builds, Upload, Downloads, Installs, Tries, deliveryVars
      <3> QED
        BY <3>1, DownloadStepIInv DEF DeliveryIInv
    <2> QED
      BY <2>1, <2>2
  <1>4. CASE phase = "build" /\ phase' = "build"
    <2>1. [Next]_vars
      BY <1>4 DEF DeliveryNext, Builds, Upload, Downloads, HandOver, Installs,
                  Tries, deliveryVars
    <2> QED
      BY <1>1, <1>2, <1>3, <1>4, <2>1, ChainStepIInv DEF DeliveryIInv
  <1>5. CASE phase = "build" /\ phase' # "build"
    <2>1. packet' = [i \in Places |-> Absent]
      BY <1>5 DEF DeliveryNext, Builds, Upload, Downloads, HandOver, Installs,
                  Tries, deliveryVars
    <2>2. \A i \in Places : packet'[i].pin = None
      BY <2>1 DEF Absent
    <2> QED
      BY <1>1, <1>2, <1>3, <1>5, <2>2 DEF DeliveryIInv
  <1>6. CASE phase # "build"
    <2>1. phase' # "build" /\ packet' = packet
      BY <1>6 DEF DeliveryNext, Builds, Upload, Downloads, HandOver, Installs,
                  Tries, deliveryVars, vars
    <2> QED
      BY <1>1, <1>2, <1>3, <1>6, <2>1 DEF DeliveryIInv
  <1> QED
    BY <1>4, <1>5, <1>6

\* Everything the theorems below rest on holds all along.
THEOREM DeliveryInvariance == DeliverySpec => []DeliveryIInv
  <1>1. DeliveryInit => DeliveryIInv
    BY InitCaseIInv, InitChainIInv, LabInitIInv, InitDownloadIInv
       DEF DeliveryInit, DeliveryIInv, LabInit, NothingInspected
  <1>2. DeliveryIInv /\ [DeliveryNext]_deliveryVars => DeliveryIInv'
    BY DeliveryStepIInv
  <1> QED
    BY <1>1, <1>2, PTL DEF DeliverySpec

\* A packet that pins a file was made from the version it pins alone, also
\* through all the packets it has read, in whatever order files are edited
\* and scripts refuse, die and are started again: for every chain of scripts
\* that keeps ChainRules, not only the pipeline's (the verify_pins() and
\* verify_release() at the end of every build()).
THEOREM EvidenceStaysOneVersion == DeliverySpec => []EvidenceIsOneVersion
  <1>1. DeliveryIInv => EvidenceIsOneVersion
    <2>1. CASE phase = "build"
      BY <2>1, EvidenceFromIInv DEF DeliveryIInv
    <2>2. CASE phase # "build"
      BY <2>2 DEF DeliveryIInv, EvidenceIsOneVersion
    <2> QED
      BY <2>1, <2>2
  <1> QED
    BY <1>1, DeliveryInvariance, PTL

\* When a run over all the cases has passed, every case has given back what
\* it changed, whatever was killed, abandoned or started again on the way,
\* for every sequence of cases (commerce_qa.py run_cases()).
THEOREM PassedStaysRestored == DeliverySpec => []PassedIsRestored
  <1>1. DeliveryIInv => PassedIsRestored
    BY RestoredWhenPassed DEF DeliveryIInv
  <1> QED
    BY <1>1, DeliveryInvariance, PTL

\* A procedure that says it is complete has left its database as the package
\* makes it on top of the empty installation, with no stage done twice in any
\* database: whatever failed, was killed, went on by itself or was continued,
\* for any number of faults and any use of the demo (the one-use markers,
\* preflight.php, retry_empty_install() and finish_after_stock_restoration()
\* of distribution/acceptance/).
THEOREM CompleteStaysPackaged == DeliverySpec => []InstalledAsPackaged
  <1>1. DeliveryIInv => InstalledAsPackaged
    BY LabIInvInstalled DEF DeliveryIInv
  <1> QED
    BY <1>1, DeliveryInvariance, PTL

\* A resumed download goes on where its partial file ends, whoever has died or
\* been refused at the lock in between, for any number of clients of either
\* kind (download_file(): offset, the range, and open('ab')).
THEOREM RangesStayMet == DeliverySpec => []RangesMeet
  <1>1. DeliveryIInv => RangesMeet
    BY DEF DeliveryIInv, DownloadIInv
  <1> QED
    BY <1>1, DeliveryInvariance, PTL

\* A partial file that holds the right bytes goes wrong only in a step that is
\* counted as trouble.
OnlyTroubleSpoils ==
    [][partial.right /\ ~partial'.right => trouble' = trouble + 1]_deliveryVars

\* Bad answers and bad disks alone spoil what has arrived: two clients or two
\* ranges never mix in a partial file, whoever dies, resumes or wants the same
\* cache (fetch_release()'s flock(), download_file()).
THEOREM PartialsStayRight == DeliverySpec => OnlyTroubleSpoils
  <1>1. ASSUME DeliveryIInv, [DeliveryNext]_deliveryVars
        PROVE  [partial.right /\ ~partial'.right => trouble' = trouble + 1]_deliveryVars
    <2> SUFFICES ASSUME partial.right, ~partial'.right PROVE trouble' = trouble + 1
      OBVIOUS
    <2>1. DownloadNext \/ HandOver \/ partial' = partial
      BY <1>1 DEF DeliveryNext, Builds, Upload, Downloads, HandOver, Installs, Tries,
             deliveryVars, downloadVars
    <2>2. ~HandOver
      BY DEF HandOver, NoPartial
    <2> QED
      BY <1>1, <2>1, <2>2, PartialStaysRight DEF DeliveryIInv
  <1> QED
    BY <1>1, DeliveryInvariance, PTL DEF DeliverySpec, OnlyTroubleSpoils

=============================================================================
