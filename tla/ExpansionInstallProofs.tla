----------------------- MODULE ExpansionInstallProofs -----------------------
(***************************************************************************)
(* For any number of faults, orders and edits, and any products that       *)
(* customers order: what an installation, its resumptions and its          *)
(* restorations do to the shops.                                           *)
(*                                                                         *)
(* The argument.  Every journal lists the new products that were ordered   *)
(* when it was made (JournalsCover), and a restoration is refused when     *)
(* anything was ordered after that.  Where no process outlived its         *)
(* coordinator, nobody but the coordinator imports, so what a plan has     *)
(* ahead of it stays absent from the shop (PlanIsAbsent), and what is      *)
(* absent was not imported since it was (TimesCount).  Orders are never    *)
(* withdrawn, so the origin of a reconciliation has at most the orders of  *)
(* the first snapshot (OriginsAreEarlier), which has at most those of now  *)
(* (FirstIsEarlier): where the origin has those of now, all are the same   *)
(* (ComparesWithFirst).                                                    *)
(***************************************************************************)
EXTENDS ExpansionInstall, TLAPS

Snapshots == [have : SUBSET New, ordered : SUBSET Bought]
Fields == {"at", "store", "resume", "plan", "i", "base", "journal", "ok"}
Planned == {"backup", "check", "validate", "import"}
Compares == Planned \cup {"media", "verify"}
Journaled ==
    {"check", "validate", "import", "media", "verify", "inverse", "browser"}

ShopsTyped ==
    /\ rows \in [Stores -> SUBSET Rows]
    /\ ordered \in [Stores -> SUBSET Bought]
    /\ edited \in [Stores -> Nat]
    /\ times \in [Stores -> [New -> Nat]]
    /\ stray \in [Stores -> SUBSET Rows]
    /\ DOMAIN lost = Stores /\ DOMAIN inverse = Stores /\ DOMAIN native = Stores
    /\ DOMAIN accepted = Stores /\ DOMAIN first = Stores

CoordTyped ==
    /\ Fields \subseteq DOMAIN coord
    /\ coord.store \in Stores /\ coord.i \in 0 .. 4
    /\ coord.at \in {"validate", "import"} => coord.i # 0
    /\ coord.at \in {"stage", "backup", "check"} => coord.i = 0
    /\ \A j \in 1 .. 4 : coord.plan[j] \subseteq Batch[j]

\* A journal has every new product that was ordered when it was made.
Covers(j) ==
    /\ j.rows \subseteq Rows /\ j.edited \in Nat
    /\ j.ordered \cap New \subseteq j.rows

JournalsCover ==
    /\ coord.at \in Journaled => Covers(coord.journal)
    /\ \A s \in Stores : \A v \in inverse[s] : Covers(v.before)

StraysAreLost == \A s \in Stores : stray[s] = {} \/ lost[s] = "stray"

TimesCount ==
    \A s \in Stores :
        \/ lost[s] = "stray"
        \/ \A r \in New :
              times[s][r] <= 1 /\ (r \notin rows[s] => times[s][r] = 0)

PlanIsAbsent ==
    coord.at \in Planned /\ lost[Here] # "stray" =>
        \A j \in 1 .. 4 :
            j >= coord.i => coord.plan[j] \cap New \cap rows[Here] = {}

Begun(s) == first[s] \in Snapshots /\ first[s].ordered \subseteq ordered[s]

FirstIsEarlier == \A s \in Stores : first[s] = None \/ Begun(s)

NotAfter(origin) ==
    Begun("local") /\ origin.ordered \subseteq first["local"].ordered

OriginsAreEarlier ==
    /\ receipt # None => NotAfter(receipt.origin)
    /\ coord.resume # None => NotAfter(coord.resume.origin)
    /\ native["local"] # None =>
           /\ Begun("local")
           /\ native["local"].fresh => NotAfter(native["local"].base)

ComparesWithFirst ==
    coord.at \in Compares =>
        /\ Begun(Here) /\ Origin.ordered = first[Here].ordered
        /\ Resume = None => coord.base = first[Here]

\* What is accepted was accepted in this run, after the steps before it.
AcceptedInThisRun ==
    /\ coord.at \in {"stage"} \cup Compares => accepted[Here] = None
    /\ coord.at # "off" /\ Here = "local" => accepted["remote"] = None

IInv ==
    /\ ShopsTyped /\ CoordTyped /\ JournalsCover /\ StraysAreLost
    /\ TimesCount /\ PlanIsAbsent /\ FirstIsEarlier /\ OriginsAreEarlier
    /\ ComparesWithFirst /\ AcceptedInThisRun
    /\ OrdersKeepTheirProducts /\ AcceptedKeptTheShop

-----------------------------------------------------------------------------
(* The batches, and how the import goes from one to the next.              *)

LEMMA Batches ==
    /\ New = {"x", "y"} /\ Rows = {"x", "y", "old", "pic"}
    /\ Batch[1] = {"x"} /\ Batch[2] = {"y"}
    /\ Batch[3] = {"old"} /\ Batch[4] = {"pic"}
    /\ \A j \in 1 .. 4 : Batch[j] \subseteq Rows
    /\ \A i, j \in 1 .. 4 : i # j => Batch[i] \cap Batch[j] = {}
  <1>1. /\ Batch[1] = {"x"} /\ Batch[2] = {"y"}
        /\ Batch[3] = {"old"} /\ Batch[4] = {"pic"}
    BY DEF Batch
  <1>2. New = {"x", "y"}
    BY <1>1 DEF New
  <1>3. 1 .. 4 = {1, 2, 3, 4}
    OBVIOUS
  <1>4. Rows = {"x", "y", "old", "pic"}
    BY <1>1, <1>3 DEF Rows
  <1>5. \A j \in 1 .. 4 : Batch[j] \subseteq Rows
    BY <1>1, <1>3, <1>4
  <1>6. \A i, j \in 1 .. 4 : i # j => Batch[i] \cap Batch[j] = {}
    BY <1>1, <1>3
  <1> QED
    BY <1>1, <1>2, <1>4, <1>5, <1>6

LEMMA LeastOfFour ==
  ASSUME NEW S, S \subseteq 1 .. 4, S # {}
  PROVE  \E j \in S : \A k \in S : j <= k
  <1>1. CASE 1 \in S
    BY <1>1
  <1>2. CASE 1 \notin S /\ 2 \in S
    BY <1>2
  <1>3. CASE 1 \notin S /\ 2 \notin S /\ 3 \in S
    <2>1. S \subseteq {3, 4}
      BY <1>3
    <2> QED
      BY <1>3, <2>1
  <1>4. CASE 1 \notin S /\ 2 \notin S /\ 3 \notin S
    <2>1. PICK j \in S : TRUE
      OBVIOUS
    <2>2. \A k \in S : k = 4
      BY <1>4
    <2>3. j = 4 /\ \A k \in S : j <= k
      BY <2>2
    <2> QED
      BY <2>3
  <1> QED
    BY <1>1, <1>2, <1>3, <1>4

\* What the coordinator knows of its run stays as it is.
SameRun ==
    /\ Fields \subseteq DOMAIN coord'
    /\ coord'.store = coord.store /\ coord'.resume = coord.resume
    /\ coord'.plan = coord.plan /\ coord'.base = coord.base
    /\ coord'.journal = coord.journal

LEMMA Advanced ==
  ASSUME CoordTyped, NEW i \in 0 .. 4, Advances(i)
  PROVE  /\ SameRun
         /\ \/ coord'.at = "media" /\ coord'.i = 0
            \/ coord'.at = "validate" /\ coord'.i \in i + 1 .. 4
  <1>1. CASE Following(i) = {}
    BY <1>1 DEF Advances, CoordTyped, Fields, SameRun
  <1>2. CASE Following(i) # {}
    <2> DEFINE next == CHOOSE j \in Following(i) :
                           \A k \in Following(i) : j <= k
    <2>1. Following(i) \subseteq i + 1 .. 4
      BY DEF Following
    <2>2. i + 1 .. 4 \subseteq 1 .. 4
      OBVIOUS
    <2>3. \E j \in Following(i) : \A k \in Following(i) : j <= k
      BY <1>2, <2>1, <2>2, LeastOfFour
    <2>4. next \in i + 1 .. 4
      BY <2>1, <2>3
    <2>5. coord' = [coord EXCEPT !.at = "validate", !.i = next]
      BY <1>2 DEF Advances
    <2> HIDE DEF next
    <2> QED
      BY <2>4, <2>5 DEF CoordTyped, Fields, SameRun
  <1> QED
    BY <1>1, <1>2

LEMMA Gone ==
  ASSUME CoordTyped, NEW place, Goes(place)
  PROVE  SameRun /\ coord'.at = place /\ coord'.i = coord.i
  BY DEF Goes, CoordTyped, Fields, SameRun

-----------------------------------------------------------------------------
(* Steps of the coordinator alone.                                         *)

inShops == <<rows, ordered, edited, times, stray, lost>>
inRecords == <<inverse, native, receipt, accepted, first>>

LEMMA InitIInv == InstallInit => IInv
  <1> SUFFICES ASSUME InstallInit PROVE IInv
    OBVIOUS
  <1> USE DEF InstallInit
  <1>1. coord.at = "off" /\ coord.resume = None
    BY DEF Off
  <1>2. ShopsTyped
    BY DEF ShopsTyped
  <1>3. CoordTyped
    BY DEF CoordTyped, Off, Fields, Stores
  <1>4. JournalsCover /\ StraysAreLost
    BY <1>1 DEF JournalsCover, StraysAreLost, Journaled
  <1>5. TimesCount
    BY DEF TimesCount
  <1>6. PlanIsAbsent /\ ComparesWithFirst
    BY <1>1 DEF PlanIsAbsent, ComparesWithFirst, Planned, Compares
  <1>7. FirstIsEarlier
    BY DEF FirstIsEarlier
  <1>8. OriginsAreEarlier
    BY <1>1 DEF OriginsAreEarlier, Stores
  <1>9. AcceptedInThisRun
    BY <1>1 DEF AcceptedInThisRun, Compares, Planned
  <1>10. OrdersKeepTheirProducts /\ AcceptedKeptTheShop
    BY DEF OrdersKeepTheirProducts, AcceptedKeptTheShop
  <1> QED
    BY <1>2, <1>3, <1>4, <1>5, <1>6, <1>7, <1>8, <1>9, <1>10 DEF IInv

LEMMA CoordinatorIInv ==
  ASSUME IInv, UNCHANGED <<inShops, inRecords>>,
         CoordTyped', PlanIsAbsent', ComparesWithFirst', AcceptedInThisRun',
         coord'.at \in Journaled => Covers(coord'.journal),
         coord'.resume \in {coord.resume, None}
  PROVE  IInv'
  <1> USE DEF inShops, inRecords, IInv
  <1>1. ShopsTyped' /\ StraysAreLost'
    BY DEF ShopsTyped, StraysAreLost
  <1>2. JournalsCover'
    BY DEF JournalsCover, Covers
  <1>3. TimesCount'
    BY DEF TimesCount
  <1>4. FirstIsEarlier'
    BY DEF FirstIsEarlier, Begun
  <1>5. OriginsAreEarlier'
    BY DEF OriginsAreEarlier, NotAfter, Begun
  <1>6. OrdersKeepTheirProducts' /\ AcceptedKeptTheShop'
    BY DEF OrdersKeepTheirProducts, AcceptedKeptTheShop
  <1> QED
    BY <1>1, <1>2, <1>3, <1>4, <1>5, <1>6

\* A run that ends leaves nothing that a coordinator has to keep.
LEMMA StoppedIInv ==
  ASSUME IInv, UNCHANGED <<inShops, inRecords>>, coord' = Off
  PROVE  IInv'
  <1>1. coord'.at = "off" /\ coord'.resume = None
    BY DEF Off
  <1>2. CoordTyped'
    BY DEF CoordTyped, Off, Fields, Stores
  <1>3. PlanIsAbsent' /\ ComparesWithFirst' /\ AcceptedInThisRun'
    BY <1>1 DEF PlanIsAbsent, ComparesWithFirst, AcceptedInThisRun, Compares,
                Planned
  <1>4. coord'.at \notin Journaled
    BY <1>1 DEF Journaled
  <1> QED
    BY <1>1, <1>2, <1>3, <1>4, CoordinatorIInv

\* A run that goes on does so with the same plan, journal and origin.
LEMMA OnwardIInv ==
  ASSUME IInv, UNCHANGED <<inShops, inRecords>>, SameRun, coord'.i \in 0 .. 4,
         coord'.at \in {"validate", "import"} => coord'.i # 0,
         coord.at \in Journaled, coord'.at \notin {"off", "stage", "backup", "check"},
         coord'.at \in Planned => coord.at \in Planned /\ coord'.i >= coord.i,
         coord'.at \in Compares => coord.at \in Compares
  PROVE  IInv'
  <1> USE DEF IInv, SameRun
  <1>1. CoordTyped'
    BY DEF CoordTyped
  <1>2. PlanIsAbsent'
    <2> SUFFICES ASSUME coord'.at \in Planned, lost[Here] # "stray",
                        NEW j \in 1 .. 4, j >= coord'.i
                 PROVE  coord.plan[j] \cap New \cap rows[Here] = {}
      BY DEF PlanIsAbsent, inShops, Here
    <2>1. j >= coord.i
      BY DEF CoordTyped
    <2> QED
      BY <2>1 DEF PlanIsAbsent
  <1>3. Resume' = Resume /\ Origin' = Origin /\ Here' = Here
    BY DEF Resume, Origin, Here
  <1>4. ComparesWithFirst'
    BY <1>3 DEF ComparesWithFirst, Begun, inShops, inRecords
  <1>5. AcceptedInThisRun'
    <2>1. coord'.at # "stage" /\ coord.at # "off"
      BY DEF Journaled
    <2> QED
      BY <1>3, <2>1 DEF AcceptedInThisRun, inRecords
  <1>6. Covers(coord'.journal)
    BY DEF JournalsCover
  <1> QED
    BY <1>1, <1>2, <1>4, <1>5, <1>6, CoordinatorIInv

-----------------------------------------------------------------------------
(* The steps of a run.                                                     *)

LEMMA LaunchIInv ==
  ASSUME IInv, NEW resume \in {None, receipt}, Launch(resume)
  PROVE  IInv'
  <1> USE DEF IInv, Launch, shops, ghosts
  <1>1. /\ coord' = [Off EXCEPT !.at = "stage", !.resume = resume]
        /\ coord'.at = "stage" /\ coord'.resume = resume
        /\ coord'.store = "local" /\ coord'.i = 0 /\ coord'.plan = Batch
    BY DEF Off
  <1>2. ShopsTyped'
    BY DEF ShopsTyped
  <1>3. CoordTyped'
    BY <1>1 DEF CoordTyped, Off, Fields, Stores
  <1>4. JournalsCover' /\ StraysAreLost'
    BY <1>1 DEF JournalsCover, Covers, Journaled, StraysAreLost
  <1>5. TimesCount'
    BY DEF TimesCount
  <1>6. PlanIsAbsent' /\ ComparesWithFirst'
    BY <1>1 DEF PlanIsAbsent, ComparesWithFirst, Planned, Compares
  <1>7. FirstIsEarlier'
    BY DEF FirstIsEarlier, Begun
  <1>8. OriginsAreEarlier'
    BY <1>1 DEF OriginsAreEarlier, NotAfter, Begun
  <1>9. AcceptedInThisRun' /\ AcceptedKeptTheShop'
    BY <1>1 DEF AcceptedInThisRun, AcceptedKeptTheShop, Here, Stores
  <1>10. OrdersKeepTheirProducts'
    BY DEF OrdersKeepTheirProducts
  <1> QED
    BY <1>2, <1>3, <1>4, <1>5, <1>6, <1>7, <1>8, <1>9, <1>10

\* What a plan has of the new products is not in the shop.
LEMMA PlanFits ==
  ASSUME IInv, NEW s \in Stores, NEW j \in 1 .. 4
  PROVE  /\ Plan(s)[j] \subseteq Batch[j]
         /\ Plan(s)[j] \cap New \cap rows[s] = {}
  BY DEF Plan

LEMMA SnapshotTyped ==
  ASSUME IInv, NEW s \in Stores
  PROVE  /\ Snapshot(s) \in Snapshots
         /\ Snapshot(s).ordered = ordered[s]
         /\ Snapshot(s).have = rows[s] \cap New
  BY DEF IInv, ShopsTyped, Snapshot, Snapshots

LEMMA StageIInv == ASSUME IInv, Stage PROVE IInv'
  <1> USE DEF IInv, Stage, shops, ghosts
  <1>1. Here \in Stores
    BY DEF CoordTyped, Here
  <1>2. /\ Fields \subseteq DOMAIN coord' /\ coord'.at = "backup"
        /\ coord'.store = coord.store /\ coord'.resume = coord.resume
        /\ coord'.i = coord.i /\ coord'.base = Snapshot(Here)
        /\ coord'.plan = Plan(Here) /\ coord.at = "stage"
    BY DEF CoordTyped, Fields, At
  <1>3. Here' = Here /\ Resume' = Resume
    BY <1>2 DEF Here, Resume
  <1>4. ShopsTyped'
    BY DEF ShopsTyped
  <1>5. CoordTyped'
    BY <1>1, <1>2, PlanFits DEF CoordTyped
  <1>6. JournalsCover' /\ StraysAreLost'
    BY <1>2 DEF JournalsCover, Covers, Journaled, StraysAreLost
  <1>7. TimesCount'
    BY DEF TimesCount
  <1>8. PlanIsAbsent'
    BY <1>1, <1>2, <1>3, PlanFits DEF PlanIsAbsent
  <1> DEFINE firstNow == IF Resume = None THEN Snapshot(Here) ELSE first[Here]
  <1>a. /\ first'[Here] = firstNow
        /\ \A s \in Stores : s # Here => first'[s] = first[s]
    <2>1. DOMAIN first = Stores
      BY DEF ShopsTyped
    <2>2. first' = [first EXCEPT ![Here] = firstNow]
      OBVIOUS
    <2> HIDE DEF IInv, Stage, firstNow
    <2> QED
      BY <1>1, <2>1, <2>2
  <1>b. /\ Snapshot(Here) \in Snapshots /\ ordered' = ordered
        /\ Snapshot(Here).ordered = ordered[Here]
    BY <1>1, SnapshotTyped
  <1>9. \A s \in Stores : Begun(s) => Begun(s)' /\ first[s].ordered \subseteq first'[s].ordered
    <2> HIDE DEF IInv, Stage
    <2> SUFFICES ASSUME NEW s \in Stores, Begun(s)
                 PROVE  Begun(s)' /\ first[s].ordered \subseteq first'[s].ordered
      OBVIOUS
    <2>1. first'[s] = first[s] \/ (first'[s] = Snapshot(Here) /\ s = Here)
      BY <1>a
    <2> QED
      BY <1>b, <2>1 DEF Begun
  <1>10. Begun(Here)' /\ (Resume = None => first'[Here] = Snapshot(Here))
    <2>1. CASE Resume = None
      <3>1. first'[Here] = Snapshot(Here)
        BY <1>a, <2>1
      <3> HIDE DEF IInv, Stage
      <3> QED
        BY <1>3, <1>b, <2>1, <3>1 DEF Begun
    <2>2. CASE Resume # None
      <3>1. Here = "local" /\ coord.resume # None
        BY <2>2 DEF Resume
      <3>2. Begun(Here)
        BY <3>1 DEF OriginsAreEarlier, NotAfter
      <3> HIDE DEF IInv, Stage
      <3> QED
        BY <1>1, <1>3, <1>9, <2>2, <3>2
    <2> QED
      BY <2>1, <2>2
  <1>11. FirstIsEarlier'
    <2> SUFFICES ASSUME NEW s \in Stores, ~Begun(s)'
                 PROVE  first'[s] = None
      BY DEF FirstIsEarlier
    <2> HIDE DEF Stage
    <2>1. s # Here /\ ~Begun(s)
      BY <1>3, <1>9, <1>10
    <2> QED
      BY <1>a, <2>1 DEF FirstIsEarlier
  <1>12. OriginsAreEarlier'
    <2>1. "local" \in Stores
      BY DEF Stores
    <2>2. ASSUME NEW origin, NotAfter(origin)
          PROVE  Begun("local")' /\ origin.ordered \subseteq first'["local"].ordered
      BY <1>9, <2>1, <2>2 DEF NotAfter
    <2> QED
      BY <1>2, <1>9, <2>1, <2>2 DEF OriginsAreEarlier, NotAfter
  <1>13. ComparesWithFirst'
    <2>1. CASE Resume = None
      BY <1>2, <1>3, <1>10, <2>1 DEF ComparesWithFirst, Origin
    <2>2. CASE Resume # None
      <3>1. Here = "local" /\ Resume = coord.resume
        BY <2>2 DEF Resume
      <3>2. NotAfter(Resume.origin)
        BY <2>2, <3>1 DEF OriginsAreEarlier
      <3>3. Resume.origin.ordered = ordered[Here]
        BY <1>1, <2>2, SnapshotTyped DEF Fits, Kept
      <3>4. first'[Here] = first[Here]
        BY <1>a, <2>2
      <3>5. Resume.origin.ordered = first'[Here].ordered
        <4>1. /\ Resume.origin.ordered \subseteq first[Here].ordered
              /\ first[Here].ordered \subseteq ordered[Here]
          BY <3>1, <3>2 DEF NotAfter, Begun
        <4>2. first[Here].ordered \subseteq Resume.origin.ordered
          BY <3>3, <4>1
        <4>3. first[Here].ordered = Resume.origin.ordered
          BY <4>1, <4>2, Zenon
        <4> QED
          BY <3>4, <4>3
      <3>6. Origin' = Resume.origin
        BY <1>3, <2>2 DEF Origin
      <3> QED
        BY <1>3, <1>10, <2>2, <3>5, <3>6 DEF ComparesWithFirst
    <2> QED
      BY <2>1, <2>2
  <1>14. AcceptedInThisRun'
    BY <1>2, <1>3, <1>1 DEF AcceptedInThisRun
  <1>15. OrdersKeepTheirProducts'
    BY DEF OrdersKeepTheirProducts
  <1>16. AcceptedKeptTheShop'
    <2> SUFFICES ASSUME NEW s \in Stores, accepted[s] # None
                 PROVE  accepted[s].have = New /\ accepted[s].ordered = first'[s].ordered
      BY DEF AcceptedKeptTheShop
    <2>1. s # Here
      BY <1>2 DEF AcceptedInThisRun
    <2> QED
      BY <1>a, <2>1 DEF AcceptedKeptTheShop
  <1> QED
    BY <1>4, <1>5, <1>6, <1>7, <1>8, <1>11, <1>12, <1>13, <1>14, <1>15, <1>16

LEMMA BackupIInv == ASSUME IInv, Backup PROVE IInv'
  <1> USE DEF Backup, shops, ghosts, evidence
  <1>1. /\ Fields \subseteq DOMAIN coord' /\ coord'.at = "check"
        /\ coord'.store = coord.store /\ coord'.resume = coord.resume
        /\ coord'.i = coord.i /\ coord'.base = coord.base
        /\ coord'.plan = coord.plan /\ coord'.journal = Journal(Here)
        /\ coord.at = "backup"
    BY DEF IInv, CoordTyped, Fields, At
  <1>2. Here' = Here /\ Resume' = Resume /\ Origin' = Origin
    BY <1>1 DEF Here, Resume, Origin
  <1>3. UNCHANGED <<inShops, inRecords>>
    BY DEF inShops, inRecords
  <1>4. CoordTyped'
    BY <1>1 DEF IInv, CoordTyped
  <1>5. PlanIsAbsent'
    BY <1>1, <1>2, <1>3 DEF IInv, PlanIsAbsent, Planned, inShops
  <1>6. ComparesWithFirst'
    BY <1>1, <1>2, <1>3
       DEF IInv, ComparesWithFirst, Compares, Planned, Begun, inShops, inRecords
  <1>7. AcceptedInThisRun'
    BY <1>1, <1>2, <1>3 DEF IInv, AcceptedInThisRun, Compares, Planned, inRecords
  <1>8. Covers(coord'.journal)
    <2>1. Here \in Stores
      BY DEF IInv, CoordTyped, Here
    <2> QED
      BY <1>1, <2>1 DEF IInv, ShopsTyped, OrdersKeepTheirProducts, Covers, Journal
  <1> QED
    BY <1>1, <1>3, <1>4, <1>5, <1>6, <1>7, <1>8, CoordinatorIInv

\* The receipts of an import that was planned from the first snapshot.
LEMMA ReceiptsAreEarlier ==
  ASSUME IInv, coord.at \in Compares, NEW state, NEW phase,
         Receipts(Here, state, phase),
         UNCHANGED <<receipt, first, ordered>>,
         coord'.resume \in {coord.resume, None}
  PROVE  OriginsAreEarlier' /\ DOMAIN native' = Stores
  <1>1. DOMAIN native' = Stores
    BY DEF IInv, ShopsTyped, Receipts
  <1>2. /\ Begun(Here) /\ Here \in Stores
        /\ Resume = None => coord.base = first[Here]
    BY DEF IInv, ComparesWithFirst, CoordTyped, Here
  <1>3. \/ native'["local"] = native["local"]
        \/ /\ Here = "local" /\ native'["local"].base = coord.base
           /\ native'["local"].fresh = (Resume = None)
    BY <1>2 DEF IInv, ShopsTyped, Receipts, Stores
  <1>4. \A origin : NotAfter(origin) =>
            Begun("local")' /\ origin.ordered \subseteq first'["local"].ordered
    BY DEF NotAfter, Begun
  <1>5. ASSUME native'["local"] # None
        PROVE  /\ Begun("local")
               /\ native'["local"].fresh => NotAfter(native'["local"].base)
    BY <1>2, <1>3, <1>5 DEF IInv, OriginsAreEarlier, NotAfter
  <1>6. OriginsAreEarlier'
    BY <1>4, <1>5 DEF IInv, OriginsAreEarlier, NotAfter, Begun
  <1> QED
    BY <1>1, <1>6

\* What the coordinator imports was not in the shop.
LEMMA ImportsCount ==
  ASSUME IInv, coord.at = "import", NEW some \in SUBSET coord.plan[coord.i],
         Imports(Here, some), UNCHANGED lost
  PROVE  /\ rows' \in [Stores -> SUBSET Rows]
         /\ times' \in [Stores -> [New -> Nat]]
         /\ TimesCount'
         /\ rows'[Here] = rows[Here] \cup some
         /\ \A s \in Stores : rows[s] \subseteq rows'[s]
  <1>1. Here \in Stores /\ coord.i \in 1 .. 4
    BY DEF IInv, CoordTyped, Here
  <1>2. some \subseteq Rows
    BY <1>1, Batches DEF IInv, CoordTyped
  <1>3. /\ rows \in [Stores -> SUBSET Rows]
        /\ times \in [Stores -> [New -> Nat]]
    BY DEF IInv, ShopsTyped
  <1>4. /\ rows' \in [Stores -> SUBSET Rows]
        /\ rows'[Here] = rows[Here] \cup some
        /\ \A s \in Stores : rows[s] \subseteq rows'[s]
        /\ \A s \in Stores : s # Here => rows'[s] = rows[s]
    BY <1>1, <1>2, <1>3 DEF Imports
  <1>5. /\ times' \in [Stores -> [New -> Nat]]
        /\ \A s \in Stores : s # Here => times'[s] = times[s]
        /\ \A r \in New : times'[Here][r] =
               IF r \in some THEN times[Here][r] + 1 ELSE times[Here][r]
    BY <1>1, <1>3 DEF Imports
  <1>6. TimesCount'
    <2> SUFFICES ASSUME NEW s \in Stores, lost[s] # "stray", NEW r \in New
                 PROVE  times'[s][r] <= 1 /\ (r \notin rows'[s] => times'[s][r] = 0)
      BY DEF TimesCount
    <2>1. times[s][r] <= 1 /\ (r \notin rows[s] => times[s][r] = 0)
      BY DEF IInv, TimesCount
    <2>2. CASE s # Here \/ r \notin some
      BY <1>4, <1>5, <2>1, <2>2
    <2>3. CASE s = Here /\ r \in some
      <3>1. r \notin rows[s]
        BY <1>1, <2>3 DEF IInv, PlanIsAbsent, Planned
      <3> QED
        BY <1>4, <1>5, <2>1, <2>3, <3>1
    <2> QED
      BY <2>2, <2>3
  <1> QED
    BY <1>4, <1>5, <1>6

\* A step of the import, whatever it imports and writes into its receipts.
LEMMA ImportingIInv ==
  ASSUME IInv, SameRun, coord.at \in {"check", "validate", "import"},
         coord'.at \in {"validate", "media", "inverse"}, coord'.i \in 0 .. 4,
         coord'.at = "validate" => coord'.i > coord.i,
         UNCHANGED <<ordered, edited, stray, lost, inverse, receipt, accepted, first>>,
         UNCHANGED native \/ \E state, phase : Receipts(Here, state, phase),
         \/ UNCHANGED <<rows, times>>
         \/ /\ coord.at = "import"
            /\ \E some \in SUBSET coord.plan[coord.i] : Imports(Here, some)
  PROVE  IInv'
  <1>1. Here \in Stores /\ coord.i \in 0 .. 4 /\ coord.at \in Compares
    BY DEF IInv, CoordTyped, Here, Compares, Planned
  <1>2. Resume' = Resume /\ Origin' = Origin /\ Here' = Here
    BY DEF Resume, Origin, Here, SameRun
  <1>3. CoordTyped'
    BY <1>1 DEF IInv, CoordTyped, SameRun
  <1>4. OriginsAreEarlier' /\ DOMAIN native' = Stores
    <2>1. CASE UNCHANGED native
      BY <2>1 DEF IInv, ShopsTyped, OriginsAreEarlier, NotAfter, Begun, SameRun
    <2>2. CASE \E state, phase : Receipts(Here, state, phase)
      BY <1>1, <2>2, ReceiptsAreEarlier DEF SameRun
    <2> QED
      BY <2>1, <2>2
  <1>5. /\ rows' \in [Stores -> SUBSET Rows]
        /\ times' \in [Stores -> [New -> Nat]]
        /\ TimesCount'
        /\ \A s \in Stores : rows[s] \subseteq rows'[s]
    <2>1. CASE UNCHANGED <<rows, times>>
      BY <2>1 DEF IInv, ShopsTyped, TimesCount
    <2>2. CASE /\ coord.at = "import"
               /\ \E some \in SUBSET coord.plan[coord.i] : Imports(Here, some)
      BY <2>2, ImportsCount
    <2> QED
      BY <2>1, <2>2
  <1>6. ShopsTyped'
    BY <1>4, <1>5 DEF IInv, ShopsTyped
  <1>7. JournalsCover'
    BY DEF IInv, JournalsCover, Covers, Journaled, SameRun
  <1>8. StraysAreLost' /\ FirstIsEarlier'
    BY DEF IInv, StraysAreLost, FirstIsEarlier, Begun
  <1>9. PlanIsAbsent'
    <2> SUFFICES ASSUME coord'.at = "validate", lost[Here] # "stray",
                        NEW j \in 1 .. 4, j >= coord'.i
                 PROVE  coord.plan[j] \cap New \cap rows'[Here] = {}
      BY <1>2 DEF PlanIsAbsent, Planned, SameRun
    <2>1. j > coord.i
      BY <1>1
    <2>2. coord.plan[j] \cap New \cap rows[Here] = {}
      BY <1>1, <2>1 DEF IInv, PlanIsAbsent, Planned
    <2>3. CASE UNCHANGED rows
      BY <2>2, <2>3
    <2>4. ASSUME coord.at = "import", NEW some \in SUBSET coord.plan[coord.i],
                 Imports(Here, some)
          PROVE  coord.plan[j] \cap New \cap rows'[Here] = {}
      <3>1. rows'[Here] = rows[Here] \cup some
        BY <2>4, ImportsCount
      <3>2. coord.i \in 1 .. 4 /\ j # coord.i
        BY <2>1, <2>4 DEF IInv, CoordTyped
      <3>3. coord.plan[j] \cap some = {}
        BY <3>2, Batches DEF IInv, CoordTyped
      <3> QED
        BY <2>2, <3>1, <3>3
    <2> QED
      BY <2>3, <2>4
  <1>10. ComparesWithFirst'
    BY <1>1, <1>2 DEF IInv, ComparesWithFirst, Begun, SameRun
  <1>11. AcceptedInThisRun'
    BY <1>1, <1>2 DEF IInv, AcceptedInThisRun, SameRun
  <1>12. OrdersKeepTheirProducts'
    BY <1>5 DEF IInv, OrdersKeepTheirProducts
  <1>13. AcceptedKeptTheShop'
    BY DEF IInv, AcceptedKeptTheShop
  <1> QED
    BY <1>3, <1>4, <1>6, <1>5, <1>7, <1>8, <1>9, <1>10, <1>11, <1>12, <1>13
       DEF IInv

LEMMA CheckIInv == ASSUME IInv, Check PROVE IInv'
  <1> USE DEF Check, shops, evidence, ghosts
  <1>1. UNCHANGED <<inShops, inverse, receipt, accepted, first>> /\ coord.at = "check"
    BY DEF inShops, At
  <1>2. CASE Snapshot(Here) = coord.base
    <2>1. Advances(0) /\ Receipts(Here, "running", "preflight")
      BY <1>2
    <2>2. /\ SameRun
          /\ \/ coord'.at = "media" /\ coord'.i = 0
             \/ coord'.at = "validate" /\ coord'.i \in 1 .. 4
      BY <2>1, Advanced DEF IInv
    <2> QED
      <3>1. coord'.at = "validate" => coord'.i > coord.i
        BY <1>1, <2>2 DEF IInv, CoordTyped
      <3> QED
        BY <1>1, <2>1, <2>2, <3>1, ImportingIInv DEF inShops
  <1>3. CASE Snapshot(Here) # coord.base
    <2>1. SameRun /\ coord'.at = "inverse" /\ coord'.i = coord.i
      BY <1>3, Gone DEF IInv
    <2> QED
      BY <1>1, <1>3, <2>1, ImportingIInv DEF inShops, IInv, CoordTyped
  <1> QED
    BY <1>2, <1>3

LEMMA ImportIInv == ASSUME IInv, Import PROVE IInv'
  <1> USE DEF Import, evidence
  <1>1. /\ UNCHANGED <<ordered, edited, stray, lost, inverse, receipt, accepted, first>>
        /\ coord.at = "import" /\ coord.i \in 1 .. 4
    BY DEF At, IInv, CoordTyped
  <1>2. /\ SameRun
        /\ \/ coord'.at = "media" /\ coord'.i = 0
           \/ coord'.at = "validate" /\ coord'.i \in coord.i + 1 .. 4
    BY <1>1, Advanced DEF IInv
  <1>3. coord'.i \in 0 .. 4 /\ (coord'.at = "validate" => coord'.i > coord.i)
    BY <1>1, <1>2
  <1>4. UNCHANGED native \/ \E state, phase : Receipts(Here, state, phase)
    BY Zenon
  <1>5. \E some \in SUBSET coord.plan[coord.i] : Imports(Here, some)
    OBVIOUS
  <1> HIDE DEF Import
  <1> QED
    BY <1>1, <1>2, <1>3, <1>4, <1>5, ImportingIInv

LEMMA BatchFailsIInv == ASSUME IInv, BatchFails PROVE IInv'
  <1>1. /\ UNCHANGED <<ordered, edited, stray, lost, inverse, receipt, accepted, first>>
        /\ coord.at \in {"validate", "import"} /\ Goes("inverse")
    BY DEF BatchFails, At, evidence
  <1>2. SameRun /\ coord'.at = "inverse" /\ coord'.i \in 0 .. 4
    BY <1>1, Gone DEF IInv, CoordTyped
  <1>3. \E state, phase : Receipts(Here, state, phase)
    BY DEF BatchFails
  <1>4. \/ UNCHANGED <<rows, times>>
        \/ /\ coord.at = "import"
           /\ \E some \in SUBSET coord.plan[coord.i] : Imports(Here, some)
    BY DEF BatchFails, At
  <1> QED
    BY <1>1, <1>2, <1>3, <1>4, ImportingIInv

\* Steps that only move the coordinator on.
LEMMA MovesIInv ==
  ASSUME IInv, \/ Validate \/ Curate
               \/ StepFails /\ coord.at \notin {"stage", "backup"}
  PROVE  IInv'
  <1>1. UNCHANGED <<inShops, inRecords>>
    BY DEF Validate, Curate, StepFails, inShops, inRecords, shops, evidence, ghosts
  <1>2. \/ coord.at = "validate" /\ Goes("import")
        \/ coord.at = "media" /\ Goes("verify")
        \/ coord.at \in {"check", "media", "verify"} /\ Goes("inverse")
    BY DEF Validate, Curate, StepFails, At
  <1>3. SameRun /\ coord'.i = coord.i /\ coord.i \in 0 .. 4
    BY <1>2, Gone DEF IInv, CoordTyped
  <1>4. \/ coord.at = "validate" /\ coord'.at = "import"
        \/ coord.at = "media" /\ coord'.at = "verify"
        \/ coord.at \in {"check", "media", "verify"} /\ coord'.at = "inverse"
    BY <1>2, Gone DEF IInv
  <1>5. coord'.at = "import" => coord'.i # 0
    BY <1>3, <1>4 DEF IInv, CoordTyped
  <1> QED
    BY <1>1, <1>3, <1>4, <1>5, OnwardIInv DEF Journaled, Planned, Compares

LEMMA StopsIInv ==
  ASSUME IInv, \/ Refuse \/ BrowseFails
               \/ StepFails /\ coord.at \in {"stage", "backup"}
  PROVE  IInv'
  <1>1. UNCHANGED <<inShops, inRecords>> /\ coord' = Off
    BY DEF Refuse, BrowseFails, StepFails, Stops, inShops, inRecords, shops, evidence, ghosts
  <1> QED
    BY <1>1, StoppedIInv

\* What is accepted has the orders of the first snapshot.
LEMMA VerifyIInv == ASSUME IInv, Verify PROVE IInv'
  <1> DEFINE after == Snapshot(Here)
             ok == after.have = New /\ Kept(Origin, after)
             kept == IF ok THEN after ELSE None
  <1>1. /\ coord.at = "verify" /\ UNCHANGED inShops
        /\ UNCHANGED <<inverse, native, receipt, first>>
        /\ coord' = [coord EXCEPT !.at = "inverse", !.ok = ok]
        /\ accepted' = [accepted EXCEPT ![Here] = kept]
    BY DEF Verify, At, inShops, shops, ghosts
  <1>2. Here \in Stores /\ DOMAIN accepted = Stores
    BY DEF IInv, CoordTyped, ShopsTyped, Here
  <1>3. SameRun /\ coord'.at = "inverse" /\ coord'.i = coord.i
    BY <1>1 DEF IInv, CoordTyped, Fields, SameRun
  <1>4. /\ DOMAIN accepted' = Stores /\ accepted'[Here] = kept
        /\ \A s \in Stores : s # Here => accepted'[s] = accepted[s]
    <2> HIDE DEF kept
    <2> QED
      BY <1>1, <1>2
  <1>5. ShopsTyped' /\ StraysAreLost' /\ TimesCount' /\ FirstIsEarlier'
    BY <1>1, <1>4 DEF IInv, ShopsTyped, StraysAreLost, TimesCount, FirstIsEarlier,
                      Begun, inShops
  <1>6. CoordTyped'
    BY <1>3 DEF IInv, CoordTyped, SameRun
  <1>7. JournalsCover'
    BY <1>1, <1>3 DEF IInv, JournalsCover, Covers, Journaled, SameRun
  <1>8. OriginsAreEarlier'
    BY <1>1, <1>3 DEF IInv, OriginsAreEarlier, NotAfter, Begun, SameRun, inShops
  <1>9. PlanIsAbsent' /\ ComparesWithFirst'
    BY <1>3 DEF PlanIsAbsent, ComparesWithFirst, Planned, Compares
  <1>10. AcceptedInThisRun'
    BY <1>1, <1>3, <1>4
       DEF IInv, AcceptedInThisRun, Planned, Compares, Here, SameRun, Stores
  <1>11. OrdersKeepTheirProducts'
    BY <1>1 DEF IInv, OrdersKeepTheirProducts, inShops
  <1>12. AcceptedKeptTheShop'
    <2> SUFFICES ASSUME NEW s \in Stores, accepted'[s] # None
                 PROVE  /\ accepted'[s].have = New
                        /\ accepted'[s].ordered = first[s].ordered
      BY <1>1 DEF AcceptedKeptTheShop
    <2>1. CASE s # Here
      BY <1>4, <2>1 DEF IInv, AcceptedKeptTheShop
    <2>2. CASE s = Here
      <3>1. ok /\ accepted'[s] = after
        BY <1>4, <2>2
      <3>2. Origin.ordered = first[Here].ordered
        BY <1>1 DEF IInv, ComparesWithFirst, Compares
      <3> QED
        BY <2>2, <3>1, <3>2 DEF Kept
    <2> QED
      BY <2>1, <2>2
  <1> QED
    BY <1>5, <1>6, <1>7, <1>8, <1>9, <1>10, <1>11, <1>12 DEF IInv



\* The journal from before the import becomes half of an inverse.
LEMMA InverseIInv == ASSUME IInv, Inverse PROVE IInv'
  <1> DEFINE pair == [before |-> coord.journal, after |-> Journal(Here)]
  <1>1. /\ coord.at = "inverse" /\ UNCHANGED inShops
        /\ UNCHANGED <<native, receipt, accepted, first>>
        /\ inverse' = [inverse EXCEPT ![Here] = @ \cup {pair}]
        /\ Goes("browser") \/ coord' = Off
    BY DEF Inverse, At, Stops, inShops, shops, ghosts
  <1>2. \/ /\ SameRun /\ coord'.i = coord.i
           /\ coord'.at = "browser" /\ Here' = Here
        \/ coord' = Off /\ coord'.at = "off" /\ coord'.resume = None
    <2>1. CASE Goes("browser")
      BY <2>1, Gone DEF IInv, Here, SameRun
    <2>2. CASE coord' = Off
      BY <2>2 DEF Off
    <2> QED
      BY <1>1, <2>1, <2>2
  <1>3. CoordTyped'
    <2>1. CASE SameRun /\ coord'.i = coord.i /\ coord'.at = "browser"
      BY <2>1 DEF IInv, CoordTyped, SameRun
    <2>2. CASE coord' = Off
      BY <2>2 DEF CoordTyped, Off, Fields, Stores
    <2> QED
      BY <1>2, <2>1, <2>2
  <1>4. /\ DOMAIN inverse' = Stores
        /\ \A s \in Stores : inverse'[s] \subseteq inverse[s] \cup {pair}
    BY <1>1 DEF IInv, ShopsTyped
  <1>5. JournalsCover'
    <2>1. Covers(coord.journal)
      BY <1>1 DEF IInv, JournalsCover, Journaled
    <2>2. \A s \in Stores : \A v \in inverse'[s] : Covers(v.before)
      BY <1>4, <2>1 DEF IInv, JournalsCover
    <2>3. coord'.at \in Journaled => Covers(coord'.journal)
      BY <1>2, <2>1 DEF Journaled, SameRun
    <2> QED
      BY <2>2, <2>3 DEF JournalsCover, Covers
  <1>6. ShopsTyped' /\ StraysAreLost' /\ TimesCount' /\ FirstIsEarlier'
    BY <1>1, <1>4 DEF IInv, ShopsTyped, StraysAreLost, TimesCount, FirstIsEarlier,
                      Begun, inShops
  <1>7. PlanIsAbsent' /\ ComparesWithFirst'
    BY <1>2 DEF PlanIsAbsent, ComparesWithFirst, Planned, Compares
  <1>8. OriginsAreEarlier'
    BY <1>1, <1>2 DEF IInv, OriginsAreEarlier, NotAfter, Begun, inShops, SameRun
  <1>9. AcceptedInThisRun'
    BY <1>1, <1>2 DEF IInv, AcceptedInThisRun, Planned, Compares
  <1>10. OrdersKeepTheirProducts' /\ AcceptedKeptTheShop'
    BY <1>1 DEF IInv, OrdersKeepTheirProducts, AcceptedKeptTheShop, inShops
  <1> QED
    BY <1>3, <1>5, <1>6, <1>7, <1>8, <1>9, <1>10 DEF IInv

\* After the local shop comes the remote one, of which nothing is accepted.
LEMMA BrowseIInv == ASSUME IInv, Browse PROVE IInv'
  <1>1. UNCHANGED <<inShops, inRecords>> /\ coord.at = "browser"
    BY DEF Browse, At, inShops, inRecords, shops, evidence, ghosts
  <1>2. CASE Here = "local"
    <2>1. /\ coord'.at = "stage" /\ coord'.store = "remote" /\ coord'.i = 0
          /\ coord'.plan = Batch /\ coord'.resume = None
          /\ Fields \subseteq DOMAIN coord'
      BY <1>2 DEF Browse, Off, Fields
    <2>2. CoordTyped'
      BY <2>1 DEF CoordTyped, Stores
    <2>3. PlanIsAbsent' /\ ComparesWithFirst' /\ coord'.at \notin Journaled
      BY <2>1 DEF PlanIsAbsent, ComparesWithFirst, Planned, Compares, Journaled
    <2>4. AcceptedInThisRun'
      BY <1>1, <1>2, <2>1 DEF IInv, AcceptedInThisRun, Here, inRecords
    <2> QED
      BY <1>1, <2>1, <2>2, <2>3, <2>4, CoordinatorIInv
  <1>3. CASE Here # "local"
    BY <1>1, <1>3, StoppedIInv DEF Browse, Stops
  <1> QED
    BY <1>2, <1>3

-----------------------------------------------------------------------------
(* Deaths, lost connections and what goes on without its coordinator.      *)

\* Only what imports by itself, and which shops that happens in, changes.
LEMMA LosesIInv ==
  ASSUME IInv, UNCHANGED <<rows, ordered, edited, times, inRecords>>,
         CoordTyped', ComparesWithFirst', AcceptedInThisRun',
         coord'.at \notin Planned,
         coord'.at \in Journaled => Covers(coord'.journal),
         coord'.resume \in {coord.resume, None},
         stray' \in [Stores -> SUBSET Rows], DOMAIN lost' = Stores, StraysAreLost',
         \A s \in Stores : lost[s] = "stray" => lost'[s] = "stray"
  PROVE  IInv'
  <1> USE DEF inRecords, IInv
  <1>1. ShopsTyped'
    BY DEF ShopsTyped
  <1>2. JournalsCover' /\ PlanIsAbsent'
    BY DEF JournalsCover, Covers, PlanIsAbsent
  <1>3. TimesCount'
    BY DEF TimesCount
  <1>4. FirstIsEarlier'
    BY DEF FirstIsEarlier, Begun
  <1>5. OriginsAreEarlier'
    BY DEF OriginsAreEarlier, NotAfter, Begun
  <1>6. OrdersKeepTheirProducts' /\ AcceptedKeptTheShop'
    BY DEF OrdersKeepTheirProducts, AcceptedKeptTheShop
  <1> QED
    BY <1>1, <1>2, <1>3, <1>4, <1>5, <1>6

\* What outlives its coordinator are batches, in a shop that is marked.
LEMMA OutlivesMarks ==
  ASSUME IInv, Outlives, coord.at \in {"validate", "import"}
  PROVE  /\ stray' \in [Stores -> SUBSET Rows] /\ DOMAIN lost' = Stores
         /\ StraysAreLost'
         /\ \A s \in Stores : lost[s] = "stray" => lost'[s] = "stray"
  <1>1. /\ Here \in Stores /\ stray \in [Stores -> SUBSET Rows]
        /\ DOMAIN lost = Stores
    BY DEF IInv, CoordTyped, ShopsTyped, Here
  <1>2. coord.i \in 1 .. 4 /\ coord.i .. 4 \subseteq 1 .. 4
    BY DEF IInv, CoordTyped
  <1>3. GoesOn \subseteq Rows
    BY <1>2, Batches DEF IInv, CoordTyped, GoesOn
  <1>4. /\ stray' = [stray EXCEPT ![Here] = GoesOn]
        /\ lost' = [lost EXCEPT ![Here] = "stray"]
    BY DEF Outlives
  <1>5. /\ stray' \in [Stores -> SUBSET Rows] /\ DOMAIN lost' = Stores
        /\ lost'[Here] = "stray"
        /\ \A s \in Stores : s # Here => stray'[s] = stray[s] /\ lost'[s] = lost[s]
    BY <1>1, <1>3, <1>4
  <1> QED
    BY <1>5 DEF IInv, StraysAreLost

LEMMA KillIInv == ASSUME IInv, Kill PROVE IInv'
  <1>1. /\ UNCHANGED <<rows, ordered, edited, times, inRecords>>
        /\ coord' = Off /\ coord'.at = "off" /\ coord'.resume = None
    BY DEF Kill, shops, evidence, inRecords, Off
  <1>2. CoordTyped'
    BY <1>1 DEF CoordTyped, Off, Fields, Stores
  <1>3. ComparesWithFirst' /\ AcceptedInThisRun'
    BY <1>1 DEF ComparesWithFirst, AcceptedInThisRun, Compares, Planned
  <1>4. /\ stray' \in [Stores -> SUBSET Rows] /\ DOMAIN lost' = Stores
        /\ StraysAreLost'
        /\ \A s \in Stores : lost[s] = "stray" => lost'[s] = "stray"
    <2>1. CASE Outlives /\ coord.at \in {"validate", "import"}
      BY <2>1, OutlivesMarks
    <2>2. CASE ~(Outlives /\ coord.at \in {"validate", "import"})
      <3>1. /\ lost' = [lost EXCEPT ![Here] = IF @ = "stray" THEN @ ELSE "killed"]
            /\ stray' = stray
        BY <2>2 DEF Kill, At
      <3>2. Here \in Stores /\ DOMAIN lost = Stores
        BY DEF IInv, CoordTyped, ShopsTyped, Here
      <3>3. /\ DOMAIN lost' = Stores
            /\ \A s \in Stores : lost[s] = "stray" => lost'[s] = "stray"
        BY <3>1, <3>2
      <3> QED
        BY <3>1, <3>3 DEF IInv, ShopsTyped, StraysAreLost
    <2> QED
      BY <2>1, <2>2
  <1> QED
    BY <1>1, <1>2, <1>3, <1>4, LosesIInv DEF Planned, Journaled

LEMMA DisconnectIInv == ASSUME IInv, Disconnect PROVE IInv'
  <1>1. /\ UNCHANGED <<rows, ordered, edited, times, inRecords>>
        /\ coord.at \in {"validate", "import"} /\ Goes("inverse")
    BY DEF Disconnect, At, shops, evidence, inRecords
  <1>2. SameRun /\ coord'.at = "inverse" /\ coord'.i = coord.i
    BY <1>1, Gone DEF IInv
  <1>3. CoordTyped' /\ ComparesWithFirst' /\ coord'.at \notin Planned
    BY <1>2 DEF IInv, CoordTyped, ComparesWithFirst, Compares, Planned, SameRun
  <1>4. AcceptedInThisRun'
    BY <1>1, <1>2 DEF IInv, AcceptedInThisRun, Compares, Planned, Here, SameRun,
                      inRecords
  <1>5. Covers(coord'.journal)
    BY <1>1, <1>2 DEF IInv, JournalsCover, Journaled, SameRun
  <1>6. /\ stray' \in [Stores -> SUBSET Rows] /\ DOMAIN lost' = Stores
        /\ StraysAreLost'
        /\ \A s \in Stores : lost[s] = "stray" => lost'[s] = "stray"
    BY <1>1, OutlivesMarks DEF Disconnect
  <1> QED
    BY <1>1, <1>2, <1>3, <1>4, <1>5, <1>6, LosesIInv DEF SameRun

\* An inverse that cannot be made leaves its shop marked, and nothing else.
LEMMA InverseFailsIInv == ASSUME IInv, InverseFails PROVE IInv'
  <1>1. /\ UNCHANGED <<rows, ordered, edited, times, stray, inRecords>>
        /\ coord' = Off /\ coord'.at = "off" /\ coord'.resume = None
    BY DEF InverseFails, Stops, shops, evidence, inRecords, Off
  <1>2. CoordTyped'
    BY <1>1 DEF CoordTyped, Off, Fields, Stores
  <1>3. ComparesWithFirst' /\ AcceptedInThisRun'
    BY <1>1 DEF ComparesWithFirst, AcceptedInThisRun, Compares, Planned
  <1>4. Here \in Stores /\ DOMAIN lost = Stores
    BY DEF IInv, CoordTyped, ShopsTyped, Here
  <1>5. \E word : /\ lost' = [lost EXCEPT ![Here] = word]
                  /\ lost[Here] = "stray" => word = "stray"
    <2>1. lost' = [lost EXCEPT ![Here] =
                      IF coord.journal.rows = rows[Here] \/ @ # "none" THEN @
                      ELSE "no inverse"]
      BY DEF InverseFails
    <2>2. CASE coord.journal.rows = rows[Here] \/ lost[Here] # "none"
      <3>1. lost' = [lost EXCEPT ![Here] = lost[Here]]
        BY <2>1, <2>2
      <3> QED
        BY <3>1
    <2>3. CASE ~(coord.journal.rows = rows[Here] \/ lost[Here] # "none")
      <3>1. lost' = [lost EXCEPT ![Here] = "no inverse"] /\ lost[Here] # "stray"
        BY <2>1, <2>3
      <3> QED
        BY <3>1
    <2> QED
      BY <2>2, <2>3
  <1>6. /\ DOMAIN lost' = Stores
        /\ \A s \in Stores : lost[s] = "stray" => lost'[s] = "stray"
    BY <1>4, <1>5
  <1>7. stray' \in [Stores -> SUBSET Rows] /\ StraysAreLost'
    BY <1>1, <1>6 DEF IInv, ShopsTyped, StraysAreLost
  <1> QED
    BY <1>1, <1>2, <1>3, <1>6, <1>7, LosesIInv DEF Planned, Journaled

\* A process that goes on is in a shop that counts as lost.
LEMMA StrayIInv == ASSUME IInv, NEW s \in Stores, StrayImports(s) PROVE IInv'
  <1>1. PICK some \in (SUBSET stray[s]) \ {{}} :
            Imports(s, some) /\ stray' = [stray EXCEPT ![s] = @ \ some]
    BY DEF StrayImports
  <1>2. /\ UNCHANGED <<ordered, edited, coord, lost>> /\ UNCHANGED inRecords
    BY DEF StrayImports, evidence, inRecords
  <1>3. some # {} /\ some \subseteq stray[s] /\ some \subseteq Rows
    <2>1. some # {} /\ some \subseteq stray[s]
      OBVIOUS
    <2>2. stray[s] \subseteq Rows
      BY DEF IInv, ShopsTyped
    <2> QED
      BY <2>1, <2>2
  <1>4. lost[s] = "stray"
    BY <1>3 DEF IInv, StraysAreLost
  <1>5. /\ rows' \in [Stores -> SUBSET Rows]
        /\ times' \in [Stores -> [New -> Nat]]
        /\ stray' \in [Stores -> SUBSET Rows]
        /\ \A t \in Stores : rows[t] \subseteq rows'[t] /\ stray'[t] \subseteq stray[t]
        /\ \A t \in Stores : t # s => rows'[t] = rows[t] /\ times'[t] = times[t]
    BY <1>1, <1>3 DEF Imports, IInv, ShopsTyped
  <1>6. ShopsTyped' /\ CoordTyped'
    BY <1>2, <1>5 DEF IInv, ShopsTyped, CoordTyped, inRecords
  <1>7. JournalsCover' /\ StraysAreLost'
    BY <1>2, <1>5 DEF IInv, JournalsCover, Covers, StraysAreLost, inRecords
  <1>8. TimesCount'
    BY <1>2, <1>4, <1>5 DEF IInv, TimesCount
  <1>9. PlanIsAbsent'
    <2>1. lost[Here] # "stray" => Here \in Stores /\ Here # s
      BY <1>4 DEF IInv, CoordTyped, Here
    <2> QED
      BY <1>2, <1>5, <2>1 DEF IInv, PlanIsAbsent, Here
  <1>10. FirstIsEarlier' /\ OriginsAreEarlier'
    BY <1>2 DEF IInv, FirstIsEarlier, OriginsAreEarlier, NotAfter, Begun, inRecords
  <1>11. ComparesWithFirst' /\ AcceptedInThisRun'
    BY <1>2 DEF IInv, ComparesWithFirst, Resume, Origin, Here, Begun,
                AcceptedInThisRun, inRecords
  <1>12. OrdersKeepTheirProducts' /\ AcceptedKeptTheShop'
    BY <1>2, <1>5 DEF IInv, OrdersKeepTheirProducts, AcceptedKeptTheShop, inRecords
  <1> QED
    BY <1>6, <1>7, <1>8, <1>9, <1>10, <1>11, <1>12 DEF IInv

-----------------------------------------------------------------------------
(* People.                                                                 *)

\* The origin of a reconciliation is from before the first import.
LEMMA ReconcileIInv == ASSUME IInv, Reconcile \/ ResumeMedia PROVE IInv'
  <1>1. /\ UNCHANGED <<inShops, coord, inverse, native, accepted, first>>
        /\ native["local"] # None
        /\ \/ native["local"].fresh /\ receipt'.origin = native["local"].base
           \/ receipt'.origin = first["local"]
    BY DEF Reconcile, ResumeMedia, Failed, inShops, shops, ghosts
  <1>2. NotAfter(receipt'.origin)
    BY <1>1 DEF IInv, OriginsAreEarlier, NotAfter
  <1>3. OriginsAreEarlier'
    BY <1>1, <1>2 DEF IInv, OriginsAreEarlier, NotAfter, Begun, inShops
  <1>4. ShopsTyped' /\ CoordTyped' /\ JournalsCover' /\ StraysAreLost'
    BY <1>1 DEF IInv, ShopsTyped, CoordTyped, JournalsCover, Covers, StraysAreLost,
                inShops
  <1>5. TimesCount' /\ PlanIsAbsent' /\ FirstIsEarlier'
    BY <1>1 DEF IInv, TimesCount, PlanIsAbsent, Here, FirstIsEarlier, Begun, inShops
  <1>6. ComparesWithFirst' /\ AcceptedInThisRun'
    BY <1>1 DEF IInv, ComparesWithFirst, Resume, Origin, Here, Begun,
                AcceptedInThisRun, inShops
  <1>7. OrdersKeepTheirProducts' /\ AcceptedKeptTheShop'
    BY <1>1 DEF IInv, OrdersKeepTheirProducts, AcceptedKeptTheShop, inShops
  <1> QED
    BY <1>3, <1>4, <1>5, <1>6, <1>7 DEF IInv

\* A restoration is to a journal that lists everything that was ordered.
LEMMA RestoreIInv == ASSUME IInv, NEW s \in Stores, Restore(s) PROVE IInv'
  <1>1. PICK v \in inverse[s] :
            /\ MayRestore(s, v)
            /\ rows' = [rows EXCEPT ![s] = v.before.rows]
            /\ edited' = [edited EXCEPT ![s] = v.before.edited]
            /\ times' = [times EXCEPT ![s] =
                  [r \in New |-> IF r \in v.before.rows THEN @[r] ELSE 0]]
    BY DEF Restore
  <1>2. /\ UNCHANGED <<ordered, coord, stray, lost>> /\ UNCHANGED inRecords
        /\ coord.at = "off"
    BY DEF Restore, At, evidence, inRecords
  <1>3. Covers(v.before)
    BY DEF IInv, JournalsCover
  <1>4. ordered[s] = v.before.ordered
    BY <1>1 DEF MayRestore, Journal
  <1>5. /\ rows' \in [Stores -> SUBSET Rows] /\ edited' \in [Stores -> Nat]
        /\ rows'[s] = v.before.rows
        /\ \A t \in Stores : t # s => rows'[t] = rows[t]
    BY <1>1, <1>3 DEF IInv, ShopsTyped, Covers
  <1>6. /\ times' \in [Stores -> [New -> Nat]]
        /\ \A t \in Stores : t # s => times'[t] = times[t]
        /\ \A r \in New : times'[s][r] = IF r \in rows'[s] THEN times[s][r] ELSE 0
    BY <1>1, <1>5 DEF IInv, ShopsTyped
  <1>7. ShopsTyped' /\ CoordTyped'
    BY <1>2, <1>5, <1>6 DEF IInv, ShopsTyped, CoordTyped, inRecords
  <1>8. JournalsCover' /\ StraysAreLost'
    BY <1>2 DEF IInv, JournalsCover, Covers, StraysAreLost, inRecords
  <1>9. TimesCount'
    BY <1>2, <1>5, <1>6 DEF IInv, TimesCount
  <1>10. PlanIsAbsent'
    BY <1>2 DEF PlanIsAbsent, Planned
  <1>11. FirstIsEarlier' /\ OriginsAreEarlier'
    BY <1>2 DEF IInv, FirstIsEarlier, OriginsAreEarlier, NotAfter, Begun, inRecords
  <1>12. ComparesWithFirst' /\ AcceptedInThisRun'
    BY <1>2 DEF ComparesWithFirst, AcceptedInThisRun, Compares, Planned
  <1>13. OrdersKeepTheirProducts'
    BY <1>2, <1>3, <1>4, <1>5 DEF IInv, OrdersKeepTheirProducts, Covers
  <1>14. AcceptedKeptTheShop'
    BY <1>2 DEF IInv, AcceptedKeptTheShop, inRecords
  <1> QED
    BY <1>7, <1>8, <1>9, <1>10, <1>11, <1>12, <1>13, <1>14 DEF IInv

-----------------------------------------------------------------------------
(* The shops' own life.                                                    *)

\* Only installed products are ordered, and orders only become more.
LEMMA OrderIInv ==
  ASSUME IInv, NEW s \in Stores, NEW r \in Bought, Order(s, r) PROVE IInv'
  <1>1. /\ UNCHANGED <<rows, edited, times, coord, stray, lost>>
        /\ UNCHANGED inRecords
        /\ r \in rows[s] \cup {"old"}
        /\ ordered' = [ordered EXCEPT ![s] = @ \cup {r}]
    BY DEF Order, evidence, ghosts, inRecords
  <1>2. /\ ordered' \in [Stores -> SUBSET Bought]
        /\ \A t \in Stores : ordered[t] \subseteq ordered'[t]
        /\ \A t \in Stores : t # s => ordered'[t] = ordered[t]
        /\ ordered'[s] = ordered[s] \cup {r}
    BY <1>1 DEF IInv, ShopsTyped
  <1>3. ShopsTyped' /\ CoordTyped'
    BY <1>1, <1>2 DEF IInv, ShopsTyped, CoordTyped, inRecords
  <1>4. JournalsCover' /\ StraysAreLost'
    BY <1>1 DEF IInv, JournalsCover, Covers, StraysAreLost, inRecords
  <1>5. TimesCount' /\ PlanIsAbsent'
    BY <1>1 DEF IInv, TimesCount, PlanIsAbsent, Here
  <1>6. \A t \in Stores : Begun(t) => Begun(t)'
    BY <1>1, <1>2 DEF Begun, inRecords
  <1>7. FirstIsEarlier'
    BY <1>1, <1>6 DEF IInv, FirstIsEarlier, inRecords
  <1>8. \A o : NotAfter(o) => NotAfter(o)'
    BY <1>1, <1>6 DEF NotAfter, inRecords, Stores
  <1>9. OriginsAreEarlier'
    BY <1>1, <1>6, <1>8 DEF IInv, OriginsAreEarlier, inRecords, Stores
  <1>10. ComparesWithFirst'
    <2>1. Here \in Stores
      BY DEF IInv, CoordTyped, Here
    <2> QED
      BY <1>1, <1>6, <2>1 DEF IInv, ComparesWithFirst, Resume, Origin, Here, inRecords
  <1>11. AcceptedInThisRun' /\ AcceptedKeptTheShop'
    BY <1>1 DEF IInv, AcceptedInThisRun, AcceptedKeptTheShop, Here, inRecords
  <1>12. OrdersKeepTheirProducts'
    BY <1>1, <1>2, Batches DEF IInv, OrdersKeepTheirProducts
  <1> QED
    BY <1>3, <1>4, <1>5, <1>7, <1>9, <1>10, <1>11, <1>12 DEF IInv

\* A step that at most edits products, or that changes nothing here.
LEMMA EditsIInv ==
  ASSUME IInv, edited' \in [Stores -> Nat],
         UNCHANGED <<rows, ordered, times, coord, stray, lost>>,
         UNCHANGED inRecords
  PROVE  IInv'
  <1> USE DEF inRecords, IInv
  <1>1. ShopsTyped' /\ CoordTyped' /\ JournalsCover' /\ StraysAreLost'
    BY DEF ShopsTyped, CoordTyped, JournalsCover, Covers, StraysAreLost
  <1>2. TimesCount' /\ PlanIsAbsent' /\ FirstIsEarlier'
    BY DEF TimesCount, PlanIsAbsent, Here, FirstIsEarlier, Begun
  <1>3. OriginsAreEarlier' /\ ComparesWithFirst'
    BY DEF OriginsAreEarlier, NotAfter, Begun, ComparesWithFirst, Resume, Origin, Here
  <1>4. AcceptedInThisRun' /\ OrdersKeepTheirProducts' /\ AcceptedKeptTheShop'
    BY DEF AcceptedInThisRun, Here, OrdersKeepTheirProducts, AcceptedKeptTheShop
  <1> QED
    BY <1>1, <1>2, <1>3, <1>4

LEMMA EditProductIInv ==
  ASSUME IInv, NEW s \in Stores, EditProduct(s) PROVE IInv'
  <1>1. /\ UNCHANGED <<rows, ordered, times, coord, stray, lost>>
        /\ UNCHANGED inRecords
        /\ edited' = [edited EXCEPT ![s] = @ + 1]
    BY DEF EditProduct, evidence, ghosts, inRecords
  <1>2. edited' \in [Stores -> Nat]
    BY <1>1 DEF IInv, ShopsTyped
  <1> QED
    BY <1>1, <1>2, EditsIInv

LEMMA StepIInv == ASSUME IInv, InstallNext PROVE IInv'
  <1>1. CASE Launches
    BY <1>1, LaunchIInv DEF Launches
  <1>2. CASE Coordinates
    BY <1>2, StageIInv, BackupIInv, StopsIInv, CheckIInv, MovesIInv, ImportIInv,
       VerifyIInv, InverseIInv, BrowseIInv DEF Coordinates
  <1>3. CASE BatchFails \/ StepFails \/ BrowseFails
    BY <1>3, BatchFailsIInv, MovesIInv, StopsIInv
  <1>4. CASE Kill \/ Disconnect \/ InverseFails
    BY <1>4, KillIInv, DisconnectIInv, InverseFailsIInv
  <1>5. CASE Reconcile \/ ResumeMedia
    BY <1>5, ReconcileIInv
  <1>6. ASSUME NEW s \in Stores, StrayImports(s) \/ Restore(s) \/ EditProduct(s)
        PROVE  IInv'
    BY <1>6, StrayIInv, RestoreIInv, EditProductIInv
  <1>7. ASSUME NEW s \in Stores, NEW r \in Bought, Order(s, r)
        PROVE  IInv'
    BY <1>7, OrderIInv
  <1> QED
    BY <1>1, <1>2, <1>3, <1>4, <1>5, <1>6, <1>7 DEF InstallNext

LEMMA StutterIInv == ASSUME IInv, UNCHANGED installVars PROVE IInv'
  <1>1. /\ UNCHANGED <<rows, ordered, times, coord, stray, lost>>
        /\ UNCHANGED inRecords /\ edited' = edited
    BY DEF installVars, shops, evidence, ghosts, inRecords
  <1>2. edited' \in [Stores -> Nat]
    BY <1>1 DEF IInv, ShopsTyped
  <1> QED
    BY <1>1, <1>2, EditsIInv

-----------------------------------------------------------------------------
(* The results.                                                            *)

(* What the theorems below follow from: the types, and how journals, plans,*)
(* origins and comparisons relate to the shops, in every state of the      *)
(* coordinator and of the persons after it (finish_expansion_project.py).  *)
THEOREM InstallInvariance == InstallSpec => []IInv
  <1>1. InstallInit => IInv
    BY InitIInv
  <1>2. IInv /\ [InstallNext]_installVars => IInv'
    BY StepIInv, StutterIInv
  <1> QED
    BY <1>1, <1>2, PTL DEF InstallSpec

(* However runs, failures, orders and restorations follow each other, no   *)
(* restoration removes a product that was ordered: MayRestore looks at the *)
(* orders before and after (restore_expansion_catalog.php).                *)
THEOREM OrderedIsInstalled == InstallSpec => []OrdersKeepTheirProducts
  <1>1. IInv => OrdersKeepTheirProducts
    BY DEF IInv
  <1> QED
    BY <1>1, InstallInvariance, PTL

(* No run, resumption or repeated run imports a product that is there,     *)
(* unless an import outlived its coordinator: Check compares the shop with *)
(* the snapshot that the plan was made from (finish_expansion_project.py). *)
THEOREM NothingIsImportedTwice == InstallSpec => []ImportsOnce
  <1>1. IInv => ImportsOnce
    BY DEF IInv, TimesCount, ImportsOnce
  <1> QED
    BY <1>1, InstallInvariance, PTL

(* What verification accepts has the orders of the snapshot before the     *)
(* first import, over resumptions as well: the origin that a person's      *)
(* reconciliation names is never later than that snapshot (compare(),      *)
(* verify_partial()).                                                      *)
THEOREM AcceptedIsUnchanged == InstallSpec => []AcceptedKeptTheShop
  <1>1. IInv => AcceptedKeptTheShop
    BY DEF IInv
  <1> QED
    BY <1>1, InstallInvariance, PTL
=============================================================================
