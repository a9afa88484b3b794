--------------------------- MODULE LiveStorefront ---------------------------
(***************************************************************************)
(* Storefront pages over live search.  The mapper plugin CaptureMappedQuery *)
(* passes every quick search of a page through LiveQueryApplier, which     *)
(* reads a store's current activation once and keeps it, one per store,    *)
(* for the rest of the PHP request.  Administrators apply and undo in the   *)
(* meantime (LiveState), and a read of the activation may fail, which      *)
(* serves the stock query.                                                 *)
(***************************************************************************)
EXTENDS LiveState, Naturals, FiniteSets

CONSTANTS Page,      \* PHP requests of the storefront
          Unread,    \* a store whose activation the page did not read yet
          MaxReads   \* bound on the reads of one store's activation by one page

ASSUME ReadsAssumption == MaxReads \in Nat
ASSUME UnreadAssumption == Unread \notin Configuration \cup {StockSearch}

VARIABLES cache,      \* currentByStore: per page and store, what was read
          answers,    \* per page and store, the configurations of its quick searches
          reads,      \* per page and store, how often the activation was read
          failed,     \* per page, the stores of which a read failed
          liveSince   \* history: per page and store, what was live since it began

pageVars == <<cache, answers, reads, failed, liveSince>>
allVars == <<liveVars, pageVars>>

Served == Configuration \cup {StockSearch}

\* Types of the live state and of what pages keep beside it.
PageTypeOK ==
  /\ serving \in [StoreView -> Served] /\ replaced \in [StoreView -> Served]
  /\ touched \subseteq StoreView
  /\ cache \in [Page -> [StoreView -> Served \cup {Unread}]]
  /\ answers \in [Page -> [StoreView -> SUBSET Served]]
  /\ reads \in [Page -> [StoreView -> 0..MaxReads]]
  /\ failed \in [Page -> SUBSET StoreView]
  /\ liveSince \in [Page -> [StoreView -> SUBSET Served]]

PageInit ==
  /\ LiveInit
  /\ cache = [p \in Page |-> [s \in StoreView |-> Unread]]
  /\ answers = [p \in Page |-> [s \in StoreView |-> {}]]
  /\ reads = [p \in Page |-> [s \in StoreView |-> 0]]
  /\ failed = [p \in Page |-> {}]
  /\ liveSince = [p \in Page |-> [s \in StoreView |-> {StockSearch}]]

\* Administrators go on while pages are rendered.
Administer ==
  /\ LiveNext
  /\ liveSince' = [p \in Page |-> [s \in StoreView |-> liveSince[p][s] \cup {serving'[s]}]]
  /\ UNCHANGED <<cache, answers, reads, failed>>

-----------------------------------------------------------------------------
\* Mutant: one cached activation for all the stores a page emulates.
KeptForAnyStore(p, s) ==
  IF \E t \in StoreView : cache[p][t] # Unread
  THEN cache[p][CHOOSE t \in StoreView : cache[p][t] # Unread]
  ELSE Unread

\* What the page already knows of a store; also that it has no activation.
Kept(p, s) == cache[p][s]

\* Mutant: isset() where array_key_exists() is meant, so that a store without
\* an activation is read again.
KnownIfSet(p, s) == Kept(p, s) \notin {Unread, StockSearch}

Known(p, s) == Kept(p, s) # Unread

\* A new request is served by this page's process.
Begin(p) ==
  /\ cache' = [cache EXCEPT ![p] = [s \in StoreView |-> Unread]]
  /\ answers' = [answers EXCEPT ![p] = [s \in StoreView |-> {}]]
  /\ reads' = [reads EXCEPT ![p] = [s \in StoreView |-> 0]]
  /\ failed' = [failed EXCEPT ![p] = {}]
  /\ liveSince' = [liveSince EXCEPT ![p] = [s \in StoreView |-> {serving[s]}]]
  /\ UNCHANGED liveVars

Answer(p, s, c) == answers' = [answers EXCEPT ![p][s] = @ \cup {c}]

\* A quick search in a store the page already knows.
SearchFromCache(p, s) ==
  /\ Known(p, s)
  /\ Answer(p, s, Kept(p, s))
  /\ UNCHANGED <<liveVars, cache, reads, failed, liveSince>>

Reading(p, s) ==
  /\ ~Known(p, s)
  /\ reads[p][s] < MaxReads
  /\ reads' = [reads EXCEPT ![p][s] = @ + 1]

\* The first quick search in a store reads and keeps its activation.
SearchReading(p, s) ==
  /\ Reading(p, s)
  /\ cache' = [cache EXCEPT ![p][s] = serving[s]]
  /\ Answer(p, s, serving[s])
  /\ UNCHANGED <<liveVars, failed, liveSince>>

\* The read throws: the plugin logs it and keeps the stock query; nothing is
\* remembered, so the next quick search reads again.
SearchReadFails(p, s) ==
  /\ Reading(p, s)
  /\ Answer(p, s, StockSearch)
  /\ failed' = [failed EXCEPT ![p] = @ \cup {s}]
  /\ UNCHANGED <<liveVars, cache, liveSince>>

PageNext ==
  \/ Administer
  \/ \E p \in Page :
       \/ Begin(p)
       \/ \E s \in StoreView :
            SearchFromCache(p, s) \/ SearchReading(p, s) \/ SearchReadFails(p, s)

PageSpec == PageInit /\ [][PageNext]_allVars

-----------------------------------------------------------------------------
(***************************************************************************)
(* Properties                                                              *)
(***************************************************************************)
\* A page answers with stock search or with a configuration that was live for
\* that very store while the page was rendered: nothing of another store, and
\* nothing that was replaced before the page began (LiveQueryApplier::apply).
AnswersWereLive ==
  \A p \in Page, s \in StoreView : answers[p][s] \subseteq liveSince[p][s] \cup {StockSearch}

\* However administrators interleave, all the quick searches of a page in a
\* store use one configuration, apart from stock after a failed read.
OneConfigurationPerPage ==
  \A p \in Page, s \in StoreView :
    /\ Cardinality(answers[p][s] \ {StockSearch}) <= 1
    /\ s \notin failed[p] => Cardinality(answers[p][s]) <= 1
=============================================================================
