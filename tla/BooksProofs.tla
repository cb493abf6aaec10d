------------------------------ MODULE BooksProofs ------------------------------
(***************************************************************************)
(* The books that are kept beside the service.                             *)
(*                                                                         *)
(* ScriptInv: the maps that the stand-alone script has loaded lead to the  *)
(* order itself or to one adopted in its place, and the service's ids are  *)
(* those of its rows, also among what the run has not committed.           *)
(*                                                                         *)
(* LedgerInv: the tables are finite, and a tidy order is BUY or SELL and   *)
(* has no row CLOSE.  With it every report reads the same rows as entries  *)
(* and as exits, so that what is left is about sums: SumFunction is        *)
(* defined by a CHOOSE of a recursive function, and the lemmas give it an  *)
(* element at a time, by the least set or number for which they would fail.*)
(*                                                                         *)
(* StatsInv: what the monthly reports have counted between them is the     *)
(* trades of the months before this one.  Where the drawdown is the        *)
(* largest fall is no invariant of the table but a fact about the fold:    *)
(* CurveInStep holds after each trade, and keeps the highest point of the  *)
(* equity so far and the pair of points it fell furthest between.          *)
(***************************************************************************)
EXTENDS FillsScript, LedgerReports, MonthlyStats, FiniteSetTheorems,
        SequenceTheorems, WellFoundedInduction, TLAPS

(* The stand-alone script. *)

\* A row of the script's is booked truly with these adoptions.
BookedTruly(r, adoptions) ==
  /\ r.by = "script" /\ r.known = "ids"
  /\ \A a \in adoptions : a[1] # r.exec[1]
  => r.order = r.exec[1] /\ r.leg = r.exec[2]

\* Of these rows each is of a fill of its own, and the service's are those seen.
RowsMatchSeen(rows) ==
  /\ \A q, r \in rows : q.exec = r.exec => q = r
  /\ seenIds = {r.exec : r \in {q \in rows : q.by = "service"}}

\* The maps lead to an order itself, or to one that was adopted in its place.
MapsLeadTrue(adoptions) ==
  \A id \in Brokered \X Legs :
    \/ lookup[id] \in {NoMatch, id[1]}
    \/ lookup[id] \in adoptions /\ lookup[id][1] = id[1]

ScriptInv ==
  /\ \A r \in stored : BookedTruly(r, adoptedBy)
  /\ RowsMatchSeen(stored)
  /\ script = "loaded" => MapsLeadTrue(adoptedBy)
  /\ script = "storing" =>
       /\ MapsLeadTrue(tx.adoptedBy)
       /\ \A r \in tx.stored : BookedTruly(r, tx.adoptedBy)
       /\ RowsMatchSeen(tx.stored)

-----------------------------------------------------------------------------
LEMMA ScriptInvInit == ScriptInit => ScriptInv
BY DEF ScriptInit, ScriptInv, RowsMatchSeen

\* What the others do to orders and fills is nothing to the books.
LEMMA OutsideKeeps ==
  /\ ScriptInv
  /\ \/ \E o \in Registered : InsertOrderRow(o) \/ SaveBrokerIds(o)
     \/ \E e \in Executed : BrokerFills(e)
     \/ UNCHANGED scriptVars
  => ScriptInv'
<1> SUFFICES ASSUME ScriptInv,
                    \/ \E o \in Registered : InsertOrderRow(o) \/ SaveBrokerIds(o)
                    \/ \E e \in Executed : BrokerFills(e)
                    \/ UNCHANGED scriptVars
             PROVE  ScriptInv'
  OBVIOUS
<1>1. UNCHANGED <<adoptedBy, stored, seenIds, script, lookup, tx>>
  BY DEF InsertOrderRow, SaveBrokerIds, BrokerFills, scriptVars, run
<1> QED BY <1>1 DEF ScriptInv, MapsLeadTrue, BookedTruly, RowsMatchSeen

\* What a pass that is not undone adds.
LEMMA PassAdds ==
  ASSUME ServiceSyncs
  PROVE  /\ script # "storing"
         /\ UNCHANGED <<record, ibParent, adoptedBy, filled, run>>
         /\ \/ UNCHANGED <<stored, seenIds>>
            \/ \E new \in SUBSET filled :
                 /\ \A e \in new : IdLeadsTo(e).order # NoMatch
                 /\ \A r \in stored : r.exec \notin new
                 /\ stored' = stored \cup {ServiceRow(e) : e \in new}
                 /\ seenIds' = seenIds \cup new
<1>1. PICK window \in SUBSET filled :
        \/ UNCHANGED <<stored, seenIds>>
        \/ /\ ~ \E r \in stored : r.exec \in NewIn(window)
           /\ stored' = stored \cup {ServiceRow(e) : e \in NewIn(window)}
           /\ seenIds' = seenIds \cup NewIn(window)
  BY DEF ServiceSyncs
<1>2. /\ NewIn(window) \in SUBSET filled
      /\ \A e \in NewIn(window) : IdLeadsTo(e).order # NoMatch
  BY DEF NewIn
<1> QED BY <1>1, <1>2 DEF ServiceSyncs

LEMMA ServiceKeeps == ScriptInv /\ ServiceSyncs => ScriptInv'
<1> SUFFICES ASSUME ScriptInv, ServiceSyncs PROVE ScriptInv'
  OBVIOUS
<1>1. script # "storing" /\ UNCHANGED <<adoptedBy, script, lookup, tx>>
  BY PassAdds DEF run
<1>2. CASE UNCHANGED <<stored, seenIds>>
  BY <1>1, <1>2 DEF ScriptInv, MapsLeadTrue, BookedTruly, RowsMatchSeen
<1>3. ASSUME NEW new \in SUBSET filled,
             \A r \in stored : r.exec \notin new,
             stored' = stored \cup {ServiceRow(e) : e \in new},
             seenIds' = seenIds \cup new
      PROVE  ScriptInv'
  <2>1. \A e \in new : ServiceRow(e).exec = e /\ ServiceRow(e).by = "service"
    BY DEF ServiceRow
  <2>2. \A r \in stored' : BookedTruly(r, adoptedBy)
    BY <1>3, <2>1 DEF ScriptInv, BookedTruly
  <2>3. \A q, r \in stored' : q.exec = r.exec => q = r
    BY <1>3, <2>1 DEF ScriptInv, RowsMatchSeen
  <2>4. seenIds' = {r.exec : r \in {q \in stored' : q.by = "service"}}
    BY <1>3, <2>1 DEF ScriptInv, RowsMatchSeen
  <2> QED
    BY <1>1, <2>2, <2>3, <2>4
       DEF ScriptInv, MapsLeadTrue, BookedTruly, RowsMatchSeen
<1> QED BY <1>2, <1>3, PassAdds

LEMMA StartKeeps == ScriptInv /\ StartScript => ScriptInv'
<1> SUFFICES ASSUME ScriptInv, StartScript PROVE ScriptInv'
  OBVIOUS
<1>1. /\ UNCHANGED <<adoptedBy, stored, seenIds, tx>>
      /\ script' = "loaded"
      /\ lookup' = LoadOrdersMaps
  BY DEF StartScript
<1>2. ASSUME NEW id \in Brokered \X Legs
      PROVE  \/ LoadOrdersMaps[id] \in {NoMatch, id[1]}
             \/ LoadOrdersMaps[id] \in adoptedBy /\ LoadOrdersMaps[id][1] = id[1]
  <2> DEFINE adoptions == {a \in adoptedBy :
                         a[1] = id[1] /\ (id[1] \in Foreign => a[2] = id[2])}
  <2>1. LoadOrdersMaps[id] =
          CASE adoptions # {} -> CHOOSE a \in adoptions : TRUE
            [] adoptions = {} /\ record[id[1]] # "none" -> id[1]
            [] OTHER -> NoMatch
    BY DEF LoadOrdersMaps
  <2>2. adoptions # {} => (CHOOSE a \in adoptions : TRUE) \in adoptions
    OBVIOUS
  <2> QED BY <2>1, <2>2
<1>3. MapsLeadTrue(adoptedBy)'
  BY <1>1, <1>2 DEF MapsLeadTrue
<1> QED BY <1>1, <1>3 DEF ScriptInv, BookedTruly, RowsMatchSeen

LEMMA FetchExecutionsKeeps == ScriptInv /\ FetchExecutions => ScriptInv'
<1> SUFFICES ASSUME ScriptInv, FetchExecutions PROVE ScriptInv'
  OBVIOUS
<1>1. /\ UNCHANGED <<adoptedBy, stored, seenIds, lookup>>
      /\ tx'.adoptedBy = adoptedBy /\ tx'.stored = stored
      /\ script = "loaded" /\ script' = "storing"
  BY DEF FetchExecutions
<1> QED BY <1>1 DEF ScriptInv, MapsLeadTrue, BookedTruly, RowsMatchSeen

LEMMA EndKeeps == ScriptInv /\ (CommitRun \/ ScriptDies) => ScriptInv'
<1> SUFFICES ASSUME ScriptInv, CommitRun \/ ScriptDies PROVE ScriptInv'
  OBVIOUS
<1>1. script' = "idle" /\ UNCHANGED seenIds
  BY DEF CommitRun, ScriptDies, EndRun
<1>2. \/ UNCHANGED <<adoptedBy, stored>>
      \/ /\ script = "storing"
         /\ adoptedBy' = tx.adoptedBy /\ stored' = tx.stored
  BY DEF CommitRun, ScriptDies
<1> QED BY <1>1, <1>2 DEF ScriptInv, BookedTruly, RowsMatchSeen

LEMMA StoreFillKeeps ==
  ScriptInv /\ (\E e \in Executed : StoreFill(e)) => ScriptInv'
<1> SUFFICES ASSUME ScriptInv, NEW e \in Executed, StoreFill(e)
             PROVE  ScriptInv'
  OBVIOUS
<1> DEFINE new   == MatchedOrder(e) = NoMatch /\ adopt
           order == IF new THEN e ELSE MatchedOrder(e)
           row   == [exec |-> e, order |-> order, leg |-> LegOf(e, order),
                     by |-> "script", known |-> asRead[e[1]]]
<1>1. /\ script = "storing"
      /\ UNCHANGED <<adoptedBy, stored, seenIds, asRead, script>>
      /\ lookup' = IF new THEN [id \in Brokered \X Legs |->
                                  IF id[1] = e[1]
                                     /\ (e[1] \in Foreign => id[2] = e[2])
                                    THEN e ELSE lookup[id]]
                          ELSE lookup
      /\ \/ /\ order = NoMatch /\ tx' = tx
         \/ /\ order # NoMatch
            /\ tx'.adoptedBy = tx.adoptedBy \cup (IF new THEN {e} ELSE {})
            /\ \/ tx'.stored = tx.stored
               \/ /\ \A r \in tx.stored : r.exec # e
                  /\ tx'.stored = tx.stored \cup {row}
  BY DEF StoreFill, AdoptOrder, InsertExecution
<1>2. e[1] \in Brokered /\ <<e[1], e[2]>> \in Brokered \X Legs
  BY DEF Executed
<1>3. /\ MapsLeadTrue(tx.adoptedBy) /\ RowsMatchSeen(tx.stored)
      /\ \A r \in tx.stored : BookedTruly(r, tx.adoptedBy)
  BY <1>1 DEF ScriptInv
<1>4. CASE order = NoMatch
  <2>1. UNCHANGED <<adoptedBy, stored, seenIds, script, tx>>
    BY <1>1, <1>4
  <2>2. ~new
    BY <1>4, ScriptConstants
  <2>3. lookup' = lookup
    BY <1>1, <2>2
  <2> QED BY <2>1, <2>3 DEF ScriptInv, MapsLeadTrue, BookedTruly, RowsMatchSeen
<1>5. CASE order # NoMatch
  <2>1. /\ tx'.adoptedBy = tx.adoptedBy \cup (IF new THEN {e} ELSE {})
        /\ \/ tx'.stored = tx.stored
           \/ /\ \A r \in tx.stored : r.exec # e
              /\ tx'.stored = tx.stored \cup {row}
    BY <1>1, <1>5
  <2>2. MapsLeadTrue(tx.adoptedBy)'
    <3>1. CASE new
      BY <1>1, <1>3, <2>1, <3>1 DEF MapsLeadTrue
    <3>2. CASE ~new
      BY <1>1, <1>3, <2>1, <3>2 DEF MapsLeadTrue
    <3> QED BY <3>1, <3>2
  <2>3. BookedTruly(row, tx'.adoptedBy)
    <3>1. row.by = "script" /\ row.exec = e
          /\ row.order = order /\ row.leg = LegOf(e, order)
          /\ row.known = asRead[e[1]]
      OBVIOUS
    <3> HIDE DEF row
    <3> SUFFICES ASSUME row.known = "ids",
                        \A a \in tx'.adoptedBy : a[1] # e[1]
                 PROVE  order = e[1] /\ LegOf(e, order) = e[2]
      BY <3>1 DEF BookedTruly
    <3>2. ~new
      BY <2>1
    <3>3. order = lookup[<<e[1], e[2]>>]
      BY <3>2 DEF MatchedOrder
    <3>4. order = e[1]
      BY <1>2, <1>3, <1>5, <2>1, <3>3 DEF MapsLeadTrue
    <3> QED BY <1>2, <3>1, <3>4 DEF LegOf
  <2>4. \A r \in tx.stored : BookedTruly(r, tx'.adoptedBy)
    BY <1>3, <2>1 DEF BookedTruly
  <2>5. row.exec = e /\ row.by = "script"
    OBVIOUS
  <2> HIDE DEF row
  <2>6. \A r \in tx'.stored : BookedTruly(r, tx'.adoptedBy)
    BY <2>1, <2>3, <2>4
  <2>7. RowsMatchSeen(tx.stored)'
    BY <1>1, <1>3, <2>1, <2>5 DEF RowsMatchSeen
  <2> QED
    BY <1>1, <2>2, <2>6, <2>7 DEF ScriptInv, MapsLeadTrue, BookedTruly, RowsMatchSeen
<1> QED BY <1>4, <1>5

LEMMA ScriptInvStep == ScriptInv /\ [ScriptNext]_scriptVars => ScriptInv'
BY OutsideKeeps, ServiceKeeps, StartKeeps, FetchExecutionsKeeps, EndKeeps,
   StoreFillKeeps DEF ScriptNext

-----------------------------------------------------------------------------
\* Whatever the executor and the service do beside it, and wherever a run ends,
\* the script books the fills of the orders it knows on them and their legs.
THEOREM ScriptBooksStayTrue == ScriptSpec => []ScriptBooksTrue
<1>1. ScriptInv => ScriptBooksTrue
  BY DEF ScriptInv, BookedTruly, ScriptBooksTrue
<1> QED BY <1>1, ScriptInvInit, ScriptInvStep, PTL DEF ScriptSpec

\* Wherever the script's run and the service's passes meet, break off or are
\* undone, no fill is stored twice, and the service has seen what its own rows
\* are of and never what the script was the first to store.
THEOREM FillsAreBookedOnce == ScriptSpec => []OneRowPerFill
<1>1. ScriptInv => OneRowPerFill
  BY DEF ScriptInv, RowsMatchSeen, OneRowPerFill
<1> QED BY <1>1, ScriptInvInit, ScriptInvStep, PTL DEF ScriptSpec

-----------------------------------------------------------------------------
LEMMA ScriptTypesInit == ScriptInit => ScriptTypeOK
<1> SUFFICES ASSUME ScriptInit PROVE ScriptTypeOK
  OBVIOUS
<1>1. NoMaps \in [Brokered \X Legs -> Rows]
  BY DEF NoMaps, Rows
<1> QED BY <1>1 DEF ScriptInit, ScriptTypeOK, NoTransaction

LEMMA ScriptTypesStep == ScriptTypeOK /\ [ScriptNext]_scriptVars => ScriptTypeOK'
<1> SUFFICES ASSUME ScriptTypeOK, [ScriptNext]_scriptVars PROVE ScriptTypeOK'
  OBVIOUS
<1>1. ASSUME NEW o \in Registered, InsertOrderRow(o) \/ SaveBrokerIds(o)
      PROVE  ScriptTypeOK'
  <2>1. /\ UNCHANGED <<ibParent, adoptedBy, stored, seenIds, filled, run>>
        /\ record' \in [Brokered -> {"none", "ref", "ids"}]
    BY <1>1 DEF InsertOrderRow, SaveBrokerIds, ScriptTypeOK, Brokered
  <2> QED BY <2>1 DEF ScriptTypeOK, run
<1>2. ASSUME NEW e \in Executed, BrokerFills(e) PROVE ScriptTypeOK'
  BY <1>2 DEF BrokerFills, ScriptTypeOK, run
<1>3. CASE ServiceSyncs
  <2>1. ASSUME NEW e \in filled, IdLeadsTo(e).order # NoMatch
        PROVE  ServiceRow(e) \in StoredRows
    <3>1. e \in Executed /\ e[1] \in Brokered /\ e[2] \in Legs
      BY DEF ScriptTypeOK, Executed
    <3>2. /\ IdLeadsTo(e).order \in Brokered \cup Executed \cup {NoMatch}
          /\ IdLeadsTo(e).leg \in Legs
      <4> DEFINE adoptions == {a \in adoptedBy : a[1] = e[1] /\ a[2] = e[2]}
      <4>1. adoptions # {} => (CHOOSE a \in adoptions : TRUE) \in Executed
        BY DEF ScriptTypeOK
      <4>2. PICK c : c = CHOOSE a \in adoptions : TRUE
        OBVIOUS
      <4>3. IdLeadsTo(e) =
              CASE adoptions # {} -> [order |-> c, leg |-> "parent"]
                [] adoptions = {} /\ record[e[1]] = "ids" ->
                     [order |-> e[1], leg |-> e[2]]
                [] adoptions = {} /\ record[e[1]] # "ids" /\ ibParent[e[1]] = e[2] ->
                     [order |-> e[1], leg |-> "parent"]
                [] OTHER -> [order |-> NoMatch, leg |-> "parent"]
        BY <4>2, Zenon DEF IdLeadsTo
      <4>4. adoptions # {} => c \in Executed
        BY <4>1, <4>2, Zenon
      <4> HIDE DEF adoptions
      <4> QED BY <3>1, <4>3, <4>4 DEF Legs
    <3> QED BY <2>1, <3>1, <3>2 DEF ServiceRow, StoredRows, ScriptTypeOK
  <2>2. /\ UNCHANGED <<record, ibParent, adoptedBy, filled, run>>
        /\ stored' \subseteq StoredRows /\ seenIds' \subseteq filled
    BY <1>3, <2>1, PassAdds DEF ScriptTypeOK
  <2> QED BY <2>2 DEF ScriptTypeOK, run
<1>4. CASE StartScript
  <2>1. adopt' \in BOOLEAN
    BY <1>4 DEF StartScript, Setting
  <2>2. ASSUME NEW id \in Brokered \X Legs PROVE LoadOrdersMaps[id] \in Rows
    <3> DEFINE adoptions == {a \in adoptedBy :
                           a[1] = id[1] /\ (id[1] \in Foreign => a[2] = id[2])}
    <3>1. LoadOrdersMaps[id] =
            CASE adoptions # {} -> CHOOSE a \in adoptions : TRUE
              [] adoptions = {} /\ record[id[1]] # "none" -> id[1]
              [] OTHER -> NoMatch
      BY DEF LoadOrdersMaps
    <3>2. adoptions # {} => (CHOOSE a \in adoptions : TRUE) \in Executed
      BY DEF ScriptTypeOK
    <3> HIDE DEF adoptions
    <3> QED BY <3>1, <3>2 DEF Rows
  <2>3. LoadOrdersMaps \in [Brokered \X Legs -> Rows]
    BY <2>2 DEF LoadOrdersMaps
  <2> QED BY <1>4, <2>1, <2>3 DEF StartScript, ScriptTypeOK
<1>5. CASE FetchExecutions
  BY <1>5 DEF FetchExecutions, ScriptTypeOK
<1>6. ASSUME NEW e \in Executed, StoreFill(e) PROVE ScriptTypeOK'
  <2> DEFINE new   == MatchedOrder(e) = NoMatch /\ adopt
             order == IF new THEN e ELSE MatchedOrder(e)
             row   == [exec |-> e, order |-> order, leg |-> LegOf(e, order),
                       by |-> "script", known |-> asRead[e[1]]]
  <2>1. /\ unsaved' = unsaved \ {e} /\ e \in unsaved
        /\ UNCHANGED <<record, ibParent, adoptedBy, stored, seenIds, filled,
                       script, adopt, asRead>>
        /\ lookup' = IF new THEN [id \in Brokered \X Legs |->
                                    IF id[1] = e[1]
                                       /\ (e[1] \in Foreign => id[2] = e[2])
                                      THEN e ELSE lookup[id]]
                            ELSE lookup
        /\ \/ tx' = tx
           \/ /\ order # NoMatch
              /\ tx'.ibParent = IbParentIfEmpty(e, order)
              /\ tx'.adoptedBy = tx.adoptedBy \cup (IF new THEN {e} ELSE {})
              /\ tx'.stored \in {tx.stored, tx.stored \cup {row}}
    BY <1>6 DEF StoreFill, AdoptOrder, InsertExecution
  <2>2. e \in filled /\ e[1] \in Brokered /\ e[2] \in Legs
    BY <2>1 DEF ScriptTypeOK, Executed
  <2>3. lookup' \in [Brokered \X Legs -> Rows]
    BY <2>1 DEF ScriptTypeOK, Rows
  <2>4. order \in Brokered \cup Executed \cup {NoMatch} /\ LegOf(e, order) \in Legs
    BY <2>2 DEF MatchedOrder, ScriptTypeOK, Rows, LegOf, Legs
  <2>5. order # NoMatch => row \in StoredRows
    BY <2>2, <2>4 DEF StoredRows, ScriptTypeOK
  <2>6. IbParentIfEmpty(e, order) \in [Brokered -> Legs \cup {"empty"}]
    BY <2>2 DEF IbParentIfEmpty, ScriptTypeOK
  <2> HIDE DEF row, order, new
  <2>7. /\ tx'.ibParent \in [Brokered -> Legs \cup {"empty"}]
        /\ tx'.adoptedBy \subseteq filled /\ tx'.stored \subseteq StoredRows
    BY <2>1, <2>2, <2>5, <2>6 DEF ScriptTypeOK
  <2> QED BY <2>1, <2>3, <2>7 DEF ScriptTypeOK
<1>7. CASE CommitRun \/ ScriptDies
  <2>1. /\ UNCHANGED <<record, seenIds, filled>>
        /\ script' = "idle" /\ adopt' = FALSE /\ unsaved' = {}
        /\ asRead' = [o \in Brokered |-> "none"]
        /\ lookup' = NoMaps /\ tx' = NoTransaction
        /\ \/ UNCHANGED <<ibParent, adoptedBy, stored>>
           \/ /\ ibParent' = tx.ibParent /\ adoptedBy' = tx.adoptedBy
              /\ stored' = tx.stored
    BY <1>7 DEF CommitRun, ScriptDies, EndRun
  <2>2. NoMaps \in [Brokered \X Legs -> Rows]
    BY DEF NoMaps, Rows
  <2> QED BY <2>1, <2>2 DEF ScriptTypeOK, NoTransaction
<1>8. CASE UNCHANGED scriptVars
  BY <1>8 DEF scriptVars, ScriptTypeOK
<1> QED
  BY <1>1, <1>2, <1>3, <1>4, <1>5, <1>6, <1>7, <1>8 DEF ScriptNext

\* The rows that the script and the service store are of executions that took
\* place, and the maps and the transaction of a run stay what the code takes
\* them for.
THEOREM ScriptTypes == ScriptSpec => []ScriptTypeOK
BY ScriptTypesInit, ScriptTypesStep, PTL DEF ScriptSpec

-----------------------------------------------------------------------------
(* Sums over finite sets. *)

\* Induction over the natural numbers, and over the subsets of a finite set.
LEMMA AllNaturals ==
  ASSUME NEW G, 0 \in G, \A n \in Nat : n \in G => n + 1 \in G
  PROVE  Nat \subseteq G
<1> DEFINE Below == {ss \in Nat \X Nat : ss[1] < ss[2]}
<1>1. IsWellFoundedOn(Below, Nat)
  BY NatLessThanWellFounded, Zenon DEF OpToRel
<1> SUFFICES ASSUME Nat \ G # {} PROVE FALSE
  OBVIOUS
<1>2. PICK m \in Nat \ G : \A n \in Nat \ G : ~ (<<n, m>> \in Below)
  <2> HIDE DEF Below
  <2> QED BY <1>1, WFMin
<1>3. m - 1 \in Nat /\ m - 1 < m
  BY <1>2
<1>4. m - 1 \in G
  BY <1>2, <1>3
<1> QED BY <1>2, <1>3, <1>4

LEMMA AllSubsets ==
  ASSUME NEW U, IsFiniteSet(U), NEW G, {} \in G,
         \A T \in SUBSET U : T # {} /\ (\A x \in T : T \ {x} \in G) => T \in G
  PROVE  SUBSET U \subseteq G
<1> DEFINE R == StrictSubsetOrdering(U)
<1>1. IsWellFoundedOn(R, SUBSET U)
  BY FS_StrictSubsetOrderingWellFounded, FS_FiniteSubsetsOfFinite
<1> SUFFICES ASSUME (SUBSET U) \ G # {} PROVE FALSE
  OBVIOUS
<1>2. PICK T \in (SUBSET U) \ G : \A V \in (SUBSET U) \ G : ~ (<<V, T>> \in R)
  <2> HIDE DEF R
  <2> QED BY <1>1, WFMin
<1>3. T # {}
  BY <1>2
<1>4. ASSUME NEW x \in T PROVE T \ {x} \in G
  <2>1. T \ {x} \in SUBSET U /\ <<T \ {x}, T>> \in R
    BY <1>2 DEF StrictSubsetOrdering
  <2> QED BY <1>2, <2>1
<1> QED BY <1>2, <1>3, <1>4

-----------------------------------------------------------------------------
Chosen(s) == CHOOSE x \in s : TRUE

\* g gives the sum of f over each set of D, or over each subset of S.
SumsOver(g, f, D) ==
  g = [s \in D |-> IF s = {} THEN 0 ELSE f[Chosen(s)] + g[s \ {Chosen(s)}]]

SumsUpTo(g, f, S) == SumsOver(g, f, SUBSET S)

LEMMA SumIsRecursive ==
  ASSUME NEW f, NEW S
  PROVE  SumFunctionOnSet(f, S) = (CHOOSE g : SumsUpTo(g, f, S))[S]
BY DEF SumFunctionOnSet, FoldFunctionOnSet, MapThenFoldSet, SumsUpTo, SumsOver, Chosen

LEMMA SumsExist ==
  ASSUME NEW f, NEW S, IsFiniteSet(S), \A x \in S : f[x] \in Int
  PROVE  \E g \in [SUBSET S -> Int] : SumsUpTo(g, f, S)
<1> DEFINE D(n) == {s \in SUBSET S : Cardinality(s) <= n}
           G == {n \in Nat : \E g \in [D(n) -> Int] : SumsOver(g, f, D(n))}
<1>1. \A s \in SUBSET S : /\ IsFiniteSet(s) /\ Cardinality(s) \in Nat
                          /\ s # {} => Chosen(s) \in s
  BY FS_Subset, FS_CardinalityType DEF Chosen
<1>2. 0 \in G
  <2>1. D(0) = {{}}
    BY <1>1, FS_EmptySet
  <2> DEFINE g == [s \in D(0) |-> 0]
  <2>2. g \in [D(0) -> Int] /\ SumsOver(g, f, D(0))
    BY <2>1 DEF SumsOver
  <2> QED BY <2>2
<1>3. ASSUME NEW n \in Nat, n \in G PROVE n + 1 \in G
  <2>1. PICK g \in [D(n) -> Int] : SumsOver(g, f, D(n))
    BY <1>3
  <2>2. ASSUME NEW s \in D(n + 1), s # {}
        PROVE  f[Chosen(s)] \in Int /\ s \ {Chosen(s)} \in D(n)
    <3>1. s \in SUBSET S /\ Cardinality(s) <= n + 1
      OBVIOUS
    <3>2. Chosen(s) \in s /\ IsFiniteSet(s) /\ Cardinality(s) \in Nat
      <4> HIDE DEF D, G
      <4> QED BY <1>1, <2>2, <3>1
    <3>3. Cardinality(s \ {Chosen(s)}) = Cardinality(s) - 1
      <4> HIDE DEF D, G
      <4> QED BY <3>2, FS_RemoveElement
    <3>4. s \ {Chosen(s)} \in SUBSET S /\ Cardinality(s \ {Chosen(s)}) <= n
      BY <3>1, <3>2, <3>3
    <3> QED BY <1>1, <3>1, <3>2, <3>4
  <2>3. D(n) \subseteq D(n + 1)
    BY <1>1
  <2> HIDE DEF D
  <2> DEFINE h == [s \in D(n + 1) |->
                     IF s = {} THEN 0 ELSE f[Chosen(s)] + g[s \ {Chosen(s)}]]
  <2>4. h \in [D(n + 1) -> Int]
    BY <2>1, <2>2
  <2>5. ASSUME NEW s \in D(n) PROVE h[s] = g[s]
    <3>1. g[s] = IF s = {} THEN 0 ELSE f[Chosen(s)] + g[s \ {Chosen(s)}]
      BY <2>1 DEF SumsOver
    <3> QED BY <2>3, <3>1
  <2>6. SumsOver(h, f, D(n + 1))
    <3>1. \A s \in D(n + 1) : s # {} =>
            h[s \ {Chosen(s)}] = g[s \ {Chosen(s)}]
      BY <2>2, <2>5
    <3> QED BY <3>1 DEF SumsOver
  <2> HIDE DEF h
  <2> QED BY <2>4, <2>6
<1> HIDE DEF D, G
<1>4. Nat \subseteq G
  BY <1>2, <1>3, AllNaturals
<1>5. Cardinality(S) \in Nat
  BY FS_CardinalityType
<1>6. D(Cardinality(S)) = SUBSET S
  BY <1>1, FS_Subset, FS_CardinalityType DEF D
<1> QED BY <1>4, <1>5, <1>6 DEF G, SumsUpTo

\* Two such functions agree where both are defined.
LEMMA SumsAreUnique ==
  ASSUME NEW f, NEW S, IsFiniteSet(S), NEW T, T \subseteq S,
         NEW g, SumsUpTo(g, f, S), NEW h, SumsUpTo(h, f, T)
  PROVE  g[T] = h[T]
<1> DEFINE G == {s \in SUBSET T : g[s] = h[s]}
<1>1. {} \in G
  BY DEF SumsUpTo, SumsOver
<1>2. ASSUME NEW s \in SUBSET T, s # {}, \A x \in s : s \ {x} \in G
      PROVE  s \in G
  <2>1. Chosen(s) \in s
    BY <1>2 DEF Chosen
  <2>2. g[s \ {Chosen(s)}] = h[s \ {Chosen(s)}]
    BY <1>2, <2>1
  <2>3. s \in SUBSET S
    OBVIOUS
  <2>4. g[s] = f[Chosen(s)] + g[s \ {Chosen(s)}]
    BY <1>2, <2>3 DEF SumsUpTo, SumsOver
  <2>5. h[s] = f[Chosen(s)] + h[s \ {Chosen(s)}]
    BY <1>2 DEF SumsUpTo, SumsOver
  <2> QED BY <2>2, <2>4, <2>5
<1>3. IsFiniteSet(T)
  BY FS_Subset
<1> HIDE DEF G
<1>4. SUBSET T \subseteq G
  BY <1>1, <1>2, <1>3, AllSubsets
<1> QED BY <1>4 DEF G

\* A sum is that of one of the elements and the rest.
LEMMA SumOfChosen ==
  ASSUME NEW f, NEW S, IsFiniteSet(S), \A x \in S : f[x] \in Int
  PROVE  /\ SumFunctionOnSet(f, S) \in Int
         /\ S = {} => SumFunctionOnSet(f, S) = 0
         /\ S # {} => SumFunctionOnSet(f, S) =
                        f[Chosen(S)] + SumFunctionOnSet(f, S \ {Chosen(S)})
<1> DEFINE Sums(s) == CHOOSE g : SumsUpTo(g, f, s)
<1>1. ASSUME NEW s \in SUBSET S
      PROVE  /\ SumFunctionOnSet(f, s) = Sums(s)[s]
             /\ SumsUpTo(Sums(s), f, s)
  <2>1. IsFiniteSet(s) /\ \A x \in s : f[x] \in Int
    BY FS_Subset
  <2>2. \E g : SumsUpTo(g, f, s)
    BY <2>1, SumsExist
  <2> QED BY <2>2, SumIsRecursive
<1>2. PICK g \in [SUBSET S -> Int] : SumsUpTo(g, f, S)
  BY SumsExist
<1> HIDE DEF Sums
<1>3. ASSUME NEW s \in SUBSET S PROVE SumFunctionOnSet(f, s) = g[s]
  <2>1. SumsUpTo(Sums(s), f, s) /\ s \subseteq S
    BY <1>1
  <2>2. g[s] = Sums(s)[s]
    BY <1>2, <2>1, SumsAreUnique
  <2> QED BY <1>1, <2>2
<1>4. S \in SUBSET S /\ S \ {Chosen(S)} \in SUBSET S
  OBVIOUS
<1>5. g[S] = IF S = {} THEN 0 ELSE f[Chosen(S)] + g[S \ {Chosen(S)}]
  BY <1>2, <1>4 DEF SumsUpTo, SumsOver
<1> QED BY <1>2, <1>3, <1>4, <1>5

\* It does not matter which.
LEMMA SumOfOneMore ==
  ASSUME NEW f, NEW S, IsFiniteSet(S), \A x \in S : f[x] \in Int,
         NEW a \in S
  PROVE  SumFunctionOnSet(f, S) = f[a] + SumFunctionOnSet(f, S \ {a})
<1> DEFINE G == {s \in SUBSET S : \A x \in s :
                   SumFunctionOnSet(f, s) = f[x] + SumFunctionOnSet(f, s \ {x})}
<1>1. {} \in G
  OBVIOUS
<1>2. ASSUME NEW s \in SUBSET S, s # {}, \A x \in s : s \ {x} \in G
      PROVE  s \in G
  <2> SUFFICES ASSUME NEW x \in s
               PROVE  SumFunctionOnSet(f, s) = f[x] + SumFunctionOnSet(f, s \ {x})
    OBVIOUS
  <2> DEFINE c == Chosen(s)
  <2>1. c \in s
    BY <1>2 DEF Chosen
  <2>2. \A t \in SUBSET s : IsFiniteSet(t) /\ \A y \in t : f[y] \in Int
    BY FS_Subset
  <2>3. SumFunctionOnSet(f, s) = f[c] + SumFunctionOnSet(f, s \ {c})
    BY <1>2, <2>2, SumOfChosen
  <2> HIDE DEF c
  <2>4. CASE x = c
    BY <2>3, <2>4
  <2>5. CASE x # c
    <3>1. SumFunctionOnSet(f, s \ {c}) =
            f[x] + SumFunctionOnSet(f, (s \ {c}) \ {x})
      BY <1>2, <2>1, <2>5
    <3>2. SumFunctionOnSet(f, s \ {x}) =
            f[c] + SumFunctionOnSet(f, (s \ {x}) \ {c})
      BY <1>2, <2>1, <2>5
    <3>3. (s \ {c}) \ {x} = (s \ {x}) \ {c}
      OBVIOUS
    <3>4. SumFunctionOnSet(f, (s \ {c}) \ {x}) \in Int
      BY <2>2, SumOfChosen
    <3>5. f[x] \in Int /\ f[c] \in Int
      BY <2>1, <2>2
    <3> DEFINE rest == SumFunctionOnSet(f, (s \ {c}) \ {x})
    <3>6. SumFunctionOnSet(f, s) = f[c] + (f[x] + rest)
      BY <2>3, <3>1
    <3>7. SumFunctionOnSet(f, s \ {x}) = f[c] + rest
      BY <3>2, <3>3
    <3>8. rest \in Int
      BY <3>4
    <3> HIDE DEF rest
    <3>9. f[c] + (f[x] + rest) = f[x] + (f[c] + rest)
      BY <3>5, <3>8
    <3> QED BY <3>6, <3>7, <3>9
  <2> QED BY <2>4, <2>5
<1> HIDE DEF G
<1>3. SUBSET S \subseteq G
  BY <1>1, <1>2, AllSubsets
<1> QED BY <1>3 DEF G

\* A sum is the same over a part that leaves out nothing but zeros.
LEMMA SumWithoutZeros ==
  ASSUME NEW f, NEW S, IsFiniteSet(S), \A x \in S : f[x] \in Int,
         NEW g, NEW T \in SUBSET S,
         \A x \in T : g[x] = f[x], \A x \in S \ T : f[x] = 0
  PROVE  SumFunctionOnSet(f, S) = SumFunctionOnSet(g, T)
<1> DEFINE G == {s \in SUBSET S :
                   SumFunctionOnSet(f, s) = SumFunctionOnSet(g, s \cap T)}
<1>0. ASSUME NEW s \in SUBSET S
      PROVE  /\ IsFiniteSet(s) /\ \A x \in s : f[x] \in Int
             /\ IsFiniteSet(s \cap T) /\ \A x \in s \cap T : g[x] \in Int
  BY FS_Subset
<1>1. {} \in G
  <2>1. {} \cap T = {} /\ {} \in SUBSET S
    OBVIOUS
  <2>2. SumFunctionOnSet(f, {}) = 0 /\ SumFunctionOnSet(g, {}) = 0
    BY SumOfChosen, FS_EmptySet
  <2> QED BY <2>1, <2>2
<1>2. ASSUME NEW s \in SUBSET S, s # {}, \A x \in s : s \ {x} \in G
      PROVE  s \in G
  <2>1. PICK x \in s : TRUE
    BY <1>2
  <2>2. SumFunctionOnSet(f, s) = f[x] + SumFunctionOnSet(f, s \ {x})
    <3>1. IsFiniteSet(s) /\ \A y \in s : f[y] \in Int
      BY <1>0
    <3> HIDE DEF G
    <3> QED BY <2>1, <3>1, SumOfOneMore
  <2>3. SumFunctionOnSet(f, s \ {x}) = SumFunctionOnSet(g, (s \ {x}) \cap T)
    BY <1>2
  <2>4. CASE x \in T
    <3>1. SumFunctionOnSet(g, s \cap T) =
            g[x] + SumFunctionOnSet(g, (s \cap T) \ {x})
      BY <1>0, <2>4, SumOfOneMore
    <3>2. (s \cap T) \ {x} = (s \ {x}) \cap T
      OBVIOUS
    <3> QED BY <2>2, <2>3, <2>4, <3>1, <3>2
  <2>5. CASE x \notin T
    <3>1. (s \ {x}) \cap T = s \cap T
      BY <2>5
    <3>2. SumFunctionOnSet(g, s \cap T) \in Int
      BY <1>0, SumOfChosen
    <3>3. f[x] = 0
      BY <2>5
    <3>4. SumFunctionOnSet(f, s \ {x}) = SumFunctionOnSet(g, s \cap T)
      BY <2>3, <3>1, Zenon
    <3>5. SumFunctionOnSet(f, s) = SumFunctionOnSet(g, s \cap T)
      BY <2>2, <3>2, <3>3, <3>4
    <3> QED BY <3>5
  <2> HIDE DEF G
  <2> QED BY <2>4, <2>5
<1> HIDE DEF G
<1>3. SUBSET S \subseteq G
  BY <1>1, <1>2, AllSubsets
<1>4. S \cap T = T
  OBVIOUS
<1> QED BY <1>3, <1>4 DEF G

\* Adding to one of the numbers adds to their sum.
LEMMA SumWithOneRaised ==
  ASSUME NEW f, NEW S, IsFiniteSet(S), \A x \in S : f[x] \in Int,
         NEW a \in S, NEW n \in Int, NEW g,
         g[a] = n + f[a], \A x \in S \ {a} : g[x] = f[x]
  PROVE  SumFunctionOnSet(g, S) = n + SumFunctionOnSet(f, S)
<1>1. IsFiniteSet(S \ {a}) /\ \A x \in S : g[x] \in Int
  BY FS_Subset
<1>2. SumFunctionOnSet(f, S) = f[a] + SumFunctionOnSet(f, S \ {a})
  BY SumOfOneMore
<1>3. SumFunctionOnSet(g, S) = g[a] + SumFunctionOnSet(g, S \ {a})
  BY <1>1, SumOfOneMore
<1>4. SumFunctionOnSet(g, S \ {a}) = SumFunctionOnSet(f, S \ {a})
  BY <1>1, SumWithoutZeros
<1>5. SumFunctionOnSet(f, S \ {a}) \in Int
  BY <1>1, SumOfChosen
<1> QED BY <1>2, <1>3, <1>4, <1>5

\* The sums of the groups add up to the sum of all.
LEMMA SumByGroups ==
  ASSUME NEW f, NEW S, IsFiniteSet(S), \A x \in S : f[x] \in Int,
         NEW k, NEW K, IsFiniteSet(K), \A x \in S : k[x] \in K,
         NEW h,
         \A d \in K : h[d] = SumFunctionOnSet(f, {x \in S : k[x] = d})
  PROVE  SumFunctionOnSet(h, K) = SumFunctionOnSet(f, S)
<1> DEFINE Of(s, d) == {x \in s : k[x] = d}
           Groups(s) == [d \in K |-> SumFunctionOnSet(f, Of(s, d))]
           G == {s \in SUBSET S :
                   SumFunctionOnSet(Groups(s), K) = SumFunctionOnSet(f, s)}
<1>0. ASSUME NEW s \in SUBSET S, NEW d
      PROVE  /\ IsFiniteSet(Of(s, d)) /\ \A x \in Of(s, d) : f[x] \in Int
             /\ SumFunctionOnSet(f, Of(s, d)) \in Int
  <2>1. Of(s, d) \subseteq S
    OBVIOUS
  <2>2. IsFiniteSet(Of(s, d)) /\ \A x \in Of(s, d) : f[x] \in Int
    BY <2>1, FS_Subset
  <2> HIDE DEF Of
  <2> QED BY <2>2, SumOfChosen
<1>1. {} \in G
  <2>1. SumFunctionOnSet(f, {}) = 0
    BY SumOfChosen, FS_EmptySet
  <2>2. \A d \in K : Groups({})[d] = 0
    <3>1. \A d \in K : Of({}, d) = {}
      OBVIOUS
    <3> QED BY <2>1, <3>1, Zenon
  <2>3. PICK g : g = Groups({})
    OBVIOUS
  <2>4. \A d \in K : g[d] = 0
    BY <2>2, <2>3
  <2>5. SumFunctionOnSet(g, {}) = 0
    BY SumOfChosen, FS_EmptySet
  <2>6. SumFunctionOnSet(g, K) = SumFunctionOnSet(g, {})
    BY <2>4, SumWithoutZeros
  <2> QED BY <2>1, <2>3, <2>5, <2>6
<1>2. ASSUME NEW s \in SUBSET S, s # {}, \A x \in s : s \ {x} \in G
      PROVE  s \in G
  <2>1. PICK x \in s : TRUE
    BY <1>2
  <2> DEFINE a == k[x]
             r == s \ {x}
  <2>2. a \in K /\ r \in SUBSET S /\ f[x] \in Int /\ IsFiniteSet(s)
    BY FS_Subset
  <2>3. \A d \in K \ {a} : Of(s, d) = Of(r, d)
    OBVIOUS
  <2>4. Of(s, a) \ {x} = Of(r, a) /\ x \in Of(s, a)
    OBVIOUS
  <2>5. SumFunctionOnSet(f, s) = f[x] + SumFunctionOnSet(f, r)
    BY <2>2, SumOfOneMore
  <2>6. SumFunctionOnSet(Groups(r), K) = SumFunctionOnSet(f, r)
    BY <1>2
  <2> HIDE DEF Of
  <2>7. SumFunctionOnSet(f, Of(s, a)) = f[x] + SumFunctionOnSet(f, Of(r, a))
    <3>1. SumFunctionOnSet(f, Of(s, a)) =
            f[x] + SumFunctionOnSet(f, Of(s, a) \ {x})
      BY <1>0, <2>4, SumOfOneMore
    <3> QED BY <2>4, <3>1, Zenon
  <2>8. PICK g, p : g = Groups(s) /\ p = Groups(r)
    OBVIOUS
  <2>9. /\ g[a] = f[x] + p[a]
        /\ \A d \in K \ {a} : g[d] = p[d]
        /\ \A d \in K : p[d] \in Int
    <3>1. \A d \in K : /\ g[d] = SumFunctionOnSet(f, Of(s, d))
                       /\ p[d] = SumFunctionOnSet(f, Of(r, d))
      BY <2>8
    <3>2. \A d \in K \ {a} : g[d] = p[d]
      BY <2>3, <3>1, Zenon
    <3>3. g[a] = f[x] + p[a]
      BY <2>2, <2>7, <3>1, Zenon
    <3>4. \A d \in K : p[d] \in Int
      BY <1>0, <2>2, <3>1
    <3> QED BY <3>2, <3>3, <3>4
  <2> HIDE DEF a, r
  <2>10. SumFunctionOnSet(g, K) = f[x] + SumFunctionOnSet(p, K)
    BY <2>2, <2>9, SumWithOneRaised
  <2>11. SumFunctionOnSet(g, K) = SumFunctionOnSet(f, s)
    BY <2>5, <2>6, <2>8, <2>10
  <2> QED BY <2>8, <2>11
<1> HIDE DEF G
<1>3. SUBSET S \subseteq G
  BY <1>1, <1>2, AllSubsets
<1>4. PICK g : g = Groups(S)
  OBVIOUS
<1>5. \A d \in K : g[d] = h[d] /\ g[d] \in Int
  <2>1. \A d \in K : g[d] = h[d]
    BY <1>4, Zenon
  <2>2. \A d \in K : h[d] \in Int
    <3>1. \A d \in K : h[d] = SumFunctionOnSet(f, Of(S, d))
      OBVIOUS
    <3> HIDE DEF Of
    <3>2. S \in SUBSET S
      OBVIOUS
    <3> QED BY <1>0, <3>1, <3>2
  <2> QED BY <2>1, <2>2
<1>6. SumFunctionOnSet(g, K) = SumFunctionOnSet(f, S)
  BY <1>3, <1>4 DEF G
<1>7. SumFunctionOnSet(g, K) = SumFunctionOnSet(h, K)
  <2>1. \A d \in K : h[d] = g[d]
    BY <1>5
  <2> QED BY <1>5, <2>1, SumWithoutZeros
<1> QED BY <1>6, <1>7

-----------------------------------------------------------------------------
(* The ledger and its reports. *)

\* What the reports rely on: the rows are numbers of a finite table, and those
\* of a tidy order, which is a purchase or a sale, are entries and exits.
LedgerInv ==
  /\ LedgerTypeOK
  /\ IsFiniteSet(placed) /\ IsFiniteSet(executions)
  /\ tidy \cap Adopted = {}
  /\ \A e \in executions : e.order \in tidy => e.leg # "CLOSE"

-----------------------------------------------------------------------------
LEMMA LedgerInvInit == LedgerInit => LedgerInv
<1> SUFFICES ASSUME LedgerInit PROVE LedgerInv
  OBVIOUS
<1>1. LedgerTypeOK
  BY LedgerConstants DEF LedgerInit, LedgerTypeOK
<1> QED BY <1>1, FS_EmptySet DEF LedgerInit, LedgerInv

AnyFill == [day : Nat, price : Nat, qty : Nat \ {0}, fee : Nat]

LEMMA AddRowKeeps ==
  ASSUME LedgerInv, NEW o \in placed', NEW f \in AnyFill,
         NEW leg \in {"PARENT", "TAKE", "STOP", "CLOSE"}, AddRow(o, leg, f),
         placed' \in {placed, placed \cup {o}}, o \in Orders,
         tidy' \subseteq tidy, o \in tidy' => leg # "CLOSE"
  PROVE  LedgerInv'
<1> DEFINE row == [id |-> lastId + 1, order |-> o, leg |-> leg, day |-> f.day,
                   price |-> f.price, qty |-> f.qty, fee |-> f.fee]
<1>1. /\ executions' = executions \cup {row}
      /\ lastId' = lastId + 1 /\ lastId < MaxRows /\ pnlView' = pnlView
  BY DEF AddRow
<1>2. /\ lastId \in Nat /\ lastId' \in 0 .. MaxRows /\ lastId + 1 \in RowIds
  BY <1>1, LedgerConstants DEF LedgerInv, LedgerTypeOK, RowIds
<1>3. /\ row \in ExecutionRows /\ row.id = lastId + 1 /\ row.order = o
      /\ row.leg = leg
  BY <1>2 DEF ExecutionRows, AnyFill
<1> HIDE DEF row
<1>4. \A e \in executions : e.id \in Nat /\ e.id <= lastId /\ e.order \in placed
  BY LedgerConstants DEF LedgerInv, LedgerTypeOK, ExecutionRows, RowIds
<1>5. LedgerTypeOK'
  <2>1. \A e \in executions' : e.id <= lastId' /\ e.order \in placed'
    BY <1>1, <1>2, <1>3, <1>4
  <2>2. \A d, e \in executions' : d.id = e.id => d = e
    BY <1>1, <1>2, <1>3, <1>4 DEF LedgerInv, LedgerTypeOK
  <2>3. executions' \subseteq ExecutionRows
    BY <1>1, <1>3 DEF LedgerInv, LedgerTypeOK
  <2> QED BY <1>1, <1>2, <2>1, <2>2, <2>3 DEF LedgerInv, LedgerTypeOK
<1>6. IsFiniteSet(placed') /\ IsFiniteSet(executions')
  BY <1>1, FS_AddElement DEF LedgerInv
<1>7. \A e \in executions' : e.order \in tidy' => e.leg # "CLOSE"
  BY <1>1, <1>3 DEF LedgerInv
<1> QED BY <1>5, <1>6, <1>7 DEF LedgerInv

LEMMA LedgerInvStep == LedgerInv /\ [LedgerNext]_ledgerVars => LedgerInv'
<1> SUFFICES ASSUME LedgerInv, [LedgerNext]_ledgerVars PROVE LedgerInv'
  OBVIOUS
<1>0. \A f \in Fills : /\ f \in AnyFill
                       /\ [f EXCEPT !.fee = 0] \in AnyFill
                       /\ [f EXCEPT !.price = 0, !.fee = 0] \in AnyFill
  BY LedgerConstants DEF AnyFill
<1>1. ASSUME NEW o \in Orders, PlaceOrder(o) PROVE LedgerInv'
  <2>1. LedgerTypeOK'
    BY <1>1 DEF PlaceOrder, LedgerInv, LedgerTypeOK
  <2>2. IsFiniteSet(placed')
    BY <1>1, FS_AddElement DEF PlaceOrder, LedgerInv
  <2> QED BY <1>1, <2>1, <2>2 DEF PlaceOrder, LedgerInv
<1>2. ASSUME NEW o \in Orders,
             OfflineFill(o) \/ SyncFill(o) \/ CloseFill(o)
      PROVE  LedgerInv'
  <2>1. o \in placed' /\ placed' = placed /\ tidy' = tidy
    BY <1>2 DEF OfflineFill, SyncFill, CloseFill
  <2>2. PICK f \in AnyFill, leg \in {"PARENT", "TAKE", "STOP"} : AddRow(o, leg, f)
    BY <1>0, <1>2 DEF OfflineFill, SyncFill, CloseFill
  <2> QED BY <2>1, <2>2, AddRowKeeps
<1>3. ASSUME NEW o \in Orders, HandWrittenRow(o) PROVE LedgerInv'
  <2>1. o \in placed' /\ placed' = placed /\ tidy' = tidy \ {o}
    BY <1>3 DEF HandWrittenRow
  <2>2. PICK f \in AnyFill : AddRow(o, "CLOSE", f)
    BY <1>0, <1>3 DEF HandWrittenRow
  <2> QED BY <2>1, <2>2, AddRowKeeps
<1>4. ASSUME NEW o \in Orders, AdoptFill(o) PROVE LedgerInv'
  <2>1. o \in placed' /\ placed' = placed \cup {o} /\ tidy' = tidy
    BY <1>4 DEF AdoptFill
  <2>2. PICK f \in AnyFill : AddRow(o, "PARENT", f)
    BY <1>0, <1>4 DEF AdoptFill
  <2> QED BY <2>1, <2>2, AddRowKeeps
<1>5. ASSUME NEW o \in Orders, Cleanup(o) PROVE LedgerInv'
  <2>1. /\ executions' = executions \ ToDelete(o)
        /\ tidy' = tidy \cup ({o} \ Adopted)
        /\ UNCHANGED <<placed, lastId, pnlView>>
    BY <1>5 DEF Cleanup
  <2>2. \A e \in executions : e.order = o /\ e.leg = "CLOSE" => e \in ToDelete(o)
    BY DEF ToDelete, RowsOf
  <2>3. LedgerTypeOK'
    BY <2>1 DEF LedgerInv, LedgerTypeOK
  <2>4. IsFiniteSet(executions')
    BY <2>1, FS_Difference DEF LedgerInv
  <2>5. \A e \in executions' : e.order \in tidy' => e.leg # "CLOSE"
    BY <2>1, <2>2 DEF LedgerInv
  <2> QED BY <2>1, <2>3, <2>4, <2>5 DEF LedgerInv
<1>6. CASE InitViews \/ EnsureViews \/ UNCHANGED ledgerVars
  <2>1. UNCHANGED <<placed, executions, lastId, tidy>>
        /\ pnlView' \in {"computed", "stub", pnlView}
    BY <1>6 DEF InitViews, EnsureViews, ledgerVars
  <2> QED BY <2>1 DEF LedgerInv, LedgerTypeOK
<1>7. CASE ResetDatabase
  <2>1. LedgerTypeOK'
    BY <1>7, LedgerConstants DEF ResetDatabase, LedgerTypeOK
  <2> QED BY <1>7, <2>1, FS_EmptySet DEF ResetDatabase, LedgerInv
<1> QED
  BY <1>1, <1>2, <1>3, <1>4, <1>5, <1>6, <1>7 DEF LedgerNext

LEMMA LedgerInvAlways == LedgerSpec => []LedgerInv
BY LedgerInvInit, LedgerInvStep, PTL DEF LedgerSpec

-----------------------------------------------------------------------------
\* The reports read a tidy order in the same way.
LEMMA TidyOrder ==
  ASSUME LedgerInv, NEW o \in tidy
  PROVE  /\ ReviewExits(o) = WithLeg(o, {"TAKE", "STOP"})
         /\ RowsOf(o) \ WithLeg(o, {"TAKE", "STOP"}) = WithLeg(o, {"PARENT"})
         /\ WithLeg(o, {"STOP"}) = {} =>
              WithLeg(o, {"TAKE", "STOP"}) = ViewExits(o)
         /\ SellOrElse(o) = BuyOrElse(o) /\ ViewSign(o) = BuyOrElse(o)
<1>1. \A e \in RowsOf(o) : e.leg \in {"PARENT", "TAKE", "STOP"}
  BY DEF LedgerInv, LedgerTypeOK, ExecutionRows, RowsOf
<1>2. SideOf[o] \in {"BUY", "SELL"}
  BY LedgerConstants DEF LedgerInv, LedgerTypeOK, Adopted
<1>3. ReviewExits(o) = WithLeg(o, {"TAKE", "STOP"})
  BY <1>1 DEF ReviewExits, WithLeg
<1>4. RowsOf(o) \ WithLeg(o, {"TAKE", "STOP"}) = WithLeg(o, {"PARENT"})
  BY <1>1 DEF WithLeg
<1>5. WithLeg(o, {"STOP"}) = {} => WithLeg(o, {"TAKE", "STOP"}) = ViewExits(o)
  BY <1>1 DEF ViewExits, WithLeg
<1> QED BY <1>2, <1>3, <1>4, <1>5 DEF SellOrElse, BuyOrElse, ViewSign

LEMMA ViewAgrees == LedgerInv => ViewAgreesWithoutStops
<1> SUFFICES ASSUME LedgerInv, NEW o \in tidy \cap placed, pnlView = "computed",
                    WithLeg(o, {"STOP"}) = {}
             PROVE  ViewRealized(o) =
                      IF PnlNet(o) = 0 THEN PnlRealized(o) ELSE 0
  BY DEF ViewAgreesWithoutStops
<1>1. ViewSign(o) = BuyOrElse(o) /\ ViewExits(o) = WithLeg(o, {"TAKE", "STOP"})
  BY TidyOrder
<1>2. Net(ViewSign(o), ViewEntries(o), ViewExits(o)) = PnlNet(o)
  BY <1>1, Zenon DEF PnlNet, ViewEntries
<1>3. Cash(ViewSign(o), ViewEntries(o), ViewExits(o)) - Fees(RowsOf(o)) =
        PnlRealized(o)
  BY <1>1, Zenon DEF PnlRealized, ViewEntries
<1> QED BY <1>2, <1>3, Zenon DEF ViewRealized

\* What the three reports say of an order is a number.
LEMMA RowsAddUp ==
  ASSUME LedgerInv, NEW A \in SUBSET executions, NEW B \in SUBSET executions,
         NEW sign \in Int
  PROVE  /\ Net(sign, A, B) \in Int /\ Cash(sign, A, B) \in Int
         /\ Fees(A) \in Int
<1>1. ASSUME NEW R \in SUBSET executions
      PROVE  /\ SumFunction([e \in R |-> e.qty]) \in Int
             /\ SumFunction([e \in R |-> e.price * e.qty]) \in Int
             /\ SumFunction([e \in R |-> e.fee]) \in Int
  <2>1. IsFiniteSet(R)
    BY FS_Subset DEF LedgerInv
  <2>2. \A e \in R : e.qty \in Int /\ e.price * e.qty \in Int /\ e.fee \in Int
    <3>1. \A e \in R : e.qty \in Int /\ e.price \in Int /\ e.fee \in Int
      BY DEF LedgerInv, LedgerTypeOK, ExecutionRows
    <3>2. \A m, n \in Int : m * n \in Int
      OBVIOUS
    <3> QED BY <3>1, <3>2
  <2>3. SumFunction([e \in R |-> e.qty]) \in Int
    <3>1. PICK f : f = [e \in R |-> e.qty]
      OBVIOUS
    <3>2. DOMAIN f = R /\ \A e \in R : f[e] \in Int
      BY <2>2, <3>1
    <3> QED BY <2>1, <3>1, <3>2, SumOfChosen DEF SumFunction
  <2>4. SumFunction([e \in R |-> e.price * e.qty]) \in Int
    <3>1. PICK f : f = [e \in R |-> e.price * e.qty]
      OBVIOUS
    <3>2. DOMAIN f = R /\ \A e \in R : f[e] \in Int
      BY <2>2, <3>1
    <3> QED BY <2>1, <3>1, <3>2, SumOfChosen DEF SumFunction
  <2>5. SumFunction([e \in R |-> e.fee]) \in Int
    <3>1. PICK f : f = [e \in R |-> e.fee]
      OBVIOUS
    <3>2. DOMAIN f = R /\ \A e \in R : f[e] \in Int
      BY <2>2, <3>1
    <3> QED BY <2>1, <3>1, <3>2, SumOfChosen DEF SumFunction
  <2> QED BY <2>3, <2>4, <2>5
<1>2. \A m, n \in Int : m - n \in Int /\ m * n \in Int
  OBVIOUS
<1>3. Fees(A) \in Int
  BY <1>1 DEF Fees
<1>4. Net(sign, A, B) \in Int
  BY <1>1, <1>2 DEF Net
<1>5. Cash(sign, A, B) \in Int
  BY <1>1, <1>2 DEF Cash
<1> QED BY <1>3, <1>4, <1>5

-----------------------------------------------------------------------------
\* What show_pnl.py says of an order; of one without rows, nothing.
LEMMA PnlIsANumber ==
  ASSUME LedgerInv, NEW o
  PROVE  /\ PnlNet(o) \in Int /\ PnlRealized(o) \in Int
         /\ RowsOf(o) = {} => PnlNet(o) = 0 /\ PnlRealized(o) = 0
<1>1. /\ RowsOf(o) \in SUBSET executions
      /\ WithLeg(o, {"PARENT"}) \in SUBSET executions
      /\ WithLeg(o, {"TAKE", "STOP"}) \in SUBSET executions
      /\ BuyOrElse(o) \in Int
  BY DEF RowsOf, WithLeg, BuyOrElse
<1>2. PnlNet(o) \in Int
  BY <1>1, RowsAddUp DEF PnlNet
<1>3. PnlRealized(o) \in Int
  <2>1. /\ Fees(RowsOf(o)) \in Int
        /\ Cash(BuyOrElse(o), WithLeg(o, {"PARENT"}), WithLeg(o, {"TAKE", "STOP"}))
             \in Int
    BY <1>1, RowsAddUp
  <2> QED BY <2>1 DEF PnlRealized
<1>4. ASSUME RowsOf(o) = {} PROVE PnlNet(o) = 0 /\ PnlRealized(o) = 0
  <2>1. WithLeg(o, {"PARENT"}) = {} /\ WithLeg(o, {"TAKE", "STOP"}) = {}
    BY <1>4 DEF WithLeg
  <2>2. ASSUME NEW f, DOMAIN f = {} PROVE SumFunction(f) = 0
    <3>1. SumFunctionOnSet(f, {}) = 0
      BY SumOfChosen, FS_EmptySet
    <3> QED BY <2>2, <3>1, Zenon DEF SumFunction
  <2>3. /\ DOMAIN [e \in {} |-> e.qty] = {}
        /\ DOMAIN [e \in {} |-> e.price * e.qty] = {}
        /\ DOMAIN [e \in {} |-> e.fee] = {}
    OBVIOUS
  <2>4. /\ SumFunction([e \in {} |-> e.qty]) = 0
        /\ SumFunction([e \in {} |-> e.price * e.qty]) = 0
        /\ SumFunction([e \in {} |-> e.fee]) = 0
    BY <2>2, <2>3, Zenon
  <2>5. /\ Net(BuyOrElse(o), {}, {}) = 0 /\ Cash(BuyOrElse(o), {}, {}) = 0
        /\ Fees({}) = 0
    <3>1. BuyOrElse(o) * (0 - 0) = 0
      BY <1>1
    <3>2. Fees({}) = 0
      BY <2>4, Zenon DEF Fees
    <3>3. /\ Net(BuyOrElse(o), {}, {}) = BuyOrElse(o) * (0 - 0)
          /\ Cash(BuyOrElse(o), {}, {}) = BuyOrElse(o) * (0 - 0)
      BY <2>4, Zenon DEF Net, Cash
    <3> QED BY <3>1, <3>2, <3>3
  <2>6. PnlNet(o) = 0
    BY <2>1, <2>5, Zenon DEF PnlNet
  <2>7. PnlRealized(o) = 0 - 0
    BY <1>4, <2>1, <2>5, Zenon DEF PnlRealized
  <2> QED BY <2>6, <2>7
<1> QED BY <1>2, <1>3, <1>4

\* The review says the same of a tidy order.
LEMMA ReviewOfTidy ==
  ASSUME LedgerInv, NEW o \in tidy \cap DOMAIN OrderStats
  PROVE  /\ OrderStats[o].net = PnlNet(o)
         /\ OrderStats[o].closed <=> PnlNet(o) = 0
         /\ OrderStats[o].closed => OrderStats[o].realized = PnlRealized(o)
<1> DEFINE exits == ReviewExits(o)
           net == Net(BuyOrElse(o), RowsOf(o) \ exits, exits)
           cash == Cash(BuyOrElse(o), RowsOf(o) \ exits, exits)
                     - Fees(RowsOf(o))
<1>1. /\ OrderStats[o].net = net
      /\ OrderStats[o].closed = (net = 0)
      /\ OrderStats[o].realized = IF net = 0 THEN cash ELSE 0
  BY DEF OrderStats
<1>2. /\ exits = WithLeg(o, {"TAKE", "STOP"})
      /\ RowsOf(o) \ WithLeg(o, {"TAKE", "STOP"}) = WithLeg(o, {"PARENT"})
  BY TidyOrder
<1>3. RowsOf(o) \ exits = WithLeg(o, {"PARENT"})
  BY <1>2, Zenon
<1> HIDE DEF exits
<1>4. net = PnlNet(o)
  BY <1>2, <1>3, Zenon DEF PnlNet
<1>5. cash = PnlRealized(o)
  BY <1>2, <1>3, Zenon DEF PnlRealized
<1> HIDE DEF net, cash
<1> QED BY <1>1, <1>4, <1>5

\* The same numbers, but for zeros, have the same sum.
LEMMA SameSum ==
  ASSUME NEW f, NEW g, IsFiniteSet(DOMAIN f), \A x \in DOMAIN f : f[x] \in Int,
         DOMAIN g \subseteq DOMAIN f, \A x \in DOMAIN g : g[x] = f[x],
         \A x \in DOMAIN f \ DOMAIN g : f[x] = 0
  PROVE  SumFunction(f) = SumFunction(g)
BY SumWithoutZeros DEF SumFunction

LEMMA TotalsAgree ==
  ASSUME LedgerInv, placed \subseteq tidy
  PROVE  /\ PositionsNet = ReviewPositions(OrderStats)
         /\ HistoryRealized(OrderStats) = PnlSummary
<1> PICK stats : stats = OrderStats
  OBVIOUS
<1>1. /\ DOMAIN stats = {x \in placed : RowsOf(x) # {}}
      /\ \A o \in DOMAIN stats :
           /\ stats[o].net = PnlNet(o)
           /\ stats[o].closed <=> PnlNet(o) = 0
           /\ stats[o].closed => stats[o].realized = PnlRealized(o)
  <2>1. DOMAIN OrderStats = {x \in placed : RowsOf(x) # {}}
    BY DEF OrderStats
  <2> QED BY <2>1, ReviewOfTidy
<1>2. \A o \in placed :
        /\ PnlNet(o) \in Int /\ PnlRealized(o) \in Int
        /\ RowsOf(o) = {} => PnlNet(o) = 0 /\ PnlRealized(o) = 0
  BY PnlIsANumber
<1>3. IsFiniteSet(placed) /\ IsFiniteSet(PnlClosed)
  <2>1. IsFiniteSet(placed) /\ PnlClosed \subseteq placed
    BY DEF LedgerInv, PnlClosed
  <2> QED BY <2>1, FS_Subset
<1>4. PositionsNet = ReviewPositions(stats)
  <2> DEFINE NetOf(o) == LET exits == WithLeg(o, {"TAKE", "STOP"})
                         IN  Net(SellOrElse(o), RowsOf(o) \ exits, exits)
  <2>1. ASSUME NEW o \in placed PROVE NetOf(o) = PnlNet(o)
    <3>1. /\ RowsOf(o) \ WithLeg(o, {"TAKE", "STOP"}) = WithLeg(o, {"PARENT"})
          /\ SellOrElse(o) = BuyOrElse(o)
      BY TidyOrder
    <3> QED BY <3>1, Zenon DEF PnlNet
  <2>2. PositionsNet = SumFunction([o \in placed |-> NetOf(o)])
    BY DEF PositionsNet
  <2>3. ReviewPositions(stats) =
          SumFunction([o \in DOMAIN stats |-> stats[o].net])
    BY DEF ReviewPositions
  <2> HIDE DEF NetOf
  <2>4. PICK f, g : /\ f = [o \in placed |-> NetOf(o)]
                    /\ g = [o \in DOMAIN stats |-> stats[o].net]
    OBVIOUS
  <2>5. /\ DOMAIN f = placed /\ DOMAIN g = DOMAIN stats
        /\ \A o \in placed : f[o] = PnlNet(o)
        /\ \A o \in DOMAIN stats : g[o] = PnlNet(o)
    BY <1>1, <2>1, <2>4
  <2>6. SumFunction(f) = SumFunction(g)
    BY <1>1, <1>2, <1>3, <2>5, SameSum
  <2> QED BY <2>2, <2>3, <2>4, <2>6, Zenon
<1>5. HistoryRealized(stats) = PnlSummary
  <2> DEFINE T == {x \in DOMAIN stats : stats[x].closed}
  <2>1. PICK f, g : /\ f = [o \in PnlClosed |-> PnlRealized(o)]
                    /\ g = [o \in T |-> stats[o].realized]
    OBVIOUS
  <2>2. PnlSummary = SumFunction(f) /\ HistoryRealized(stats) = SumFunction(g)
    BY <2>1, Zenon DEF PnlSummary, HistoryRealized
  <2>3. /\ DOMAIN f = PnlClosed /\ DOMAIN g = T
        /\ \A o \in PnlClosed : f[o] = PnlRealized(o)
        /\ \A o \in T : g[o] = PnlRealized(o)
    BY <1>1, <2>1
  <2>4. /\ T \subseteq PnlClosed
        /\ \A o \in PnlClosed : f[o] \in Int
        /\ \A o \in PnlClosed \ T : f[o] = 0
    BY <1>1, <1>2, <2>3 DEF PnlClosed
  <2> HIDE DEF T
  <2>5. SumFunction(f) = SumFunction(g)
    BY <1>3, <2>3, <2>4, SameSum
  <2> QED BY <2>2, <2>5
<1> QED BY <1>4, <1>5

\* The days of the review add up to its history.
LEMMA DaysAddUp ==
  ASSUME LedgerInv, placed \subseteq tidy
  PROVE  LET days == {OrderStats[o].close : o \in DOMAIN OrderStats}
         IN  SumFunction([d \in days |-> DayRealized(OrderStats, d)])
               = HistoryRealized(OrderStats)
<1> PICK stats : stats = OrderStats
  OBVIOUS
<1> DEFINE days == {stats[o].close : o \in DOMAIN stats}
           T == {x \in DOMAIN stats : stats[x].closed}
<1>1. /\ DOMAIN stats \subseteq placed
      /\ \A o \in T : stats[o].realized \in Int
  <2>1. DOMAIN OrderStats = {x \in placed : RowsOf(x) # {}}
    BY DEF OrderStats
  <2> QED BY <2>1, ReviewOfTidy, PnlIsANumber
<1>2. IsFiniteSet(DOMAIN stats) /\ IsFiniteSet(T)
  BY <1>1, FS_Subset DEF LedgerInv
<1>3. IsFiniteSet(days)
  <2>1. PICK k : k = [o \in DOMAIN stats |-> stats[o].close]
    OBVIOUS
  <2>2. k \in Surjection(DOMAIN stats, days)
    BY <2>1 DEF Surjection
  <2> QED BY <1>2, <2>2, FS_Surjection
<1>4. PICK f, k, h : /\ f = [o \in T |-> stats[o].realized]
                     /\ k = [o \in T |-> stats[o].close]
                     /\ h = [d \in days |-> DayRealized(stats, d)]
  OBVIOUS
<1>5. /\ DOMAIN f = T /\ DOMAIN h = days
      /\ \A o \in T : f[o] \in Int /\ k[o] = stats[o].close /\ k[o] \in days
  BY <1>1, <1>4
<1>6. ASSUME NEW d \in days
      PROVE  h[d] = SumFunctionOnSet(f, {x \in T : k[x] = d})
  <2> DEFINE D == {x \in T : k[x] = d}
  <2>1. D = DayOrders(stats, d) /\ D \subseteq T
    BY <1>5 DEF DayOrders
  <2>2. PICK g : g = [o \in DayOrders(stats, d) |-> stats[o].realized]
    OBVIOUS
  <2>3. h[d] = SumFunctionOnSet(g, DayOrders(stats, d))
    BY <1>4, <2>2, Zenon DEF DayRealized, SumFunction
  <2>4. /\ IsFiniteSet(DayOrders(stats, d))
        /\ \A x \in DayOrders(stats, d) : g[x] = f[x] /\ g[x] \in Int
    <3>1. \A x \in DayOrders(stats, d) : g[x] = f[x] /\ g[x] \in Int
      BY <1>1, <1>4, <2>1, <2>2
    <3>2. DayOrders(stats, d) \subseteq T
      BY <2>1
    <3> QED BY <1>2, <3>1, <3>2, FS_Subset
  <2>5. SumFunctionOnSet(g, DayOrders(stats, d)) =
          SumFunctionOnSet(f, DayOrders(stats, d))
    <3>1. \A x \in DayOrders(stats, d) : f[x] = g[x]
      BY <2>4
    <3> QED BY <2>4, <3>1, SumWithoutZeros
  <2> QED BY <2>1, <2>3, <2>5, Zenon
<1>7. SumFunction(f) = HistoryRealized(stats)
  BY <1>4, Zenon DEF HistoryRealized
<1>8. SumFunctionOnSet(h, days) = SumFunctionOnSet(f, T)
  <2> HIDE DEF days, T
  <2> QED BY <1>2, <1>3, <1>5, <1>6, SumByGroups
<1>9. SumFunction(h) = SumFunction(f)
  BY <1>5, <1>8, Zenon DEF SumFunction
<1> QED BY <1>4, <1>7, <1>9, Zenon

LEMMA ReportsDoAgree == LedgerInv => ReportsAgree
BY ReviewOfTidy, TotalsAgree, DaysAddUp DEF ReportsAgree

-----------------------------------------------------------------------------
\* The ledger has the rows that its schema describes: ids in order and once
\* each, and every row of an order that is there.
THEOREM LedgerTypes == LedgerSpec => []LedgerTypeOK
<1>1. LedgerInv => LedgerTypeOK
  BY DEF LedgerInv
<1> QED BY <1>1, LedgerInvAlways, PTL

\* For any orders, fills and length of history, show_pnl.py, show_positions.py
\* and sensei_offline_review.py tell the same of an order that was not adopted
\* and has no row written by hand, and their totals are the same when that is
\* so of all orders.
THEOREM ReportsAlwaysAgree == LedgerSpec => []ReportsAgree
BY ReportsDoAgree, LedgerInvAlways, PTL

\* v_order_pnl_r has the result of show_pnl.py for such an order without stops.
THEOREM ViewAlwaysAgrees == LedgerSpec => []ViewAgreesWithoutStops
BY ViewAgrees, LedgerInvAlways, PTL

-----------------------------------------------------------------------------
(* The statistics of a month. *)

LEMMA GreaterAndLesser ==
  ASSUME NEW a \in Int, NEW b \in Int
  PROVE  /\ Max({a, b}) = IF a >= b THEN a ELSE b
         /\ Min({a, b}) = IF a <= b THEN a ELSE b
<1>1. /\ \E x \in {a, b} : \A y \in {a, b} : x >= y
      /\ \E x \in {a, b} : \A y \in {a, b} : x <= y
  OBVIOUS
<1> QED BY <1>1 DEF Max, Min

\* g is the fold of _compute_max_drawdown over the first N trades.
EquityCurve(g, rows, N) ==
  g = [n \in 0 .. N |->
         CASE n = 0 -> FlatEquity
           [] n # 0 /\ n \in rows -> AfterResult(g[n - 1], trades[n].pnl)
           [] OTHER -> g[n - 1]]

LEMMA DrawdownIsAFold ==
  ASSUME NEW rows
  PROVE  MaxDrawdown(rows) =
           (CHOOSE g : EquityCurve(g, rows, Len(trades)))[Len(trades)].worst
BY DEF MaxDrawdown, EquityCurve

LEMMA CurvesExist ==
  ASSUME NEW rows, NEW N \in Nat
  PROVE  \E g : EquityCurve(g, rows, N)
<1> DEFINE G == {n \in Nat : \E g : EquityCurve(g, rows, n)}
<1>1. 0 \in G
  <2> DEFINE g == [n \in 0 .. 0 |-> FlatEquity]
  <2>1. EquityCurve(g, rows, 0)
    BY DEF EquityCurve
  <2> QED BY <2>1
<1>2. ASSUME NEW n \in Nat, n \in G PROVE n + 1 \in G
  <2>1. PICK g : EquityCurve(g, rows, n)
    BY <1>2
  <2> DEFINE h == [m \in 0 .. n + 1 |->
                     CASE m = 0 -> FlatEquity
                       [] m # 0 /\ m \in rows ->
                            AfterResult(g[m - 1], trades[m].pnl)
                       [] OTHER -> g[m - 1]]
  <2>2. ASSUME NEW m \in 0 .. n PROVE h[m] = g[m]
    <3>1. m \in 0 .. n + 1
      OBVIOUS
    <3>2. g[m] = CASE m = 0 -> FlatEquity
                   [] m # 0 /\ m \in rows -> AfterResult(g[m - 1], trades[m].pnl)
                   [] OTHER -> g[m - 1]
      BY <2>1, Zenon DEF EquityCurve
    <3> QED BY <3>1, <3>2, Zenon
  <2>3. \A m \in 0 .. n + 1 : m # 0 => m - 1 \in 0 .. n
    OBVIOUS
  <2>4. \A m \in 0 .. n + 1 : m # 0 => h[m - 1] = g[m - 1]
    BY <2>2, <2>3
  <2>5. PICK f : f = h
    OBVIOUS
  <2>6. f = [m \in 0 .. n + 1 |->
               CASE m = 0 -> FlatEquity
                 [] m # 0 /\ m \in rows -> AfterResult(f[m - 1], trades[m].pnl)
                 [] OTHER -> f[m - 1]]
    BY <2>4, <2>5
  <2>7. EquityCurve(f, rows, n + 1)
    BY <2>6, Zenon DEF EquityCurve
  <2> HIDE DEF h
  <2> QED BY <2>7
<1> HIDE DEF G
<1>3. Nat \subseteq G
  BY <1>1, <1>2, AllNaturals
<1> QED BY <1>3 DEF G

\* The fold, after n trades, of an equity that is known at each of them.
CurveInStep(g, e, n) ==
  /\ g[n].equity = e[n]
  /\ g[n].peak \in Int /\ g[n].worst \in Int
  /\ \E i \in 0 .. n : g[n].peak = e[i]
  /\ \A i \in 0 .. n : e[i] <= g[n].peak
  /\ \E i, j \in 0 .. n : i <= j /\ g[n].worst = e[j] - e[i]
  /\ \A i, j \in 0 .. n : i <= j => g[n].worst <= e[j] - e[i]

\* The arithmetic of one step of the fold.
LEMMA NotLower ==
  ASSUME NEW a \in Int, NEW b \in Int, NEW c \in Int, a <= b, b <= c
  PROVE  a <= c
OBVIOUS

LEMMA FallFromPeak ==
  ASSUME NEW from \in Int, NEW peak \in Int, NEW to \in Int, NEW worst \in Int,
         from <= peak, worst <= to - peak
  PROVE  worst <= to - from
OBVIOUS

LEMMA FallBefore ==
  ASSUME NEW from \in Int, NEW to \in Int, NEW old \in Int, NEW worst \in Int,
         old <= to - from, worst <= old
  PROVE  worst <= to - from
OBVIOUS

\* The fold and the equity go from one of the first N trades to the next
\* together.
GoTogether(g, e, p, rows, N) ==
  \A n \in 1 .. N :
    IF n \in rows
      THEN /\ p[n] \in Int /\ e[n] = e[n - 1] + p[n]
           /\ g[n] = AfterResult(g[n - 1], p[n])
      ELSE e[n] = e[n - 1] /\ g[n] = g[n - 1]

\* Over an equity that is known at every trade, the fold keeps its highest point
\* and its largest fall so far.
LEMMA CurveFalls ==
  ASSUME NEW N \in Nat, NEW rows, NEW g, NEW p, NEW e \in [0 .. N -> Int],
         e[0] = 0, g[0] = FlatEquity, GoTogether(g, e, p, rows, N)
  PROVE  /\ g[N].worst \in Int
         /\ \E i, j \in 0 .. N : i <= j /\ g[N].worst = e[j] - e[i]
         /\ \A i, j \in 0 .. N : i <= j => g[N].worst <= e[j] - e[i]
<1> DEFINE G == {n \in Nat : n <= N => CurveInStep(g, e, n)}
<1>1. 0 \in G
  <2>1. CurveInStep(g, e, 0)
    BY DEF CurveInStep, FlatEquity
  <2> QED BY <2>1
<1>2. ASSUME NEW n \in Nat, n \in G PROVE n + 1 \in G
  <2> SUFFICES ASSUME n + 1 <= N PROVE CurveInStep(g, e, n + 1)
    OBVIOUS
  <2>0. CurveInStep(g, e, n) /\ n + 1 \in 1 .. N /\ (n + 1) - 1 = n
    BY <1>2
  <2> HIDE DEF G
  <2> DEFINE m == n + 1
  <2>1. /\ g[n].equity = e[n]
        /\ g[n].peak \in Int /\ g[n].worst \in Int
    BY <2>0 DEF CurveInStep
  <2>2. /\ \A i \in 0 .. m : i \in 0 .. n \/ i = m
        /\ \A i \in 0 .. n : i \in 0 .. m /\ i <= m
        /\ m \in 0 .. m
    OBVIOUS
  <2>3. \A i \in 0 .. m : e[i] \in Int
    OBVIOUS
  <2>4. \A i \in 0 .. n : e[i] <= g[n].peak
    BY <2>0 DEF CurveInStep
  <2>5. \A i, j \in 0 .. n : i <= j => g[n].worst <= e[j] - e[i]
    BY <2>0 DEF CurveInStep
  <2>6. PICK top \in 0 .. n : g[n].peak = e[top]
    BY <2>0 DEF CurveInStep
  <2>7. PICK from, to \in 0 .. n : from <= to /\ g[n].worst = e[to] - e[from]
    BY <2>0 DEF CurveInStep
  <2>8. CASE m \notin rows
    <3>1. e[m] = e[n] /\ g[m] = g[n]
      BY <2>0, <2>8 DEF GoTogether
    <3>2. \A i \in 0 .. m : e[i] <= g[m].peak
      <4>1. n \in 0 .. n
        OBVIOUS
      <4> HIDE DEF m
      <4> QED BY <2>2, <2>4, <3>1, <4>1
    <3>3. ASSUME NEW i \in 0 .. m, NEW j \in 0 .. m, i <= j
          PROVE  g[m].worst <= e[j] - e[i]
      <4>1. PICK k \in 0 .. n : e[k] = e[j] /\ (j = k \/ (j = m /\ k = n))
        BY <2>2, <3>1
      <4>2. PICK h \in 0 .. n : e[h] = e[i] /\ (i = h \/ (i = m /\ h = n))
        BY <2>2, <3>1
      <4>3. h <= k
        BY <3>3, <4>1, <4>2
      <4>4. g[n].worst <= e[k] - e[h]
        BY <2>5, <4>3
      <4> QED BY <3>1, <4>1, <4>2, <4>4
    <3> HIDE DEF m
    <3>4. CurveInStep(g, e, m)
      BY <2>1, <2>2, <2>6, <2>7, <3>1, <3>2, <3>3 DEF CurveInStep
    <3> QED BY <3>4 DEF m
  <2>9. CASE m \in rows
    <3>1. e[m] = e[n] + p[m] /\ g[m] = AfterResult(g[n], p[m])
      BY <2>0, <2>9 DEF GoTogether
    <3>2. /\ g[n].peak \in Int /\ e[m] \in Int /\ g[n].worst \in Int
      BY <2>1, <2>2, <2>3
    <3>3. /\ g[m].equity = e[m]
          /\ g[m].peak = Max({g[n].peak, e[m]})
          /\ g[m].worst = Min({g[n].worst, e[m] - g[m].peak})
      BY <2>1, <3>1 DEF AfterResult
    <3> HIDE DEF m
    <3>4. g[m].peak = IF g[n].peak >= e[m] THEN g[n].peak ELSE e[m]
      BY <3>2, <3>3, GreaterAndLesser
    <3>5. g[m].peak \in Int /\ e[m] <= g[m].peak /\ g[n].peak <= g[m].peak
      BY <3>2, <3>4
    <3>6. g[m].worst = IF g[n].worst <= e[m] - g[m].peak
                         THEN g[n].worst ELSE e[m] - g[m].peak
      <4>1. PICK d \in Int : d = e[m] - g[m].peak
        BY <3>2, <3>5
      <4>2. Min({g[n].worst, d}) = IF g[n].worst <= d THEN g[n].worst ELSE d
        BY <3>2, GreaterAndLesser
      <4> QED BY <3>3, <4>1, <4>2
    <3>7. /\ g[m].worst \in Int
          /\ g[m].worst <= e[m] - g[m].peak /\ g[m].worst <= g[n].worst
      BY <3>2, <3>5, <3>6
    <3>8. PICK high \in 0 .. m : g[m].peak = e[high]
      BY <2>2, <2>6, <3>4
    <3>9. \A i \in 0 .. m : e[i] <= g[m].peak
      <4>1. ASSUME NEW i \in 0 .. n PROVE e[i] <= g[m].peak
        <5>1. e[i] \in Int /\ e[i] <= g[n].peak
          BY <2>2, <2>3, <2>4
        <5> QED BY ONLY <3>2, <3>5, <5>1, NotLower, Zenon
      <4> QED BY <2>2, <3>5, <4>1
    <3>10. \E i, j \in 0 .. m : i <= j /\ g[m].worst = e[j] - e[i]
      <4>1. CASE g[m].worst = g[n].worst
        BY <2>2, <2>7, <4>1
      <4>2. CASE g[m].worst = e[m] - g[m].peak
        <5>1. high <= m /\ m \in 0 .. m
          BY <2>2 DEF m
        <5> QED BY <3>8, <4>2, <5>1
      <4> QED BY <3>6, <4>1, <4>2
    <3>11. ASSUME NEW i \in 0 .. m, NEW j \in 0 .. m, i <= j
           PROVE  g[m].worst <= e[j] - e[i]
      <4>0. e[i] \in Int /\ e[j] \in Int
        BY <2>3
      <4>1. CASE j = m
        <5>1. e[i] <= g[m].peak
          BY <3>9
        <5>2. g[m].worst <= e[m] - e[i]
          BY ONLY <3>2, <3>5, <3>7, <4>0, <5>1, FallFromPeak, Zenon
        <5> QED BY <4>1, <5>2, Zenon
      <4>2. CASE j # m
        <5>1. i \in 0 .. n /\ j \in 0 .. n
          BY <3>11, <4>2 DEF m
        <5>2. g[n].worst <= e[j] - e[i]
          BY <2>5, <3>11, <5>1
        <5> QED BY ONLY <3>2, <3>7, <4>0, <5>2, FallBefore, Zenon
      <4> QED BY <4>1, <4>2
    <3>12. CurveInStep(g, e, m)
      BY <3>3, <3>5, <3>7, <3>8, <3>9, <3>10, <3>11 DEF CurveInStep
    <3> QED BY <3>12 DEF m
  <2> QED BY <2>8, <2>9
<1> HIDE DEF G
<1>3. Nat \subseteq G
  BY <1>1, <1>2, AllNaturals
<1>4. CurveInStep(g, e, N)
  BY <1>3 DEF G
<1> QED BY <1>4 DEF CurveInStep

-----------------------------------------------------------------------------
\* Sums of two sets without a common element.
LEMMA SumOfDisjoint ==
  ASSUME NEW f, NEW A, NEW B, IsFiniteSet(A), IsFiniteSet(B), A \cap B = {},
         \A x \in A \cup B : f[x] \in Int
  PROVE  SumFunctionOnSet(f, A \cup B) =
           SumFunctionOnSet(f, A) + SumFunctionOnSet(f, B)
<1> DEFINE G == {s \in SUBSET B :
                   SumFunctionOnSet(f, A \cup s) =
                     SumFunctionOnSet(f, A) + SumFunctionOnSet(f, s)}
<1>0. ASSUME NEW s \in SUBSET B
      PROVE  /\ IsFiniteSet(s) /\ IsFiniteSet(A \cup s)
             /\ \A x \in A \cup s : f[x] \in Int
             /\ SumFunctionOnSet(f, s) \in Int
             /\ SumFunctionOnSet(f, A \cup s) \in Int
             /\ SumFunctionOnSet(f, A) \in Int
  <2>1. /\ IsFiniteSet(s) /\ IsFiniteSet(A \cup s)
        /\ \A x \in A \cup s : f[x] \in Int
    BY FS_Subset, FS_Union
  <2>2. (\A x \in s : f[x] \in Int) /\ \A x \in A : f[x] \in Int
    BY <2>1
  <2> HIDE DEF G
  <2> QED BY <2>1, <2>2, SumOfChosen
<1>1. {} \in G
  <2>1. A \cup {} = A
    OBVIOUS
  <2>2. SumFunctionOnSet(f, {}) = 0
    BY SumOfChosen, FS_EmptySet
  <2>3. SumFunctionOnSet(f, A) \in Int
    BY <1>0
  <2>4. SumFunctionOnSet(f, A \cup {}) = SumFunctionOnSet(f, A)
    BY <2>1, Zenon
  <2>5. SumFunctionOnSet(f, A \cup {}) =
          SumFunctionOnSet(f, A) + SumFunctionOnSet(f, {})
    BY <2>2, <2>3, <2>4
  <2> QED BY <2>5
<1>2. ASSUME NEW s \in SUBSET B, s # {}, \A x \in s : s \ {x} \in G
      PROVE  s \in G
  <2>1. PICK x \in s : TRUE
    BY <1>2
  <2>2. SumFunctionOnSet(f, A \cup (s \ {x})) =
          SumFunctionOnSet(f, A) + SumFunctionOnSet(f, s \ {x})
    BY <1>2
  <2> HIDE DEF G
  <2>3. SumFunctionOnSet(f, s) = f[x] + SumFunctionOnSet(f, s \ {x})
    <3>1. IsFiniteSet(s) /\ \A y \in s : f[y] \in Int
      BY <1>0
    <3> QED BY <2>1, <3>1, SumOfOneMore
  <2>4. SumFunctionOnSet(f, A \cup s) =
          f[x] + SumFunctionOnSet(f, (A \cup s) \ {x})
    <3>1. /\ IsFiniteSet(A \cup s) /\ x \in A \cup s
          /\ \A y \in A \cup s : f[y] \in Int
      BY <1>0, <2>1
    <3> QED BY <3>1, SumOfOneMore
  <2>5. (A \cup s) \ {x} = A \cup (s \ {x})
    BY <2>1
  <2>6. SumFunctionOnSet(f, A \cup s) =
          f[x] + SumFunctionOnSet(f, A \cup (s \ {x}))
    BY <2>4, <2>5, Zenon
  <2>7. /\ f[x] \in Int /\ SumFunctionOnSet(f, A) \in Int
        /\ SumFunctionOnSet(f, s \ {x}) \in Int
    <3>1. s \ {x} \in SUBSET B
      OBVIOUS
    <3> QED BY <1>0, <2>1, <3>1
  <2>8. SumFunctionOnSet(f, A \cup s) =
          SumFunctionOnSet(f, A) + SumFunctionOnSet(f, s)
    BY <2>2, <2>3, <2>6, <2>7
  <2> QED BY <2>8 DEF G
<1> HIDE DEF G
<1>3. SUBSET B \subseteq G
  BY <1>1, <1>2, AllSubsets
<1> QED BY <1>3 DEF G

-----------------------------------------------------------------------------
\* The trades are numbered, and the results of those that have one are numbers.
LEMMA PnlSums ==
  ASSUME StatsTypeOK, NEW p, p = [n \in DOMAIN trades |-> trades[n].pnl],
         NEW rows \in SUBSET DOMAIN trades, \A n \in rows : trades[n].pnl # NoPnl
  PROVE  /\ IsFiniteSet(rows) /\ \A n \in rows : p[n] \in Int
         /\ SumOfPnl(rows) = SumFunctionOnSet(p, rows)
         /\ SumOfPnl(rows) \in Int
<1>1. IsFiniteSet(rows)
  <2>1. Len(trades) \in Nat /\ DOMAIN trades = 1 .. Len(trades)
    BY DEF StatsTypeOK
  <2>2. 1 \in Int /\ Len(trades) \in Int
    BY <2>1
  <2>3. IsFiniteSet(1 .. Len(trades))
    BY <2>2, FS_Interval
  <2>4. rows \in SUBSET (1 .. Len(trades))
    BY <2>1
  <2> QED BY <2>3, <2>4, FS_Subset
<1>2. ASSUME NEW n \in rows PROVE p[n] = trades[n].pnl /\ p[n] \in Int
  <2>1. n \in DOMAIN trades /\ trades[n].pnl # NoPnl
    OBVIOUS
  <2>2. trades[n] \in Trades
    BY <2>1 DEF StatsTypeOK
  <2>3. trades[n].pnl \in Pnls \cup {NoPnl}
    BY <2>2 DEF Trades
  <2>4. trades[n].pnl \in Int
    BY <2>1, <2>3, StatsConstants
  <2> QED BY <2>1, <2>4
<1>3. PICK f : f = [n \in rows |-> trades[n].pnl]
  OBVIOUS
<1>4. DOMAIN f = rows /\ \A n \in rows : f[n] \in Int /\ p[n] = f[n]
  BY <1>2, <1>3
<1>5. SumOfPnl(rows) = SumFunctionOnSet(f, rows)
  BY <1>3, <1>4, Zenon DEF SumOfPnl, SumFunction
<1>6. SumFunctionOnSet(f, rows) = SumFunctionOnSet(p, rows)
  BY <1>1, <1>4, SumWithoutZeros
<1>7. SumFunctionOnSet(p, rows) \in Int
  BY <1>1, <1>2, SumOfChosen
<1> QED BY <1>1, <1>2, <1>5, <1>6, <1>7

\* The fold of _compute_max_drawdown is the largest fall.
LEMMA DrawdownIsLargestFall ==
  ASSUME StatsTypeOK, NEW rows \in SUBSET DOMAIN trades,
         \A n \in rows : trades[n].pnl # NoPnl
  PROVE  MaxDrawdown(rows) \in Int /\ MaxDrawdown(rows) = -LargestFall(rows)
<1> DEFINE N == Len(trades)
           UpTo(n) == {m \in rows : m <= n}
<1>1. N \in Nat /\ DOMAIN trades = 1 .. N
  BY DEF StatsTypeOK
<1>2. PICK p, e : /\ p = [n \in DOMAIN trades |-> trades[n].pnl]
                  /\ e = [n \in 0 .. N |-> SumOfPnl(UpTo(n))]
  OBVIOUS
<1>3. ASSUME NEW n \in 0 .. N
      PROVE  /\ UpTo(n) \in SUBSET rows /\ IsFiniteSet(UpTo(n))
             /\ \A m \in UpTo(n) : p[m] \in Int
             /\ e[n] = SumFunctionOnSet(p, UpTo(n)) /\ e[n] \in Int
  <2>1. /\ UpTo(n) \in SUBSET DOMAIN trades
        /\ \A m \in UpTo(n) : trades[m].pnl # NoPnl
        /\ UpTo(n) \in SUBSET rows
    OBVIOUS
  <2>2. e[n] = SumOfPnl(UpTo(n))
    BY <1>2
  <2> HIDE DEF UpTo
  <2> QED BY <1>2, <2>1, <2>2, PnlSums
<1>4. e \in [0 .. N -> Int]
  <2>1. DOMAIN e = 0 .. N /\ e = [n \in DOMAIN e |-> e[n]]
    BY <1>2
  <2>2. \A n \in 0 .. N : e[n] \in Int
    BY <1>3
  <2> HIDE DEF N, UpTo
  <2> QED BY <2>1, <2>2
<1>5. e[0] = 0
  <2>1. UpTo(0) = {} /\ 0 \in 0 .. N
    BY <1>1
  <2>2. SumFunctionOnSet(p, {}) = 0
    BY SumOfChosen, FS_EmptySet
  <2>3. e[0] = SumFunctionOnSet(p, UpTo(0))
    BY <1>3, <2>1
  <2> QED BY <2>1, <2>2, <2>3, Zenon
<1>6. ASSUME NEW n \in 1 .. N
      PROVE  IF n \in rows THEN p[n] \in Int /\ e[n] = e[n - 1] + p[n]
                           ELSE e[n] = e[n - 1]
  <2>1. n \in 0 .. N /\ n - 1 \in 0 .. N
    BY <1>1
  <2>2. /\ e[n] = SumFunctionOnSet(p, UpTo(n))
        /\ e[n - 1] = SumFunctionOnSet(p, UpTo(n - 1))
        /\ e[n - 1] \in Int
    BY <1>3, <2>1
  <2>3. CASE n \in rows
    <3>1. n \in UpTo(n) /\ UpTo(n) \ {n} = UpTo(n - 1)
      BY <1>1, <2>3
    <3>2. IsFiniteSet(UpTo(n)) /\ \A m \in UpTo(n) : p[m] \in Int
      BY <1>3, <2>1
    <3> HIDE DEF UpTo
    <3>3. e[n] = p[n] + SumFunctionOnSet(p, UpTo(n) \ {n})
      BY <2>2, <3>1, <3>2, SumOfOneMore
    <3>4. e[n] = p[n] + e[n - 1]
      BY <2>2, <3>1, <3>3, Zenon
    <3> QED BY <2>2, <2>3, <3>1, <3>2, <3>4
  <2>4. CASE n \notin rows
    <3>1. UpTo(n) = UpTo(n - 1)
      BY <1>1, <2>4
    <3>2. e[n] = e[n - 1]
      BY <2>2, <3>1, Zenon
    <3> QED BY <2>4, <3>2
  <2> QED BY <2>3, <2>4
<1>7. PICK g : /\ EquityCurve(g, rows, N)
               /\ MaxDrawdown(rows) = g[N].worst
  <2>1. PICK g : g = CHOOSE h : EquityCurve(h, rows, N)
    OBVIOUS
  <2>2. EquityCurve(g, rows, N)
    BY <1>1, <2>1, CurvesExist
  <2> QED BY <2>1, <2>2, DrawdownIsAFold
<1>8. /\ g[0] = FlatEquity
      /\ \A n \in 1 .. N : g[n] = IF n \in rows THEN AfterResult(g[n - 1], p[n])
                                                ELSE g[n - 1]
  <2>1. \A n \in 0 .. N :
          g[n] = CASE n = 0 -> FlatEquity
                   [] n # 0 /\ n \in rows -> AfterResult(g[n - 1], trades[n].pnl)
                   [] OTHER -> g[n - 1]
    BY <1>7 DEF EquityCurve
  <2>2. \A n \in 1 .. N : n \in 0 .. N /\ n # 0 /\ p[n] = trades[n].pnl
    BY <1>1, <1>2
  <2>3. 0 \in 0 .. N
    BY <1>1
  <2> QED BY <2>1, <2>2, <2>3
<1> HIDE DEF N, UpTo
<1>0. GoTogether(g, e, p, rows, N)
  BY <1>6, <1>8 DEF GoTogether
<1>9. /\ g[N].worst \in Int
      /\ \E i, j \in 0 .. N : i <= j /\ g[N].worst = e[j] - e[i]
      /\ \A i, j \in 0 .. N : i <= j => g[N].worst <= e[j] - e[i]
  BY <1>0, <1>1, <1>4, <1>5, <1>8, CurveFalls
<1> DEFINE Falls == {e[q[1]] - e[q[2]] :
                       q \in {r \in (0 .. N) \X (0 .. N) : r[1] <= r[2]}}
<1>10. LargestFall(rows) = Max(Falls)
  BY <1>2 DEF LargestFall, N, UpTo
<1>11. \A i, j \in 0 .. N : i <= j => e[i] - e[j] \in Falls
  <2> SUFFICES ASSUME NEW i \in 0 .. N, NEW j \in 0 .. N, i <= j
               PROVE  e[i] - e[j] \in Falls
    OBVIOUS
  <2>1. /\ <<i, j>> \in {r \in (0 .. N) \X (0 .. N) : r[1] <= r[2]}
        /\ e[i] - e[j] = e[<<i, j>>[1]] - e[<<i, j>>[2]]
    OBVIOUS
  <2> QED BY <2>1, Zenon
<1>12. \A x \in Falls : \E i, j \in 0 .. N : i <= j /\ x = e[i] - e[j]
  OBVIOUS
<1> HIDE DEF Falls
<1>13. \A i \in 0 .. N : e[i] \in Int
  BY <1>4
<1>14. -g[N].worst \in Falls
  <2>1. PICK i \in 0 .. N, j \in 0 .. N : i <= j /\ g[N].worst = e[j] - e[i]
    BY <1>9
  <2>2. -g[N].worst = e[i] - e[j]
    BY <1>13, <2>1
  <2> QED BY <1>11, <2>1, <2>2
<1>15. \A x \in Falls : x \in Int /\ x <= -g[N].worst
  <2> SUFFICES ASSUME NEW x \in Falls PROVE x \in Int /\ x <= -g[N].worst
    OBVIOUS
  <2>1. PICK i \in 0 .. N, j \in 0 .. N : i <= j /\ x = e[i] - e[j]
    BY <1>12
  <2>2. g[N].worst <= e[j] - e[i] /\ e[i] \in Int /\ e[j] \in Int
    BY <1>9, <1>13, <2>1
  <2> QED BY <1>9, <2>1, <2>2
<1>16. Max(Falls) = -g[N].worst
  <2>1. PICK w \in Int : w = -g[N].worst
    BY <1>9
  <2>2. w \in Falls /\ \A x \in Falls : x \in Int /\ w >= x
    BY <1>14, <1>15, <2>1
  <2>3. Max(Falls) \in Falls /\ \A x \in Falls : Max(Falls) >= x
    BY <2>2 DEF Max
  <2>4. Max(Falls) >= w /\ w >= Max(Falls) /\ Max(Falls) \in Int
    BY <2>2, <2>3
  <2> QED BY <2>1, <2>4
<1>17. -Max(Falls) = g[N].worst
  BY <1>9, <1>16
<1> QED BY <1>7, <1>9, <1>10, <1>17

-----------------------------------------------------------------------------
\* The calendar: what is before the next month is of this one or before it.
LEMMA MonthsFollow ==
  ASSUME NEW ym \in Months
  PROVE  /\ MonthAfter(ym) \in Months /\ MonthBefore(MonthAfter(ym)) = ym
         /\ \A d \in Months :
              /\ Before(d, MonthAfter(ym)) <=> Before(d, ym) \/ d = ym
              /\ ~(Before(d, ym) /\ d = ym)
<1>1. PICK y \in Nat, m \in 1 .. 12 : ym = <<y, m>>
  BY DEF Months
<1>2. ym[1] = y /\ ym[2] = m
  BY <1>1
<1>3. PICK z \in Nat, k \in 1 .. 12 :
        /\ MonthAfter(ym) = <<z, k>>
        /\ IF m = 12 THEN z = y + 1 /\ k = 1 ELSE z = y /\ k = m + 1
  BY <1>2 DEF MonthAfter
<1>4. MonthAfter(ym)[1] = z /\ MonthAfter(ym)[2] = k
  BY <1>3
<1>5. MonthAfter(ym) \in Months
  BY <1>3 DEF Months
<1>6. MonthBefore(MonthAfter(ym)) = ym
  BY <1>1, <1>3, <1>4 DEF MonthBefore
<1>7. ASSUME NEW d \in Months
      PROVE  /\ Before(d, MonthAfter(ym)) <=> Before(d, ym) \/ d = ym
             /\ ~(Before(d, ym) /\ d = ym)
  <2>1. PICK a \in Nat, b \in 1 .. 12 : d = <<a, b>>
    BY DEF Months
  <2>2. d[1] = a /\ d[2] = b /\ (d = ym <=> a = y /\ b = m)
    BY <1>1, <2>1
  <2>3. Before(d, ym) <=> a < y \/ (a = y /\ b < m)
    BY <1>2, <2>2 DEF Before
  <2>4. Before(d, MonthAfter(ym)) <=> a < z \/ (a = z /\ b < k)
    BY <1>4, <2>2 DEF Before
  <2> QED BY <1>3, <2>2, <2>3, <2>4
<1> QED BY <1>5, <1>6, <1>7

LEMMA TradeFields ==
  ASSUME StatsTypeOK, NEW n \in DOMAIN trades
  PROVE  /\ trades[n] \in Trades /\ trades[n].entered \in Months
         /\ trades[n].pnl \in Pnls \cup {NoPnl}
<1>1. trades[n] \in Trades
  BY DEF StatsTypeOK
<1> QED BY <1>1 DEF Trades

LEMMA RowsOfMonth ==
  ASSUME StatsTypeOK, NEW ym \in Months
  PROVE  MonthRows(ym) = {n \in DOMAIN trades : trades[n].entered = ym}
<1>1. \A n \in DOMAIN trades : trades[n].entered \in Months
  BY TradeFields
<1>2. \A d \in Months : /\ Before(d, MonthAfter(ym)) <=> Before(d, ym) \/ d = ym
                        /\ ~(Before(d, ym) /\ d = ym)
  BY MonthsFollow
<1> QED BY <1>1, <1>2 DEF MonthRows

LEMMA TradesAreFinite ==
  ASSUME StatsTypeOK, NEW rows \in SUBSET DOMAIN trades
  PROVE  IsFiniteSet(rows) /\ Cardinality(rows) \in Nat
<1>1. Len(trades) \in Nat /\ DOMAIN trades = 1 .. Len(trades)
  BY DEF StatsTypeOK
<1>2. 1 \in Int /\ Len(trades) \in Int
  BY <1>1
<1>3. IsFiniteSet(1 .. Len(trades))
  BY <1>2, FS_Interval
<1>4. IsFiniteSet(rows)
  BY <1>1, <1>3, FS_Subset
<1> QED BY <1>4, FS_CardinalityType

LEMMA ReportsAreTyped ==
  ASSUME StatsTypeOK, NEW ym
  PROVE  ComputeMonthlyStats(ym) \in Reports
<1>1. PICK rows, known, closed, gain, loss :
        /\ rows = MonthRows(ym)
        /\ known = {n \in rows : trades[n].pnl # NoPnl}
        /\ closed = {n \in rows : trades[n].closed}
        /\ gain = {n \in known \cap closed : trades[n].pnl > 0}
        /\ loss = {n \in known \cap closed : trades[n].pnl < 0}
  OBVIOUS
<1>2. ComputeMonthlyStats(ym) =
        [total |-> Cardinality(rows), closed |-> Cardinality(closed),
         wins |-> Cardinality(gain), losses |-> Cardinality(loss),
         breakeven |-> Cardinality((known \cap closed) \ (gain \cup loss)),
         gross_profit |-> SumOfPnl(gain), gross_loss |-> SumOfPnl(loss),
         net |-> SumOfPnl(known), drawdown |-> MaxDrawdown(known)]
  BY <1>1 DEF ComputeMonthlyStats
<1>3. /\ rows \in SUBSET DOMAIN trades /\ known \in SUBSET DOMAIN trades
      /\ closed \in SUBSET DOMAIN trades /\ gain \in SUBSET DOMAIN trades
      /\ loss \in SUBSET DOMAIN trades
      /\ (known \cap closed) \ (gain \cup loss) \in SUBSET DOMAIN trades
  BY <1>1 DEF MonthRows
<1>4. /\ \A n \in known : trades[n].pnl # NoPnl
      /\ \A n \in gain : trades[n].pnl # NoPnl
      /\ \A n \in loss : trades[n].pnl # NoPnl
  BY <1>1
<1>5. /\ Cardinality(rows) \in Nat /\ Cardinality(closed) \in Nat
      /\ Cardinality(gain) \in Nat /\ Cardinality(loss) \in Nat
      /\ Cardinality((known \cap closed) \ (gain \cup loss)) \in Nat
  BY <1>3, TradesAreFinite
<1>6. /\ SumOfPnl(gain) \in Int /\ SumOfPnl(loss) \in Int
      /\ SumOfPnl(known) \in Int
  BY <1>3, <1>4, PnlSums
<1>7. MaxDrawdown(known) \in Int
  BY <1>3, <1>4, DrawdownIsLargestFall
<1> QED BY <1>2, <1>5, <1>6, <1>7 DEF Reports

-----------------------------------------------------------------------------
\* The trades that a report should have counted by now.
EarlierTrades == {n \in DOMAIN trades : Before(trades[n].entered, today)}

StatsInv ==
  /\ StatsTypeOK
  /\ SumFunction([k \in DOMAIN reported |-> reported[k].total])
       = Cardinality(EarlierTrades)

LEMMA StatsInvInit == StatsInit => StatsInv
<1> SUFFICES ASSUME StatsInit PROVE StatsInv
  OBVIOUS
<1>1. /\ today \in Months /\ trades = << >> /\ reported = << >>
  BY StatsConstants DEF StatsInit
<1>2. StatsTypeOK
  BY <1>1, StatsConstants DEF StatsTypeOK
<1>3. PICK f : f = [k \in DOMAIN reported |-> reported[k].total]
  OBVIOUS
<1>4. DOMAIN f = {} /\ EarlierTrades = {}
  BY <1>1, <1>3 DEF EarlierTrades
<1>5. SumFunctionOnSet(f, {}) = 0 /\ Cardinality({}) = 0
  BY SumOfChosen, FS_EmptySet
<1>6. SumFunction(f) = 0 /\ Cardinality(EarlierTrades) = 0
  BY <1>4, <1>5, Zenon DEF SumFunction
<1> QED BY <1>2, <1>3, <1>6 DEF StatsInv

\* A trade that changes keeps its month, and a new one is of this month.
LEMMA TradesKeepStats ==
  ASSUME StatsInv, Enter \/ \E n \in DOMAIN trades : Mark(n) \/ Leave(n)
  PROVE  StatsInv'
<1>0. StatsTypeOK
  BY DEF StatsInv
<1>1. /\ UNCHANGED <<today, reported>>
      /\ trades' \in Seq(Trades) /\ Len(trades') <= MaxTrades
      /\ \A n \in DOMAIN trades' :
           \/ trades'[n].entered = today
           \/ n \in DOMAIN trades /\ trades'[n].entered = trades[n].entered
      /\ \A n \in DOMAIN trades :
           n \in DOMAIN trades' /\ trades'[n].entered = trades[n].entered
  <2>1. CASE Enter
    <3>0. today \in Months /\ FALSE \in BOOLEAN /\ NoPnl \in Pnls \cup {NoPnl}
      BY <1>0 DEF StatsTypeOK
    <3>1. PICK t : t = [entered |-> today, closed |-> FALSE, pnl |-> NoPnl]
      OBVIOUS
    <3>8. t \in Trades
      BY <3>0, <3>1 DEF Trades
    <3>2. /\ trades' = Append(trades, t) /\ UNCHANGED <<today, reported>>
          /\ Len(trades) < MaxTrades
      BY <2>1, <3>1 DEF Enter
    <3>3. trades \in Seq(Trades) /\ Len(trades) \in Nat /\ MaxTrades \in Nat
      BY <1>0, StatsConstants DEF StatsTypeOK
    <3>4. /\ trades' \in Seq(Trades) /\ Len(trades') = Len(trades) + 1
          /\ DOMAIN trades' = 1 .. Len(trades) + 1
          /\ DOMAIN trades = 1 .. Len(trades)
          /\ \A n \in 1 .. Len(trades) : trades'[n] = trades[n]
          /\ trades'[Len(trades) + 1] = t
      BY <3>1, <3>2, <3>3, <3>8
    <3>5. \A n \in DOMAIN trades' : n \in DOMAIN trades \/ n = Len(trades) + 1
      BY <3>3, <3>4
    <3>6. \A n \in DOMAIN trades : n \in DOMAIN trades'
      BY <3>3, <3>4
    <3>7. Len(trades') <= MaxTrades
      BY <3>2, <3>3, <3>4
    <3> QED BY <3>1, <3>2, <3>4, <3>5, <3>6, <3>7
  <2>2. ASSUME NEW n \in DOMAIN trades, Mark(n) \/ Leave(n)
        PROVE  /\ UNCHANGED <<today, reported>>
               /\ trades' \in Seq(Trades) /\ Len(trades') = Len(trades)
               /\ DOMAIN trades' = DOMAIN trades
               /\ \A k \in DOMAIN trades : trades'[k].entered = trades[k].entered
    <3>1. trades \in Seq(Trades) /\ trades[n] \in Trades
      BY <1>0 DEF StatsTypeOK
    <3>2. PICK t \in Trades : /\ trades' = [trades EXCEPT ![n] = t]
                              /\ t.entered = trades[n].entered
      <4>1. CASE Mark(n)
        <5>1. PICK p \in Pnls : trades' = [trades EXCEPT ![n].pnl = p]
          BY <4>1 DEF Mark
        <5>2. PICK t : t = [trades[n] EXCEPT !.pnl = p]
          OBVIOUS
        <5>3. t \in Trades /\ t.entered = trades[n].entered
          BY <3>1, <5>2 DEF Trades
        <5>4. trades' = [trades EXCEPT ![n] = t]
          BY <5>1, <5>2
        <5> QED BY <5>3, <5>4
      <4>2. CASE Leave(n)
        <5>1. PICK p \in Pnls \cup {NoPnl} :
                trades' = [trades EXCEPT ![n].closed = TRUE, ![n].pnl = p]
          BY <4>2 DEF Leave
        <5>2. PICK t : t = [trades[n] EXCEPT !.closed = TRUE, !.pnl = p]
          OBVIOUS
        <5>3. t \in Trades /\ t.entered = trades[n].entered
          BY <3>1, <5>2 DEF Trades
        <5>4. trades' = [trades EXCEPT ![n] = t]
          BY <3>1, <5>1, <5>2
        <5> QED BY <5>3, <5>4
      <4> QED BY <2>2, <4>1, <4>2
    <3>3. UNCHANGED <<today, reported>>
      BY <2>2 DEF Mark, Leave
    <3>4. /\ trades' \in Seq(Trades) /\ Len(trades') = Len(trades)
          /\ DOMAIN trades' = DOMAIN trades
      BY <3>1, <3>2
    <3>5. \A k \in DOMAIN trades : trades'[k] = IF k = n THEN t ELSE trades[k]
      BY <3>1, <3>2
    <3> QED BY <3>2, <3>3, <3>4, <3>5
  <2>3. CASE \E n \in DOMAIN trades : Mark(n) \/ Leave(n)
    <3>1. Len(trades) <= MaxTrades
      BY <1>0 DEF StatsTypeOK
    <3> QED BY <2>2, <2>3, <3>1
  <2> QED BY <2>1, <2>3
<1>2. StatsTypeOK'
  BY <1>0, <1>1 DEF StatsTypeOK
<1>3. ~Before(today, today)
  <2>1. today \in Months
    BY <1>0 DEF StatsTypeOK
  <2> QED BY <2>1, MonthsFollow
<1>4. EarlierTrades' = EarlierTrades
  BY <1>1, <1>3 DEF EarlierTrades
<1>5. /\ SumFunction([k \in DOMAIN reported |-> reported[k].total])
           = Cardinality(EarlierTrades)
      /\ reported' = reported
  BY <1>1 DEF StatsInv
<1> HIDE DEF EarlierTrades
<1>6. SumFunction([k \in DOMAIN reported' |-> reported'[k].total])
        = Cardinality(EarlierTrades')
  BY <1>4, <1>5, Zenon
<1> QED BY <1>2, <1>6 DEF StatsInv

\* The report of the month that ends counts those of its trades.
LEMMA NewMonthKeepsStats == StatsInv /\ NewMonth => StatsInv'
<1> SUFFICES ASSUME StatsInv, NewMonth PROVE StatsInv'
  OBVIOUS
<1>0. StatsTypeOK /\ today \in Months /\ trades \in Seq(Trades)
      /\ reported \in Seq(Reports) /\ Len(reported) \in Nat
  BY DEF StatsInv, StatsTypeOK
<1>1. /\ MonthAfter(today) \in Months /\ MonthBefore(MonthAfter(today)) = today
      /\ \A d \in Months :
           /\ Before(d, MonthAfter(today)) <=> Before(d, today) \/ d = today
           /\ ~(Before(d, today) /\ d = today)
  BY <1>0, MonthsFollow
<1>2. PICK s : s = ComputeMonthlyStats(today) /\ s \in Reports
  BY <1>0, ReportsAreTyped
<1>3. /\ today' = MonthAfter(today) /\ trades' = trades
      /\ reported' = Append(reported, s)
  BY <1>1, <1>2 DEF NewMonth
<1>4. StatsTypeOK'
  BY <1>0, <1>1, <1>2, <1>3 DEF StatsTypeOK
<1> DEFINE L    == Len(reported)
           Now  == {n \in DOMAIN trades : trades[n].entered = today}
<1>5. s.total = Cardinality(Now)
  <2>1. s.total = Cardinality(MonthRows(today))
    BY <1>2 DEF ComputeMonthlyStats
  <2>2. MonthRows(today) = Now
    BY <1>0, RowsOfMonth
  <2> QED BY <2>1, <2>2, Zenon
<1>6. PICK f, g : /\ f = [k \in DOMAIN reported |-> reported[k].total]
                  /\ g = [k \in DOMAIN reported' |-> reported'[k].total]
  OBVIOUS
<1>7. /\ DOMAIN f = 1 .. L /\ DOMAIN g = 1 .. (L + 1)
      /\ \A k \in 1 .. L : f[k] = g[k] /\ f[k] \in Int
      /\ g[L + 1] = s.total
  <2>1. /\ DOMAIN reported = 1 .. L /\ DOMAIN reported' = 1 .. (L + 1)
        /\ \A k \in 1 .. L : reported'[k] = reported[k] /\ reported[k] \in Reports
        /\ reported'[L + 1] = s
    BY <1>0, <1>2, <1>3
  <2>2. \A k \in 1 .. L : k \in 1 .. (L + 1)
    BY <1>0
  <2>3. L + 1 \in 1 .. (L + 1)
    BY <1>0
  <2>4. \A r \in Reports : r.total \in Int
    BY DEF Reports
  <2> QED BY <1>6, <2>1, <2>2, <2>3, <2>4
<1>8. EarlierTrades' = EarlierTrades \cup Now /\ EarlierTrades \cap Now = {}
  <2>1. \A n \in DOMAIN trades : trades[n].entered \in Months
    BY <1>0, TradeFields
  <2> QED BY <1>1, <1>3, <2>1 DEF EarlierTrades
<1>9. /\ IsFiniteSet(EarlierTrades) /\ IsFiniteSet(Now)
      /\ Cardinality(EarlierTrades) \in Nat /\ Cardinality(Now) \in Nat
  <2>1. EarlierTrades \in SUBSET DOMAIN trades /\ Now \in SUBSET DOMAIN trades
    BY DEF EarlierTrades
  <2> HIDE DEF Now
  <2> QED BY <1>0, <2>1, TradesAreFinite
<1> HIDE DEF L, Now
<1>10. Cardinality(EarlierTrades') = Cardinality(EarlierTrades) + Cardinality(Now)
  <2>1. Cardinality(EarlierTrades \cup Now) = Cardinality(EarlierTrades) + Cardinality(Now)
                                        - Cardinality(EarlierTrades \cap Now)
    BY <1>9, FS_Union
  <2>2. Cardinality(EarlierTrades \cap Now) = 0
    <3>1. Cardinality({}) = 0
      BY FS_EmptySet
    <3> QED BY <1>8, <3>1, Zenon
  <2>3. Cardinality(EarlierTrades') = Cardinality(EarlierTrades \cup Now)
    BY <1>8, Zenon
  <2> QED BY <1>9, <2>1, <2>2, <2>3
<1>11. SumFunctionOnSet(f, 1 .. L) = Cardinality(EarlierTrades)
  <2>1. SumFunction(f) = Cardinality(EarlierTrades)
    BY <1>6, Zenon DEF StatsInv
  <2> QED BY <1>7, <2>1, Zenon DEF SumFunction
<1>12. SumFunctionOnSet(g, 1 .. (L + 1)) = s.total + SumFunctionOnSet(f, 1 .. L)
  <2>0. L \in Nat
    BY <1>0 DEF L
  <2>1. 1 \in Int /\ L \in Int /\ L + 1 \in Int /\ L + 1 \in 1 .. (L + 1)
    BY <2>0
  <2>2. IsFiniteSet(1 .. L) /\ IsFiniteSet(1 .. (L + 1))
    BY <2>1, FS_Interval
  <2>3. (1 .. (L + 1)) \ {L + 1} = 1 .. L
    BY <2>0
  <2>4. s.total \in Int
    BY <1>5, <1>9
  <2>5. \A k \in 1 .. (L + 1) : g[k] \in Int
    <3>1. \A k \in 1 .. (L + 1) : k = L + 1 \/ k \in 1 .. L
      BY <2>0
    <3> QED BY <1>7, <2>4, <3>1
  <2>6. SumFunctionOnSet(g, 1 .. (L + 1)) =
          g[L + 1] + SumFunctionOnSet(g, (1 .. (L + 1)) \ {L + 1})
    BY <2>1, <2>2, <2>5, SumOfOneMore
  <2>7. SumFunctionOnSet(g, 1 .. L) = SumFunctionOnSet(f, 1 .. L)
    <3>1. PICK K : K = 1 .. L
      OBVIOUS
    <3>2. IsFiniteSet(K) /\ \A k \in K : g[k] \in Int /\ f[k] = g[k]
      BY <1>7, <2>2, <3>1
    <3>3. K \in SUBSET K /\ \A k \in K \ K : g[k] = 0
      OBVIOUS
    <3>4. SumFunctionOnSet(g, K) = SumFunctionOnSet(f, K)
      BY <3>2, <3>3, SumWithoutZeros
    <3> QED BY <3>1, <3>4
  <2>8. SumFunctionOnSet(g, (1 .. (L + 1)) \ {L + 1}) =
          SumFunctionOnSet(f, 1 .. L)
    BY <2>3, <2>7, Zenon
  <2> QED BY <1>7, <2>6, <2>8, Zenon
<1>13. SumFunction(g) = Cardinality(EarlierTrades')
  <2>1. SumFunction(g) = SumFunctionOnSet(g, 1 .. (L + 1))
    BY <1>7, Zenon DEF SumFunction
  <2> QED BY <1>5, <1>9, <1>10, <1>11, <1>12, <2>1
<1> QED BY <1>4, <1>6, <1>13 DEF StatsInv

LEMMA StatsInvStep == StatsInv /\ [StatsNext]_statsVars => StatsInv'
<1> SUFFICES ASSUME StatsInv, [StatsNext]_statsVars PROVE StatsInv'
  OBVIOUS
<1>1. CASE Enter \/ \E n \in DOMAIN trades : Mark(n) \/ Leave(n)
  BY <1>1, TradesKeepStats
<1>2. CASE NewMonth
  BY <1>2, NewMonthKeepsStats
<1>3. CASE UNCHANGED statsVars
  BY <1>3 DEF statsVars, StatsInv, StatsTypeOK, EarlierTrades
<1> QED BY <1>1, <1>2, <1>3 DEF StatsNext

\* The gross results of closed trades are those of all that have one.
LEMMA GrossIsNet ==
  ASSUME StatsTypeOK, NEW known \in SUBSET DOMAIN trades,
         \A n \in known : trades[n].pnl # NoPnl
  PROVE  SumOfPnl({n \in known : trades[n].pnl > 0})
           + SumOfPnl({n \in known : trades[n].pnl < 0}) = SumOfPnl(known)
<1>1. PICK p, gain, loss :
        /\ p = [n \in DOMAIN trades |-> trades[n].pnl]
        /\ gain = {n \in known : trades[n].pnl > 0}
        /\ loss = {n \in known : trades[n].pnl < 0}
  OBVIOUS
<1>2. /\ IsFiniteSet(known) /\ (\A n \in known : p[n] \in Int)
      /\ SumOfPnl(known) = SumFunctionOnSet(p, known)
  BY <1>1, PnlSums
<1>3. /\ IsFiniteSet(gain) /\ SumOfPnl(gain) = SumFunctionOnSet(p, gain)
      /\ IsFiniteSet(loss) /\ SumOfPnl(loss) = SumFunctionOnSet(p, loss)
  <2>1. /\ gain \in SUBSET DOMAIN trades /\ loss \in SUBSET DOMAIN trades
        /\ \A n \in gain : trades[n].pnl # NoPnl
        /\ \A n \in loss : trades[n].pnl # NoPnl
    BY <1>1
  <2> QED BY <1>1, <2>1, PnlSums
<1>4. \A n \in known : p[n] = trades[n].pnl
  BY <1>1
<1>5. /\ gain \cap loss = {} /\ gain \cup loss \in SUBSET known
      /\ \A n \in gain \cup loss : p[n] \in Int
      /\ \A n \in known \ (gain \cup loss) : p[n] = 0
  BY <1>1, <1>2, <1>4
<1>6. SumFunctionOnSet(p, gain \cup loss) =
        SumFunctionOnSet(p, gain) + SumFunctionOnSet(p, loss)
  BY <1>3, <1>5, SumOfDisjoint
<1>7. SumFunctionOnSet(p, known) = SumFunctionOnSet(p, gain \cup loss)
  BY <1>2, <1>5, SumWithoutZeros
<1> QED BY <1>1, <1>2, <1>3, <1>6, <1>7

LEMMA StatsExact == StatsInv => StatsAreExact
<1> SUFFICES ASSUME StatsInv PROVE StatsAreExact
  OBVIOUS
<1>0. StatsTypeOK /\ today \in Months
  BY DEF StatsInv, StatsTypeOK
<1>1. PICK known : known = {n \in DOMAIN trades : /\ trades[n].entered = today
                                                  /\ trades[n].pnl # NoPnl}
  OBVIOUS
<1>2. /\ known \in SUBSET DOMAIN trades
      /\ \A n \in known : trades[n].pnl # NoPnl
      /\ known = {n \in MonthRows(today) : trades[n].pnl # NoPnl}
  BY <1>0, <1>1, RowsOfMonth
<1>3. PICK s : s = ComputeMonthlyStats(today)
  OBVIOUS
<1>4. PICK closed, gain, loss :
        /\ closed = {n \in MonthRows(today) : trades[n].closed}
        /\ gain = {n \in known \cap closed : trades[n].pnl > 0}
        /\ loss = {n \in known \cap closed : trades[n].pnl < 0}
        /\ s.gross_profit = SumOfPnl(gain) /\ s.gross_loss = SumOfPnl(loss)
        /\ s.net = SumOfPnl(known) /\ s.drawdown = MaxDrawdown(known)
  BY <1>2, <1>3 DEF ComputeMonthlyStats
<1>5. s.drawdown = -LargestFall(known)
  BY <1>0, <1>2, <1>4, DrawdownIsLargestFall
<1>6. ASSUME \A n \in known : trades[n].closed
      PROVE  s.gross_profit + s.gross_loss = s.net
  <2>1. known \cap closed = known
    BY <1>2, <1>4, <1>6
  <2>2. /\ gain = {n \in known : trades[n].pnl > 0}
        /\ loss = {n \in known : trades[n].pnl < 0}
    BY <1>4, <2>1
  <2>3. SumOfPnl(gain) + SumOfPnl(loss) = SumOfPnl(known)
    BY <1>0, <1>2, <2>2, GrossIsNet
  <2> QED BY <1>4, <2>3
<1>7. SumFunction([k \in DOMAIN reported |-> reported[k].total])
        = Cardinality({n \in DOMAIN trades : Before(trades[n].entered, today)})
  BY Zenon DEF StatsInv, EarlierTrades
<1> QED BY <1>1, <1>3, <1>5, <1>6, <1>7 DEF StatsAreExact

\* The statistics keep their types: a total is a count, a result a number, and
\* that holds of every report compute_monthly_stats has made.
THEOREM StatsTypes == StatsSpec => []StatsTypeOK
<1>1. StatsSpec => []StatsInv
  BY StatsInvInit, StatsInvStep, PTL DEF StatsSpec
<1>2. StatsInv => StatsTypeOK
  BY DEF StatsInv
<1> QED BY <1>1, <1>2, PTL

\* For every table and every span of months, the monthly reports count each
\* trade once, over the turn of the year too (compute_last_month_stats); the
\* peak-tracking loop of _compute_max_drawdown returns the largest fall of the
\* equity; and the gross results of a month of closed trades make its net one.
THEOREM StatsStayExact == StatsSpec => []StatsAreExact
<1>1. StatsSpec => []StatsInv
  BY StatsInvInit, StatsInvStep, PTL DEF StatsSpec
<1> QED BY <1>1, StatsExact, PTL
=============================================================================
