---------------------------- MODULE RecordsProofs ----------------------------
(***************************************************************************)
(* What is worked out from the records stays true of them: an order has    *)
(* the value chosen for it or what that value was merged into, a verdict   *)
(* on a document is one the document bears out, the groups are told of a   *)
(* completed order, an open order is one screen's work, a bill's number is *)
(* read alike wherever it is read, and so is the month of an employee.  And*)
(* the run that has them side by side keeps their shapes.                  *)
(***************************************************************************)
EXTENDS MCRecords, FiniteSetTheorems, SequenceTheorems, WellFoundedInduction, TLAPS

-----------------------------------------------------------------------------
(**************************************************************************)
(* Merges of a list: whatever is merged, renamed, added and deleted      *)
(* while orders change their value, an order has the value chosen for    *)
(* it, or what that value was merged into.                               *)
(**************************************************************************)

\* A merge under way: the orders it has moved still stand where it found them, locked, and as
\* long as there are any their new value cannot be deleted.
MergeHolds ==
    merging # Gone =>
        /\ merging.target \notin merging.sources
        /\ \A o \in merging.moved : order[o].status \in merging.sources
        /\ merging.moved # {} => merging.target \in Rows

\* A row of the list was not merged into another.
RowsStandForThemselves == \A k \in Rows : into[k] = k

ListsInv == ListsTypeOK /\ MergeHolds /\ RowsStandForThemselves /\ OrdersFollowTheMerges

LEMMA NamesAreNotGone == Gone \notin Names
BY GoneAssumption DEF Names

LEMMA ListsStart == ListsInit => ListsInv
<1> SUFFICES ASSUME ListsInit PROVE ListsInv
  OBVIOUS
<1>1. ListsTypeOK
  BY DEF ListsInit, ListsTypeOK
<1>2. MergeHolds
  BY DEF ListsInit, MergeHolds
<1>3. OrdersFollowTheMerges
  BY DEF ListsInit, OrdersFollowTheMerges
<1>4. RowsStandForThemselves
  BY DEF ListsInit, RowsStandForThemselves, Rows
<1> QED BY <1>1, <1>2, <1>3, <1>4 DEF ListsInv

(***************************************************************************)
(* Steps outside a merge.                                                  *)
(***************************************************************************)

LEMMA SetStatusKeeps ==
    ASSUME ListsInv, NEW o \in Orders, NEW k \in Keys, SetStatus(o, k)
    PROVE  ListsInv'
<1> USE DEF ListsInv, SetStatus
<1>0. k # Gone /\ Rows' = Rows /\ merging' = merging /\ into' = into
  BY GoneAssumption DEF Rows
<1>1. ListsTypeOK'
  BY DEF ListsTypeOK
<1>2. \A p \in Orders \ {o} : order'[p] = order[p] /\ chosen'[p] = chosen[p]
  BY DEF ListsTypeOK
<1>3. order'[o].status = k /\ chosen'[o] = k
  BY DEF ListsTypeOK
<1>4. MergeHolds'
  <2> SUFFICES ASSUME merging # Gone PROVE MergeHolds'
    BY <1>0 DEF MergeHolds
  <2>1. o \notin merging.moved
    BY DEF Locked
  <2>2. merging.moved \subseteq Orders
    BY DEF ListsTypeOK
  <2> QED BY <1>0, <1>2, <2>1, <2>2 DEF MergeHolds
<1>5. k \in Rows
  OBVIOUS
<1>6. into[k] = k
  BY <1>5 DEF RowsStandForThemselves
<1>7. OrdersFollowTheMerges'
  BY <1>0, <1>2, <1>3, <1>5, <1>6 DEF OrdersFollowTheMerges
<1>8. RowsStandForThemselves'
  BY <1>0 DEF RowsStandForThemselves
<1> QED BY <1>1, <1>4, <1>7, <1>8

\* A row that comes or changes its name, while every other row stays.
LEMMA NamingKeeps ==
    ASSUME ListsInv, NEW k \in Keys, NEW name \in Names,
           k \in Rows \/ into[k] = k,
           value' = [value EXCEPT ![k] = name],
           UNCHANGED <<order, merging, chosen, into>>
    PROVE  ListsInv'
<1> USE DEF ListsInv
<1>1. ListsTypeOK'
  BY DEF ListsTypeOK
<1>2. Rows' = Rows \cup {k}
  BY NamesAreNotGone DEF Rows, ListsTypeOK
<1>3. MergeHolds'
  BY <1>2 DEF MergeHolds
<1>4. RowsStandForThemselves'
  BY <1>2 DEF RowsStandForThemselves
<1>5. OrdersFollowTheMerges'
  BY <1>2 DEF OrdersFollowTheMerges
<1> QED BY <1>1, <1>3, <1>4, <1>5

LEMMA DeleteKeeps ==
    ASSUME ListsInv, NEW k \in Keys, DeleteLookup(k)
    PROVE  ListsInv'
<1> USE DEF ListsInv, DeleteLookup
<1>1. ListsTypeOK'
  BY DEF ListsTypeOK
<1>2. Rows' = Rows \ {k}
  BY DEF Rows, ListsTypeOK
<1>3. \A o \in Orders : order[o].status # k
  BY DEF UsedBy
<1>4. MergeHolds'
  BY <1>2 DEF MergeHolds
<1>5. RowsStandForThemselves'
  BY <1>2 DEF RowsStandForThemselves
<1>6. OrdersFollowTheMerges'
  BY <1>2, <1>3 DEF OrdersFollowTheMerges
<1> QED BY <1>1, <1>4, <1>5, <1>6

(***************************************************************************)
(* The merge.                                                              *)
(***************************************************************************)

LEMMA BeginMergeKeeps ==
    ASSUME ListsInv, NEW target \in Keys, NEW sources \in SUBSET Keys, BeginMerge(target, sources)
    PROVE  ListsInv'
<1> DEFINE m == [target |-> target, sources |-> sources, cancels |-> value[target] = "cancelled",
                 moved |-> UNION {UsedBy(k) : k \in sources}]
<1>0. /\ merging' = m /\ UNCHANGED <<value, order, chosen, into>>
      /\ target \in Rows /\ target \notin sources
  BY DEF BeginMerge
<1>1. m.target = target /\ m.sources = sources /\ m.moved = UNION {UsedBy(k) : k \in sources}
  OBVIOUS
<1>2. m.moved \subseteq Orders /\ \A o \in m.moved : order[o].status \in sources
  BY <1>1 DEF UsedBy
<1> HIDE DEF m
<1>3. ListsTypeOK'
  BY <1>0, <1>1, <1>2 DEF ListsInv, ListsTypeOK
<1>4. Rows' = Rows
  BY <1>0 DEF Rows
<1>5. MergeHolds'
  BY <1>0, <1>1, <1>2, <1>4 DEF MergeHolds
<1>6. RowsStandForThemselves' /\ OrdersFollowTheMerges'
  BY <1>0, <1>4 DEF ListsInv, RowsStandForThemselves, OrdersFollowTheMerges
<1> QED BY <1>3, <1>5, <1>6 DEF ListsInv

LEMMA MergeFailsKeeps ==
    ASSUME ListsInv, MergeFails
    PROVE  ListsInv'
<1>1. Rows' = Rows
  BY DEF MergeFails, Rows
<1> QED
  BY <1>1 DEF ListsInv, MergeFails, ListsTypeOK, MergeHolds, RowsStandForThemselves, OrdersFollowTheMerges

\* Nobody has taken a merged value meanwhile, or the merge would not end: the orders it moved are
\* all there are, and what they had stands for the target from now on.
LEMMA FinishMergeKeeps ==
    ASSUME ListsInv, FinishMerge
    PROVE  ListsInv'
<1> DEFINE t == merging.target
           S == merging.sources
           M == merging.moved
<1>0. /\ t \in Keys /\ S \subseteq Keys /\ M \subseteq Orders /\ t \notin S
      /\ \A o \in M : order[o].status \in S
      /\ M # {} => t \in Rows
  BY DEF ListsInv, FinishMerge, ListsTypeOK, MergeHolds
<1>1. \A o \in Orders : order[o].status \in S <=> o \in M
  <2>1. \A o \in Orders : order[o].status \in S => o \in M
    BY DEF FinishMerge, Stragglers, UsedBy
  <2> QED BY <1>0, <2>1
<1>2. \A o \in Orders : /\ order'[o].status = IF o \in M THEN t ELSE order[o].status
                        /\ order'[o].cancelled \in BOOLEAN
  BY DEF FinishMerge, MovedByMerge, ListsInv, ListsTypeOK
<1>3. /\ into' = [k \in Keys |-> IF into[k] \in S THEN t ELSE into[k]]
      /\ value' = [k \in Keys |-> IF k \in S THEN Gone ELSE value[k]]
      /\ merging' = Gone /\ chosen' = chosen
  BY DEF FinishMerge
<1>4. Rows' = Rows \ S
  BY <1>3 DEF Rows
<1>5. order' \in [Orders -> [status : Keys \cup {Gone}, cancelled : BOOLEAN]]
  BY <1>0 DEF FinishMerge, MovedByMerge, ListsInv, ListsTypeOK
<1> HIDE DEF t, S, M
<1>6. ListsTypeOK'
  BY <1>0, <1>3, <1>5 DEF ListsInv, ListsTypeOK
<1>7. MergeHolds'
  BY <1>3 DEF MergeHolds
<1>8. RowsStandForThemselves'
  BY <1>3, <1>4 DEF ListsInv, RowsStandForThemselves, Rows
<1>9. OrdersFollowTheMerges'
  <2> SUFFICES ASSUME NEW o \in Orders
               PROVE  /\ order'[o].status = IF chosen'[o] = Gone THEN Gone ELSE into'[chosen'[o]]
                      /\ order'[o].status # Gone => order'[o].status \in Rows'
    BY DEF OrdersFollowTheMerges
  <2>1. /\ order[o].status = IF chosen[o] = Gone THEN Gone ELSE into[chosen[o]]
        /\ order[o].status # Gone => order[o].status \in Rows
    BY DEF ListsInv, OrdersFollowTheMerges
  <2>2. chosen[o] \in Keys \cup {Gone} /\ Gone \notin S
    BY <1>0, GoneAssumption DEF ListsInv, ListsTypeOK
  <2>3. CASE o \in M
    BY <1>0, <1>1, <1>2, <1>3, <1>4, <2>1, <2>2, <2>3
  <2>4. CASE o \notin M
    BY <1>1, <1>2, <1>3, <1>4, <2>1, <2>2, <2>4
  <2> QED BY <2>3, <2>4
<1> QED BY <1>6, <1>7, <1>8, <1>9 DEF ListsInv

LEMMA ListsStep == ListsInv /\ [ListsNext]_listVars => ListsInv'
<1> SUFFICES ASSUME ListsInv, [ListsNext]_listVars PROVE ListsInv'
  OBVIOUS
<1>1. ASSUME NEW o \in Orders, NEW k \in Keys, SetStatus(o, k) PROVE ListsInv'
  BY <1>1, SetStatusKeeps
<1>2. ASSUME NEW k \in Keys, NEW name \in Names, AddLookup(k, name) PROVE ListsInv'
  BY <1>2, NamingKeeps DEF AddLookup
<1>3. ASSUME NEW k \in Keys, NEW name \in Names, RenameLookup(k, name) PROVE ListsInv'
  BY <1>3, NamingKeeps DEF RenameLookup
<1>4. ASSUME NEW k \in Keys, NEW name \in Names, Rename(k, name) PROVE ListsInv'
  BY <1>4, <1>3 DEF Rename
<1>5. ASSUME NEW k \in Keys, DeleteLookup(k) PROVE ListsInv'
  BY <1>5, DeleteKeeps
<1>6. ASSUME NEW k \in Keys, NEW sources \in SUBSET Keys, BeginMerge(k, sources) PROVE ListsInv'
  BY <1>6, BeginMergeKeeps
<1>7. CASE FinishMerge
  BY <1>7, FinishMergeKeeps
<1>8. CASE MergeFails
  BY <1>8, MergeFailsKeeps
<1>9. CASE UNCHANGED listVars
  BY <1>9 DEF listVars, ListsInv, ListsTypeOK, MergeHolds, RowsStandForThemselves, OrdersFollowTheMerges, Rows
<1> QED BY <1>1, <1>2, <1>3, <1>4, <1>5, <1>6, <1>7, <1>8, <1>9 DEF ListsNext

\* Every order has the value chosen for it or the one it was merged into (merge of reconcile.py),
\* for any list, any orders, and any overlap of merges with renames, deletes and edits.
THEOREM MergesAreFollowed == ListsSpec => []OrdersFollowTheMerges
<1>1. ListsSpec => []ListsInv
  BY ListsStart, ListsStep, PTL DEF ListsSpec
<1>2. ListsInv => OrdersFollowTheMerges
  BY DEF ListsInv
<1> QED BY <1>1, <1>2, PTL

-----------------------------------------------------------------------------
(**************************************************************************)
(* The document check: what is kept of a document shows no more than the *)
(* document does.                                                        *)
(**************************************************************************)

Showings == [numbers : SUBSET Numbers, dates : SUBSET BillDates, labelled : SUBSET BillDates]
Kept == [readable : BOOLEAN, method : {"none", "pdf_text", "vision"}, shows : Showings]

(* What is kept of a document shows no more than the document does. *)
ReadsItsPaper(r, p) ==
    /\ p # NoPaper /\ r \in Kept
    /\ r.shows.numbers \subseteq p.numbers /\ r.shows.dates \subseteq p.dates
    /\ r.shows.labelled \subseteq p.dates
    /\ r.method = "pdf_text" => r.shows.labelled = p.labelled

ReadsArePapers ==
    \A d \in Documents : read[d] = NotRead \/ ReadsItsPaper(read[d], printed[d])

DocShape ==
    /\ printed \in [Documents -> Papers \cup {NoPaper}]
    /\ DOMAIN read = Documents /\ read = [d \in Documents |-> read[d]]

DocInv == DocShape /\ ReadsArePapers

LEMMA PaperShape ==
    ASSUME NEW p \in Papers
    PROVE  /\ p \in [kind : {"pdf", "scan", "photo"}, numbers : SUBSET Numbers,
                     dates : SUBSET BillDates, labelled : SUBSET BillDates]
           /\ p.labelled \subseteq p.dates /\ p # NoPaper
  BY PapersAssumption DEF NoPaper

LEMMA PerfectPaper == DocInv => PerfectIsTrue
  <1> SUFFICES ASSUME DocInv, Verdict = "perfect"
               PROVE  \E d \in Attached :
                          /\ printed[d].numbers \cap entered.expected # {}
                          /\ entered.date \in printed[d].dates
                          /\ printed[d].kind = "pdf" /\ read[d].method = "pdf_text" /\ printed[d].labelled # {}
                                => entered.date \in printed[d].labelled
    BY DEF PerfectIsTrue
  <1> DEFINE done == {d \in Attached : Done(d)}
             readable == {read[d] : d \in {d \in done : read[d].readable}}
             V == CASE Attached = {} -> "none"
                    [] Attached # {} /\ done = {} ->
                         IF ~readerOn /\ \A d \in Attached : printed[d].kind = "photo" THEN "skipped" ELSE "unchecked"
                    [] done # {} /\ readable = {} -> "unreadable"
                    [] readable # {} ->
                         IF entered.expected = {} THEN "review"
                         ELSE IF \E r \in readable : NumberMatches(r) /\ DateMatches(r) THEN "perfect"
                         ELSE IF \E r \in readable : NumberMatches(r) /\ Pool(r) = {} THEN "review"
                         ELSE "mismatch"
  <1>1. V = "perfect"
    BY DEF Verdict
  <1>2. \E r \in readable : NumberMatches(r) /\ DateMatches(r)
    <2>1. done \subseteq Attached /\ (done = {} => readable = {})
      OBVIOUS
    <2> HIDE DEF done, readable
    <2>2. readable # {}
      BY <1>1, <2>1
    <2> QED
      BY <1>1, <2>1, <2>2
  <1>3. PICK d \in Attached : Done(d) /\ NumberMatches(read[d]) /\ DateMatches(read[d])
    BY <1>2
  <1>4. d \in Documents /\ read[d] # NotRead
    BY <1>3 DEF Attached, Done, NotRead
  <1>5. ReadsItsPaper(read[d], printed[d])
    BY <1>4 DEF DocInv, ReadsArePapers
  <1>6. read[d].shows.numbers \cap entered.expected # {}
    BY <1>3 DEF NumberMatches
  <1>7. entered.date \in (IF read[d].shows.labelled # {} THEN read[d].shows.labelled ELSE read[d].shows.dates)
    BY <1>3 DEF DateMatches, Pool
  <1> QED
    BY <1>5, <1>6, <1>7 DEF ReadsItsPaper

LEMMA DocStart == DocInit => DocInv
  BY DEF DocInit, DocInv, DocShape, ReadsArePapers

(* What read_attachment may keep of a document. *)
LEMMA ReadingShowsPaper ==
    ASSUME NEW p \in Papers, NEW r \in Readings(p)
    PROVE  ReadsItsPaper(r, p)
  <1>1. /\ p.numbers \subseteq Numbers /\ p.dates \subseteq BillDates /\ p.labelled \subseteq BillDates
        /\ p.labelled \subseteq p.dates /\ p # NoPaper
    BY PaperShape
  <1>2. CASE r = Unreadable
    <2>1. Nothing \in Showings /\ Nothing.numbers = {} /\ Nothing.dates = {} /\ Nothing.labelled = {}
      BY DEF Nothing, Showings
    <2>2. r \in Kept /\ r.shows = Nothing /\ r.method = "none"
      BY <1>2, <2>1 DEF Unreadable, Kept
    <2> QED
      BY <1>1, <2>1, <2>2 DEF ReadsItsPaper
  <1>3. CASE r = [readable |-> TRUE, method |-> "pdf_text", shows |-> Shows(p)]
    <2>1. /\ Shows(p) \in Showings /\ Shows(p).numbers = p.numbers /\ Shows(p).dates = p.dates
          /\ Shows(p).labelled = p.labelled
      BY <1>1 DEF Shows, Showings
    <2>2. r \in Kept /\ r.shows = Shows(p)
      BY <1>3, <2>1 DEF Kept
    <2> QED
      BY <1>1, <2>1, <2>2 DEF ReadsItsPaper
  <1>4. ASSUME NEW g \in Glimpses(p),
               r = [readable |-> g.numbers \cup g.dates # {}, method |-> "vision",
                    shows |-> [numbers |-> g.numbers, dates |-> g.dates, labelled |-> g.dates]]
        PROVE  ReadsItsPaper(r, p)
    <2> DEFINE s == [numbers |-> g.numbers, dates |-> g.dates, labelled |-> g.dates]
    <2>1. g.numbers \subseteq p.numbers /\ g.dates \subseteq p.dates
      BY DEF Glimpses
    <2>2. s \in Showings /\ s.numbers = g.numbers /\ s.dates = g.dates /\ s.labelled = g.dates
      BY <1>1, <2>1 DEF Showings
    <2>3. r.shows = s /\ r.method = "vision" /\ r \in [readable : BOOLEAN, method : {"none", "pdf_text", "vision"}, shows : {s}]
      BY <1>4
    <2> HIDE DEF s
    <2>4. r \in Kept
      BY <2>2, <2>3 DEF Kept
    <2> QED
      BY <1>1, <2>1, <2>2, <2>3, <2>4 DEF ReadsItsPaper
  <1> QED
    BY <1>2, <1>3, <1>4 DEF Readings

LEMMA DocStep == DocInv /\ [DocNext]_docVars => DocInv'
  <1> SUFFICES ASSUME DocInv, [DocNext]_docVars
               PROVE  DocInv'
    OBVIOUS
  <1> USE DEF DocInv
  <1>0. ASSUME UNCHANGED <<printed, read>>
        PROVE  DocInv'
    BY <1>0 DEF DocShape, ReadsArePapers
  <1>1. ASSUME NEW d \in Documents, NEW paper \in Papers, Attach(d, paper)
        PROVE  DocInv'
    <2>1. printed[d] = NoPaper /\ printed' = [printed EXCEPT ![d] = paper] /\ read' = read
      BY <1>1 DEF Attach
    <2>2. read[d] = NotRead
      BY <2>1 DEF ReadsArePapers, ReadsItsPaper
    <2> QED
      BY <2>1, <2>2 DEF DocShape, ReadsArePapers
  <1>2. ASSUME NEW d \in Documents, Detach(d)
        PROVE  DocInv'
    BY <1>2 DEF Detach, DocShape, ReadsArePapers
  <1>3. ASSUME NEW r \in Readers, NEW d \in Documents, ReadOne(r, d)
        PROVE  DocInv'
    <2>1. d \in Attached /\ printed' = printed
      BY <1>3 DEF ReadOne
    <2>2. PICK kept \in Readings(printed[d]) : read' = [read EXCEPT ![d] = kept]
      BY <1>3 DEF ReadOne
    <2>3. printed[d] \in Papers
      BY <2>1 DEF Attached, DocShape
    <2>4. ReadsItsPaper(kept, printed[d])
      BY <2>3, ReadingShowsPaper
    <2> QED
      BY <2>1, <2>2, <2>4 DEF DocShape, ReadsArePapers
  <1>4. CASE UNCHANGED docVars
    BY <1>0, <1>4 DEF docVars
  <1>5. ASSUME NEW expected \in Entered, NEW date \in BillDates, EditOrder(expected, date)
        PROVE  DocInv'
    BY <1>0, <1>5 DEF EditOrder
  <1>6. CASE SwitchReader
    BY <1>0, <1>6 DEF SwitchReader
  <1>7. ASSUME NEW r \in Readers, NEW refresh \in BOOLEAN, BeginReading(r, refresh)
        PROVE  DocInv'
    BY <1>0, <1>7 DEF BeginReading
  <1>8. ASSUME NEW r \in Readers, NEW d \in Documents, ReadFails(r, d)
        PROVE  DocInv'
    BY <1>0, <1>8 DEF ReadFails
  <1> QED
    BY <1>1, <1>2, <1>3, <1>4, <1>5, <1>6, <1>7, <1>8 DEF DocNext

(* "PERFECT only when the number AND the date on the document are the ones on the order" (app/doc_check.py): for *)
(* any papers and readers, the mark stands for a paper that is attached now and shows both.                      *)
THEOREM PerfectStaysTrue == DocSpec => []PerfectIsTrue
  <1> QED
    BY DocStart, DocStep, PerfectPaper, PTL DEF DocSpec

-----------------------------------------------------------------------------
(**************************************************************************)
(* The dispatch message: a save whose fields complete the order hands    *)
(* over one message.                                                     *)
(**************************************************************************)

(* A message was handed over for fields that are complete. *)
ToldIsComplete ==
    /\ told.dispatch > 0 => DispatchFields \subseteq filled
    /\ told.receiving > 0 => ReceivingFields \subseteq filled

(* Of the receiving fields, what a save has read is still there, unless they were written around the *)
(* screens.                                                                                          *)
ReadHolds(before) == "around" \in excused \/ ReceivingFields \cap before \subseteq filled
ReadIsThere == \A s \in Savers : req[s] # Rest => ReadHolds(req[s].before)

ToldShape ==
    /\ told \in [{"dispatch", "receiving"} -> 0..2]
    /\ DOMAIN req = Savers /\ req = [s \in Savers |-> req[s]]

AlertInv == ToldShape /\ ToldIsComplete /\ ReadIsThere /\ GroupsAreTold

LEMMA AlertStart == AlertInit => AlertInv
  <1> SUFFICES ASSUME AlertInit
               PROVE  AlertInv
    OBVIOUS
  <1>1. told \in [{"dispatch", "receiving"} -> 0..2] /\ told.dispatch = 0 /\ told.receiving = 0
    BY DEF AlertInit
  <1>2. filled = {} /\ req = [s \in Savers |-> Rest]
    BY DEF AlertInit
  <1> QED
    BY <1>1, <1>2 DEF AlertInv, ToldShape, ToldIsComplete, ReadIsThere, GroupsAreTold, ReceivingFields

(* What a save hands to the pool: the dispatch message, the receiving message, or none. *)
LEMMA MessagesOfSave ==
    ASSUME NEW screen, NEW before, NEW after
    PROVE  /\ Has(Messages(screen, before, after), "dispatch") <=>
                 TellsDispatch(screen) /\ FirstDispatch(before, after)
           /\ Has(Messages(screen, before, after), "receiving") <=>
                 TellsReceiving(screen) /\ FirstReceiving(before, after)
  <1>1. /\ <<"dispatch">> \o <<>> = <<"dispatch">> /\ <<>> \o <<"receiving">> = <<"receiving">>
        /\ <<>> \o <<>> = <<>>
    <2>1. <<"dispatch">> \in Seq({"dispatch", "receiving"}) /\ <<"receiving">> \in Seq({"dispatch", "receiving"})
          /\ <<>> \in Seq({"dispatch", "receiving"})
      OBVIOUS
    <2> QED
      BY <2>1, ConcatEmptySeq
  <1>2. Has(<<"dispatch">>, "dispatch") /\ ~Has(<<"dispatch">>, "receiving")
    BY DEF Has
  <1>3. Has(<<"receiving">>, "receiving") /\ ~Has(<<"receiving">>, "dispatch")
    BY DEF Has
  <1>4. ~Has(<<>>, "receiving") /\ ~Has(<<>>, "dispatch")
    BY DEF Has
  <1>5. CASE TellsDispatch(screen) /\ FirstDispatch(before, after)
    <2>1. Messages(screen, before, after) = <<"dispatch">>
      BY <1>1, <1>5 DEF Messages, TellsDispatch, TellsReceiving
    <2> QED
      BY <1>2, <1>5, <2>1 DEF TellsDispatch, TellsReceiving
  <1>6. CASE TellsReceiving(screen) /\ FirstReceiving(before, after)
    <2>1. Messages(screen, before, after) = <<"receiving">>
      BY <1>1, <1>6 DEF Messages, TellsDispatch, TellsReceiving
    <2> QED
      BY <1>3, <1>6, <2>1 DEF TellsDispatch, TellsReceiving
  <1>7. CASE /\ ~(TellsDispatch(screen) /\ FirstDispatch(before, after))
             /\ ~(TellsReceiving(screen) /\ FirstReceiving(before, after))
    <2>1. Messages(screen, before, after) = <<>>
      BY <1>1, <1>7 DEF Messages
    <2> QED
      BY <1>4, <1>7, <2>1
  <1> QED
    BY <1>5, <1>6, <1>7

LEMMA CountedIsOneMore ==
    ASSUME told \in [{"dispatch", "receiving"} -> 0..2], NEW ms
    PROVE  /\ Counted(ms) \in [{"dispatch", "receiving"} -> 0..2]
           /\ Counted(ms).dispatch = IF Has(ms, "dispatch") THEN More(told.dispatch) ELSE told.dispatch
           /\ Counted(ms).receiving = IF Has(ms, "receiving") THEN More(told.receiving) ELSE told.receiving
  <1>1. \A k \in {"dispatch", "receiving"} : told[k] \in 0..2 /\ More(told[k]) \in 0..2
    BY DEF More
  <1>2. Counted(ms) = [k \in {"dispatch", "receiving"} |-> IF Has(ms, k) THEN More(told[k]) ELSE told[k]]
    BY DEF Counted
  <1> QED
    BY <1>1, <1>2

(* A save that is committed. *)
LEMMA CommitKeeps ==
    ASSUME AlertInv, NEW screen, NEW fields, NEW before, Commit(screen, fields, before), ReadHolds(before),
           DOMAIN req' = Savers, req' = [s \in Savers |-> req'[s]],
           \A s \in Savers : req'[s] \in {req[s], Rest}
    PROVE  AlertInv'
  <1> USE DEF AlertInv
  <1> DEFINE after == filled \cup fields
             ms == Messages(screen, before, after)
  <1>1. /\ filled' = after /\ told' = Counted(ms)
        /\ excused' = excused \cup Stale(ms, before)
                          \cup (IF Completes(after) /\ ~TellsReceiving(screen) THEN {"around"} ELSE {})
    BY DEF Commit
  <1>2. /\ Has(ms, "dispatch") <=> TellsDispatch(screen) /\ FirstDispatch(before, after)
        /\ Has(ms, "receiving") <=> TellsReceiving(screen) /\ FirstReceiving(before, after)
    BY MessagesOfSave
  <1>3. /\ told' \in [{"dispatch", "receiving"} -> 0..2]
        /\ told'.dispatch = IF Has(ms, "dispatch") THEN More(told.dispatch) ELSE told.dispatch
        /\ told'.receiving = IF Has(ms, "receiving") THEN More(told.receiving) ELSE told.receiving
    BY <1>1, CountedIsOneMore DEF ToldShape
  <1>s. /\ Has(ms, "dispatch") /\ DispatchFields \cap before # DispatchFields \cap filled => "dispatch" \in Stale(ms, before)
        /\ Has(ms, "receiving") /\ ReceivingFields \cap before # ReceivingFields \cap filled
              => "receiving" \in Stale(ms, before)
    BY DEF Stale, ToldShape
  <1> HIDE DEF ms
  <1>4. told.dispatch \in 0..2 /\ told.receiving \in 0..2
    BY DEF ToldShape
  <1>5. filled \subseteq filled' /\ excused \subseteq excused' /\ Stale(ms, before) \subseteq excused'
    BY <1>1
  <1>6. ToldShape'
    BY <1>3 DEF ToldShape
  <1>7. ToldIsComplete'
    BY <1>1, <1>2, <1>3, <1>5 DEF ToldIsComplete, FirstDispatch, FirstReceiving
  <1>8. ReadIsThere'
    BY <1>5 DEF ReadIsThere, ReadHolds
  <1>9. ASSUME told'.dispatch = 2 PROVE excused' \cap {"dispatch", "unnoted"} # {}
    <2>1. CASE told.dispatch = 2
      BY <1>5, <2>1 DEF GroupsAreTold
    <2>2. CASE told.dispatch # 2
      <3>1. told.dispatch = 1 /\ Has(ms, "dispatch") /\ DispatchFields \cap before = {}
        BY <1>2, <1>3, <1>4, <1>9, <2>2 DEF More, FirstDispatch
      <3>2. DispatchFields \cap filled # {}
        BY <3>1 DEF ToldIsComplete, DispatchFields
      <3> QED
        BY <1>s, <1>5, <3>1, <3>2
    <2> QED
      BY <2>1, <2>2
  <1>10. ASSUME told'.receiving = 2 PROVE "receiving" \in excused'
    <2>1. CASE told.receiving = 2
      BY <1>5, <2>1 DEF GroupsAreTold
    <2>2. CASE told.receiving # 2
      <3>1. told.receiving = 1 /\ Has(ms, "receiving") /\ ~(ReceivingFields \subseteq before)
        BY <1>2, <1>3, <1>4, <1>10, <2>2 DEF More, FirstReceiving
      <3>2. ReceivingFields \subseteq filled
        BY <3>1 DEF ToldIsComplete
      <3>3. ReceivingFields \cap before # ReceivingFields \cap filled
        BY <3>1, <3>2
      <3> QED
        BY <1>s, <1>5, <3>1, <3>3
    <2> QED
      BY <2>1, <2>2
  <1>11. ReceivingFields \subseteq filled' => told'.receiving > 0 \/ "around" \in excused'
    <2> SUFFICES ASSUME ReceivingFields \subseteq filled', "around" \notin excused'
                 PROVE  told'.receiving > 0
      OBVIOUS
    <2>1. CASE ReceivingFields \subseteq filled
      BY <1>3, <1>4, <1>5, <2>1 DEF GroupsAreTold, More
    <2>2. CASE ~(ReceivingFields \subseteq filled)
      <3>1. ReceivingFields \cap before \subseteq filled
        BY <1>5 DEF ReadHolds
      <3>2. TellsReceiving(screen)
        BY <1>1, <2>2 DEF Completes
      <3>3. FirstReceiving(before, after)
        BY <1>1, <2>2, <3>1 DEF FirstReceiving
      <3> QED
        BY <1>2, <1>3, <1>4, <3>2, <3>3 DEF More
    <2> QED
      BY <2>1, <2>2
  <1> QED
    BY <1>6, <1>7, <1>8, <1>9, <1>10, <1>11 DEF GroupsAreTold

(* Requests begin, are refused or are lost; messages are posted and noted. *)
LEMMA OrderStays ==
    ASSUME AlertInv, UNCHANGED <<filled, told, excused>>,
           DOMAIN req' = Savers, req' = [s \in Savers |-> req'[s]],
           \A s \in Savers : req'[s] # Rest => req'[s] = req[s] \/ req'[s].before = filled
    PROVE  AlertInv'
  <1>1. ReadIsThere'
    BY DEF AlertInv, ReadIsThere, ReadHolds
  <1> QED
    BY <1>1 DEF AlertInv, ToldShape, ToldIsComplete, GroupsAreTold

LEMMA WriteAroundKeeps ==
    ASSUME AlertInv, NEW f \in Fields, WriteAround({f})
    PROVE  AlertInv'
  <1> USE DEF AlertInv
  <1>1. /\ told' = [dispatch |-> IF DispatchFields \subseteq filled' THEN told.dispatch ELSE 0,
                    receiving |-> IF ReceivingFields \subseteq filled' THEN told.receiving ELSE 0]
        /\ excused' = excused \cup (IF {f} \subseteq ReceivingFields THEN {"around"} ELSE {}) /\ req' = req
        /\ filled' \in {filled \cup {f}, filled \ {f}}
    BY DEF WriteAround
  <1>2. told.dispatch \in 0..2 /\ told.receiving \in 0..2
    BY DEF ToldShape
  <1>3. /\ told'.dispatch \in {told.dispatch, 0} /\ told'.receiving \in {told.receiving, 0}
        /\ told'.dispatch > 0 => DispatchFields \subseteq filled'
        /\ told'.receiving > 0 => ReceivingFields \subseteq filled'
        /\ ReceivingFields \subseteq filled' => told'.receiving = told.receiving
        /\ told' \in [{"dispatch", "receiving"} -> 0..2]
    BY <1>1, <1>2
  <1>4. "around" \in excused' \/ ReceivingFields \cap filled' = ReceivingFields \cap filled
    BY <1>1 DEF Fields, DispatchFields, ReceivingFields
  <1>5. ReadIsThere'
    BY <1>1, <1>4 DEF ReadIsThere, ReadHolds
  <1>6. ReceivingFields \subseteq filled' => told'.receiving > 0 \/ "around" \in excused'
    BY <1>1, <1>2, <1>3, <1>4 DEF GroupsAreTold
  <1> QED
    BY <1>1, <1>2, <1>3, <1>5, <1>6 DEF ToldShape, ToldIsComplete, GroupsAreTold

LEMMA SendPendingKeeps ==
    ASSUME AlertInv, SendPending
    PROVE  AlertInv'
  <1> USE DEF AlertInv
  <1>1. /\ DispatchFields \subseteq filled /\ told' = Counted(<<"dispatch">>) /\ UNCHANGED <<filled, req>>
        /\ excused' = excused \cup (IF told.dispatch = 0 THEN {} ELSE {"unnoted"})
    BY DEF SendPending
  <1>2. told.dispatch \in 0..2 /\ told.receiving \in 0..2
    BY DEF ToldShape
  <1>3. Has(<<"dispatch">>, "dispatch") /\ ~Has(<<"dispatch">>, "receiving")
    BY DEF Has
  <1>4. /\ told' \in [{"dispatch", "receiving"} -> 0..2]
        /\ told'.dispatch = More(told.dispatch) /\ told'.receiving = told.receiving
    BY <1>1, <1>3, CountedIsOneMore DEF ToldShape
  <1> QED
    BY <1>1, <1>2, <1>4 DEF ToldShape, ToldIsComplete, ReadIsThere, ReadHolds, GroupsAreTold, More

LEMMA AlertStep == AlertInv /\ [AlertNext]_alertVars => AlertInv'
  <1> SUFFICES ASSUME AlertInv, [AlertNext]_alertVars
               PROVE  AlertInv'
    OBVIOUS
  <1>0. DOMAIN req = Savers /\ req = [s \in Savers |-> req[s]]
    BY DEF AlertInv, ToldShape
  <1>1. CASE UNCHANGED alertVars
    BY <1>0, <1>1, OrderStays DEF alertVars
  <1>2. ASSUME NEW s \in Savers, NEW screen \in Screens, ReadBefore(s, screen)
        PROVE  AlertInv'
    <2> DEFINE x == [screen |-> screen, before |-> filled]
    <2>1. req' = [req EXCEPT ![s] = x] /\ UNCHANGED <<filled, told, excused>>
      BY <1>2 DEF ReadBefore
    <2>2. x.before = filled
      OBVIOUS
    <2> HIDE DEF x
    <2> QED
      BY <1>0, <2>1, <2>2, OrderStays
  <1>3. ASSUME NEW s \in Savers, NEW fields \in Forms, Save(s, fields)
        PROVE  AlertInv'
    <2>1. /\ req[s] # Rest /\ Commit(req[s].screen, fields, req[s].before)
          /\ req' = [req EXCEPT ![s] = Rest]
      BY <1>3 DEF Save
    <2>2. ReadHolds(req[s].before)
      BY <2>1 DEF AlertInv, ReadIsThere
    <2>3. DOMAIN req' = Savers /\ req' = [v \in Savers |-> req'[v]] /\ \A v \in Savers : req'[v] \in {req[v], Rest}
      BY <1>0, <2>1
    <2> QED
      BY <2>1, <2>2, <2>3, CommitKeeps
  <1>4. ASSUME NEW s \in Savers, Refused(s)
        PROVE  AlertInv'
    BY <1>0, <1>4, OrderStays DEF Refused
  <1>b. ReadHolds(filled)
    BY DEF ReadHolds
  <1>5. ASSUME NEW screen \in Screens, NEW more \in SUBSET ReceivingFields, BulkSave(screen, more)
        PROVE  AlertInv'
    <2>1. req' = req /\ DOMAIN req' = Savers /\ req' = [v \in Savers |-> req'[v]]
      BY <1>0, <1>5 DEF BulkSave
    <2>2. Commit(screen, ReceivingFields, filled) \/ Commit(screen, DispatchFields \cup more, filled)
      BY <1>5 DEF BulkSave
    <2> QED
      BY <1>b, <2>1, <2>2, CommitKeeps
  <1>8. ASSUME NEW screen \in Screens, NEW fields \in Forms, SaveQuietly(screen, fields)
        PROVE  AlertInv'
    <2>1. Commit(screen, fields, filled) /\ req' = req
      BY <1>8 DEF SaveQuietly
    <2> QED
      BY <1>0, <1>b, <2>1, CommitKeeps
  <1>6. ASSUME NEW w \in Workers, Post(w) \/ RecordAlert(w) \/ RecordFails(w)
        PROVE  AlertInv'
    BY <1>0, <1>6, OrderStays DEF Post, RecordAlert, RecordFails
  <1>7. CASE Restart
    BY <1>7, OrderStays DEF Restart
  <1> QED
    BY <1>1, <1>2, <1>3, <1>4, <1>5, <1>6, <1>7, <1>8, WriteAroundKeeps, SendPendingKeeps DEF AlertNext

(* "The WhatsApp groups are told (once)" (app/o2d_screens.py): for any requests, forms and workers, a second message *)
(* needs a save that judged by a reading another save had made stale or an unnoted first one, and a receiving entry  *)
(* completed on a screen that sends its message has it.                                                              *)
THEOREM GroupsStayTold == AlertSpec => []GroupsAreTold
  <1>1. AlertInv => GroupsAreTold
    BY DEF AlertInv
  <1> QED
    BY <1>1, AlertStart, AlertStep, PTL DEF AlertSpec

-----------------------------------------------------------------------------
(**************************************************************************)
(* The screens: an order is placed by its fields and by where its status *)
(* goes to.                                                              *)
(**************************************************************************)

LEMMA JobFields ==
    ASSUME NEW o \in Job
    PROVE  /\ o.type \in Types /\ o.status \in Statuses \cup {NoStatus}
           /\ o.delivered \in BOOLEAN /\ o.received \in BOOLEAN /\ o.paid \in BOOLEAN
           /\ o.old \in BOOLEAN /\ o.archived \in BOOLEAN
  BY DEF Job

(* The boxes, one by one. *)
LEMMA Boxes ==
    ASSUME NEW o
    PROVE  /\ WorkLists(o) \subseteq {"godown", "processing", "shop_dispatch", "godown_dispatch", "receiving"}
           /\ "godown" \in WorkLists(o) <=> ScreenFilter("godown", o) /\ AwaitingGodown(o)
           /\ "processing" \in WorkLists(o) <=> ScreenFilter("godown", o) /\ UnderProcessing(o)
           /\ "shop_dispatch" \in WorkLists(o) <=> ScreenFilter("shop_dispatch", o) /\ ReadyForDispatch(o, "shop")
           /\ "godown_dispatch" \in WorkLists(o) <=> ScreenFilter("godown_dispatch", o) /\ ReadyForDispatch(o, "godown")
           /\ "receiving" \in WorkLists(o) <=> ScreenFilter("receiving", o) /\ AwaitingReceiving(o)
  BY DEF WorkLists

LEMMA Filters ==
    ASSUME NEW o
    PROVE  /\ ScreenFilter("godown", o) <=> \/ o.status = NoStatus /\ o.type # "cancelled"
                                            \/ o.status # NoStatus /\ ~o.delivered
           /\ ScreenFilter("shop_dispatch", o) <=> /\ o.status # NoStatus /\ route[o.status] = "shop"
                                                   /\ OpenRow(o) \/ Recent(o)
           /\ ScreenFilter("godown_dispatch", o) <=> o.status # NoStatus /\ route[o.status] = "godown" /\ OpenRow(o)
           /\ ScreenFilter("receiving", o) <=> o.delivered /\ Side(o) # "shop" /\ (~Settled(o) \/ Recent(o))
  BY DEF ScreenFilter

(* Where an order with a delivery status is, by where its status "goes to". *)
LEMMA SideOfOrder ==
    ASSUME route \in [Statuses -> Routes], NEW o \in Job
    PROVE  /\ o.status = NoStatus => Side(o) = NoStatus
           /\ o.status # NoStatus =>
                 \/ Side(o) = "stay" /\ route[o.status] = "none"
                 \/ Side(o) = "shop" /\ route[o.status] = "shop"
                 \/ Side(o) = "godown" /\ route[o.status] = "godown"
           /\ NoStatus \notin {"stay", "shop", "godown"}
  <1>1. NoStatus \notin {"stay", "shop", "godown"}
    BY ScreenAssumption DEF Routes
  <1>2. o.status # NoStatus => route[o.status] \in {"shop", "godown", "none"}
    BY JobFields DEF Routes
  <1> QED
    BY <1>1, <1>2 DEF Side

LEMMA OpenOnOneScreen ==
    ASSUME route \in [Statuses -> Routes], NEW o \in Job, ~ClosedOnScreens(o), o.status # NoStatus, ~KeptReturn(o)
    PROVE  Cardinality(WorkLists(o)) = 1
  <1> SUFFICES ASSUME TRUE
               PROVE  \E b : WorkLists(o) = {b}
    BY FS_Singleton
  <1>0. /\ o.type # "cancelled" /\ (~o.delivered \/ ~Settled(o)) /\ OpenRow(o)
        /\ o.delivered \in BOOLEAN
    BY JobFields DEF ClosedOnScreens, OpenRow
  <1>1. "godown" \notin WorkLists(o)
    BY SideOfOrder, Boxes DEF AwaitingGodown
  <1>2. CASE Side(o) = "stay" /\ o.delivered
    <2>1. "receiving" \in WorkLists(o)
      BY <1>0, <1>2, Boxes, Filters DEF AwaitingReceiving
    <2>2. "processing" \notin WorkLists(o)
      BY <1>2, Boxes DEF UnderProcessing
    <2>3. "shop_dispatch" \notin WorkLists(o) /\ "godown_dispatch" \notin WorkLists(o)
      BY <1>2, Boxes DEF ReadyForDispatch
    <2> QED
      BY <1>1, <2>1, <2>2, <2>3, Boxes
  <1>3. CASE Side(o) = "stay" /\ ~o.delivered
    <2>1. "processing" \in WorkLists(o)
      BY <1>3, Boxes, Filters DEF UnderProcessing, KeptReturn
    <2>2. "receiving" \notin WorkLists(o)
      BY <1>3, Boxes DEF AwaitingReceiving
    <2>3. "shop_dispatch" \notin WorkLists(o) /\ "godown_dispatch" \notin WorkLists(o)
      BY <1>3, Boxes DEF ReadyForDispatch
    <2> QED
      BY <1>1, <2>1, <2>2, <2>3, Boxes
  <1>4. CASE Side(o) = "shop"
    <2>1. "shop_dispatch" \in WorkLists(o)
      BY <1>0, <1>4, SideOfOrder, Boxes, Filters DEF ReadyForDispatch
    <2>2. "receiving" \notin WorkLists(o) /\ "processing" \notin WorkLists(o)
      BY <1>4, Boxes DEF AwaitingReceiving, UnderProcessing
    <2>3. "godown_dispatch" \notin WorkLists(o)
      BY <1>4, Boxes DEF ReadyForDispatch
    <2> QED
      BY <1>1, <2>1, <2>2, <2>3, Boxes
  <1>5. CASE Side(o) = "godown" /\ o.delivered
    <2>1. "receiving" \in WorkLists(o)
      BY <1>0, <1>5, Boxes, Filters DEF AwaitingReceiving
    <2>2. "processing" \notin WorkLists(o)
      BY <1>5, Boxes DEF UnderProcessing
    <2>3. "shop_dispatch" \notin WorkLists(o) /\ "godown_dispatch" \notin WorkLists(o)
      BY <1>5, Boxes DEF ReadyForDispatch
    <2> QED
      BY <1>1, <2>1, <2>2, <2>3, Boxes
  <1>6. CASE Side(o) = "godown" /\ ~o.delivered
    <2>1. "godown_dispatch" \in WorkLists(o)
      BY <1>0, <1>6, SideOfOrder, Boxes, Filters DEF ReadyForDispatch
    <2>2. "receiving" \notin WorkLists(o) /\ "processing" \notin WorkLists(o)
      BY <1>6, Boxes DEF AwaitingReceiving, UnderProcessing
    <2>3. "shop_dispatch" \notin WorkLists(o)
      BY <1>6, Boxes DEF ReadyForDispatch
    <2> QED
      BY <1>1, <2>1, <2>2, <2>3, Boxes
  <1> QED
    BY <1>2, <1>3, <1>4, <1>5, <1>6, SideOfOrder

LEMMA ClosedOnNoScreen ==
    ASSUME route \in [Statuses -> Routes], NEW o \in Job, ClosedForGood(o)
    PROVE  WorkLists(o) = {}
  <1>1. o.status # NoStatus /\ o.delivered /\ Settled(o)
    BY DEF ClosedForGood, Stage
  <1>2. "godown" \notin WorkLists(o)
    BY <1>1, SideOfOrder, Boxes DEF AwaitingGodown
  <1>3. "processing" \notin WorkLists(o) /\ "receiving" \notin WorkLists(o)
    BY <1>1, Boxes DEF UnderProcessing, AwaitingReceiving
  <1>4. "shop_dispatch" \notin WorkLists(o) /\ "godown_dispatch" \notin WorkLists(o)
    BY <1>1, Boxes DEF ReadyForDispatch, ClosedOnScreens
  <1> QED
    BY <1>2, <1>3, <1>4, Boxes

LEMMA ScreensShow == ScreensTypeOK => OneScreenAtATime
  <1> SUFFICES ASSUME ScreensTypeOK, NEW k \in Listed
               PROVE  /\ k \in StillOpen => k \in ShopBox
                      /\ k \in StillOpen /\ job[k].status = NoStatus => "godown" \in WorkLists(job[k])
                      /\ k \in StillOpen /\ job[k].status # NoStatus /\ ~KeptReturn(job[k])
                            => Cardinality(WorkLists(job[k])) = 1
                      /\ ClosedForGood(job[k]) => WorkLists(job[k]) = {}
    BY DEF OneScreenAtATime
  <1>1. job[k] \in Job /\ route \in [Statuses -> Routes]
    BY DEF Listed, Live, ScreensTypeOK
  <1>2. k \in StillOpen => ~ClosedOnScreens(job[k]) /\ job[k].type # "cancelled" /\ OpenRow(job[k])
    BY DEF StillOpen, ClosedOnScreens, OpenRow
  <1>3. k \in StillOpen => k \in ShopBox
    BY <1>2 DEF ShopBox
  <1>4. k \in StillOpen /\ job[k].status = NoStatus => "godown" \in WorkLists(job[k])
    BY <1>1, <1>2, SideOfOrder, Boxes, Filters DEF AwaitingGodown
  <1> QED
    BY <1>1, <1>2, <1>3, <1>4, OpenOnOneScreen, ClosedOnNoScreen

(* What a form may make of an order is an order. *)
LEMMA JobEdits ==
    ASSUME NEW o \in Job
    PROVE  /\ \A t \in Types : [o EXCEPT !.type = t] \in Job
           /\ \A s \in Statuses \cup {NoStatus} : [o EXCEPT !.status = s] \in Job
           /\ \A b \in BOOLEAN : /\ [o EXCEPT !.delivered = b] \in Job /\ [o EXCEPT !.received = b] \in Job
                                 /\ [o EXCEPT !.paid = b] \in Job /\ [o EXCEPT !.old = b] \in Job
                                 /\ [o EXCEPT !.archived = b] \in Job
  BY DEF Job

LEMMA SaveKeeps ==
    ASSUME ScreensTypeOK, NEW S, NEW saved, NEW admin, SaveFields(S, saved, admin), \A k \in S : saved[k] \in Job
    PROVE  ScreensTypeOK'
  <1>1. job' = [k \in OrderKeys |-> IF k \in S THEN [saved[k] EXCEPT !.old = FALSE] ELSE job[k]]
        /\ UNCHANGED <<route, cleanup, reminder>>
    BY DEF SaveFields
  <1>2. \A k \in S : [saved[k] EXCEPT !.old = FALSE] \in Job
    BY JobEdits
  <1> QED
    BY <1>1, <1>2 DEF ScreensTypeOK

(* A save of one order, whose fields become those of x. *)
LEMMA SaveOneKeeps ==
    ASSUME ScreensTypeOK, NEW k \in OrderKeys, NEW x, NEW admin,
           SaveFields({k}, [job EXCEPT ![k] = x], admin), job[k] \in Job => x \in Job
    PROVE  ScreensTypeOK'
  <1>1. {k} \subseteq Live
    BY DEF SaveFields
  <1>2. job[k] \in Job /\ [job EXCEPT ![k] = x][k] = x
    BY <1>1 DEF Live, ScreensTypeOK
  <1> DEFINE saved == [job EXCEPT ![k] = x]
             S == {k}
  <1>3. \A j \in S : saved[j] \in Job
    BY <1>2
  <1>4. SaveFields(S, saved, admin)
    OBVIOUS
  <1> HIDE DEF saved, S
  <1> QED
    BY <1>3, <1>4, SaveKeeps

LEMMA SaveManyKeeps ==
    ASSUME ScreensTypeOK, NEW S \in SUBSET OrderKeys, BulkDispatch(S) \/ BulkReceiving(S)
    PROVE  ScreensTypeOK'
  <1>1. S \subseteq Live /\ \A k \in S : job[k] \in Job
    BY DEF BulkDispatch, BulkReceiving, SaveFields, Live, ScreensTypeOK
  <1>2. CASE BulkDispatch(S)
    <2> DEFINE saved == [k \in S |-> [job[k] EXCEPT !.delivered = TRUE]]
    <2>1. \A k \in S : saved[k] \in Job
      BY <1>1, JobEdits
    <2>2. SaveFields(S, saved, FALSE)
      BY <1>2 DEF BulkDispatch
    <2> HIDE DEF saved
    <2> QED
      BY <2>1, <2>2, SaveKeeps
  <1>3. CASE BulkReceiving(S)
    <2> DEFINE saved == [k \in S |-> [job[k] EXCEPT !.received = TRUE, !.paid = TRUE]]
    <2>1. \A k \in S : saved[k] \in Job
      <3> TAKE k \in S
      <3>1. [job[k] EXCEPT !.received = TRUE] \in Job
        BY <1>1, JobEdits
      <3>2. [[job[k] EXCEPT !.received = TRUE] EXCEPT !.paid = TRUE] \in Job
        BY <3>1, JobEdits
      <3> QED
        BY <3>2
    <2>2. SaveFields(S, saved, FALSE)
      BY <1>3 DEF BulkReceiving
    <2> HIDE DEF saved
    <2> QED
      BY <2>1, <2>2, SaveKeeps
  <1> QED
    BY <1>2, <1>3

LEMMA ScreensStep == ScreensTypeOK /\ [ScreensNext]_screenVars => ScreensTypeOK'
  <1> SUFFICES ASSUME ScreensTypeOK, [ScreensNext]_screenVars
               PROVE  ScreensTypeOK'
    OBVIOUS
  <1>0. Statuses \subseteq Statuses \cup {NoStatus} /\ NoStatus \in Statuses \cup {NoStatus}
        /\ TRUE \in BOOLEAN /\ FALSE \in BOOLEAN
    OBVIOUS
  <1>1. CASE UNCHANGED screenVars
    BY <1>1 DEF screenVars, ScreensTypeOK
  <1>2. ASSUME NEW k \in OrderKeys, NEW t \in Types, AddOrder(k, t)
        PROVE  ScreensTypeOK'
    <2> DEFINE x == [type |-> t, status |-> NoStatus, delivered |-> FALSE, received |-> FALSE,
                     paid |-> FALSE, old |-> FALSE, archived |-> FALSE]
    <2>1. x \in Job
      BY DEF Job
    <2>2. job' = [job EXCEPT ![k] = x] /\ UNCHANGED <<route, cleanup, reminder>>
      BY <1>2 DEF AddOrder
    <2> HIDE DEF x
    <2> QED
      BY <2>1, <2>2 DEF ScreensTypeOK
  <1>3. ASSUME NEW k \in OrderKeys, NEW t \in Types, UpdateShop(k, t)
        PROVE  ScreensTypeOK'
    BY <1>3, JobEdits, SaveOneKeeps DEF UpdateShop
  <1>4. ASSUME NEW k \in OrderKeys, NEW s \in Statuses, UpdateGodown(k, s)
        PROVE  ScreensTypeOK'
    BY <1>0, <1>4, JobEdits, SaveOneKeeps DEF UpdateGodown
  <1>5. ASSUME NEW k \in OrderKeys, NEW s \in Statuses, UpdateDispatch(k, s)
        PROVE  ScreensTypeOK'
    BY <1>0, <1>5, JobEdits, SaveOneKeeps DEF UpdateDispatch
  <1>6. ASSUME NEW k \in OrderKeys, UpdateReceiving(k)
        PROVE  ScreensTypeOK'
    BY <1>0, <1>6, JobEdits, SaveOneKeeps DEF UpdateReceiving
  <1>7. ASSUME NEW k \in OrderKeys, NEW admin \in BOOLEAN, PatchOrder(k, admin)
        PROVE  ScreensTypeOK'
    BY <1>0, <1>7, JobEdits, SaveOneKeeps DEF PatchOrder
  <1>8. ASSUME NEW k \in OrderKeys, NEW t \in Types, NEW s \in Statuses, UpdateAdmin(k, t, s)
        PROVE  ScreensTypeOK'
    BY <1>0, <1>8, JobEdits, SaveOneKeeps DEF UpdateAdmin
  <1>9. ASSUME NEW k \in OrderKeys, DeleteOrder(k) \/ AckReminder(k)
        PROVE  ScreensTypeOK'
    BY <1>9 DEF DeleteOrder, AckReminder, ScreensTypeOK
  <1>10. ASSUME NEW k \in OrderKeys, SendReminder(k)
         PROVE  ScreensTypeOK'
    <2>1. StageRoles(Stage(job[k])) # {} /\ reminder' = [reminder EXCEPT ![k] = Stage(job[k])]
          /\ UNCHANGED <<job, route, cleanup>>
      BY <1>10 DEF SendReminder
    <2>2. Stage(job[k]) \in {"AwaitingGodown", "AwaitingDispatch", "AwaitingReceiving"}
      BY <2>1 DEF StageRoles
    <2> QED
      BY <2>1, <2>2 DEF ScreensTypeOK
  <1>11. CASE ArchiveOrders
    <2>1. /\ UNCHANGED <<route, cleanup, reminder>>
          /\ job' = [k \in OrderKeys |-> IF k \in Listed /\ Stage(job[k]) \in {"Closed", "Cancelled"} /\ job[k].old
                                         THEN [job[k] EXCEPT !.archived = TRUE] ELSE job[k]]
      BY <1>11 DEF ArchiveOrders
    <2>2. \A k \in Listed : [job[k] EXCEPT !.archived = TRUE] \in Job
      BY JobEdits DEF Listed, Live, ScreensTypeOK
    <2> QED
      BY <2>1, <2>2 DEF ScreensTypeOK
  <1>12. CASE ElevenPM
    <2>1. /\ UNCHANGED <<route, cleanup, reminder>>
          /\ job' = [k \in OrderKeys |-> IF k \in Live THEN [job[k] EXCEPT !.old = TRUE] ELSE job[k]]
      BY <1>12 DEF ElevenPM
    <2>2. \A k \in Live : [job[k] EXCEPT !.old = TRUE] \in Job
      BY JobEdits DEF Live, ScreensTypeOK
    <2> QED
      BY <2>1, <2>2 DEF ScreensTypeOK
  <1>13. CASE SetCleanup
    BY <1>13 DEF SetCleanup, ScreensTypeOK
  <1>14. ASSUME NEW s \in Statuses, NEW r \in Routes, SetRoute(s, r)
         PROVE  ScreensTypeOK'
    BY <1>14 DEF SetRoute, ScreensTypeOK
  <1> QED
    BY <1>1, <1>2, <1>3, <1>4, <1>5, <1>6, <1>7, <1>8, <1>9, <1>10, <1>11, <1>12, <1>13, <1>14, SaveManyKeeps
       DEF ScreensNext

(* The screens of an order (app/o2d_screens.py, app/roles.py): for any orders, statuses and routes, an open order is *)
(* on the work list of one screen, the shop follows it, and a closed one is nobody's work.                           *)
THEOREM OrdersShowOnce == ScreensSpec => []OneScreenAtATime
  <1>1. ScreensInit => ScreensTypeOK
    BY DEF ScreensInit, ScreensTypeOK
  <1> QED
    BY <1>1, ScreensStep, ScreensShow, PTL DEF ScreensSpec

-----------------------------------------------------------------------------
(***************************************************************************)
(* Bill numbers: what is refused as used is what the list of gaps has as   *)
(* present, and the gaps are as many as a walk would find.                 *)
(***************************************************************************)
(* Of any subsets of a finite set one has no smaller one among them. *)
LEMMA SmallestSubset ==
    ASSUME NEW S, IsFiniteSet(S), NEW B, \A U \in B : U \subseteq S, B # {}
    PROVE  \E T \in B : \A U \in B : U \subseteq T => U = T
  <1>1. PICK T \in B : \A U \in B : ~(<<U, T>> \in StrictSubsetOrdering(S))
    BY FS_StrictSubsetOrderingWellFounded, FS_FiniteSubsetsOfFinite, WFMin
  <1> QED
    BY <1>1 DEF StrictSubsetOrdering

(* Some number of a finite set of them is the highest. *)
LEMMA HighestIs ==
    ASSUME NEW S \in SUBSET Nat, IsFiniteSet(S), S # {}
    PROVE  Max(S) \in S /\ \A n \in S : n <= Max(S)
  <1> DEFINE Higher(n) == {m \in S : m > n}
             Highers == {Higher(n) : n \in S}
  <1>1. PICK U \in Highers : \A V \in Highers : V \subseteq U => V = U
    <2>1. (\A V \in Highers : V \subseteq S) /\ Highers # {}
      OBVIOUS
    <2> HIDE DEF Highers
    <2> QED
      BY <2>1, SmallestSubset
  <1>2. PICK n \in S : U = Higher(n)
    BY <1>1
  <1>3. ASSUME NEW m \in S, m > n PROVE FALSE
    <2>1. \A k \in S : k > m => k > n
      BY <1>3
    <2>2. m \in Higher(n) /\ m \notin Higher(m)
      BY <1>3
    <2>3. Higher(m) \subseteq Higher(n) /\ Higher(m) \in Highers
      BY <2>1
    <2> HIDE DEF Higher, Highers
    <2> QED
      BY <1>1, <1>2, <2>2, <2>3
  <1>4. \E x \in S : \A y \in S : x >= y
    BY <1>3
  <1>5. Max(S) \in S /\ \A y \in S : Max(S) >= y
    BY <1>4, Zenon DEF Max
  <1> QED
    BY <1>5

(* A number of things is not below nothing. *)
LEMMA AtLeastNothing ==
    ASSUME NEW c \in Nat PROVE Max({0, c}) = c
  <1>1. c \in {0, c} /\ \A y \in {0, c} : c >= y
    OBVIOUS
  <1>2. Max({0, c}) \in {0, c} /\ \A y \in {0, c} : Max({0, c}) >= y
    BY <1>1, Zenon DEF Max
  <1> QED
    BY <1>2

-----------------------------------------------------------------------------
BillRow == [type : BillTypes, tag : {"challan", "invoice", NoBill},
            dc : {<<n>> : n \in BillNumbers} \cup OldPairs, day : BillDays]

(* The bills and their settings have their shapes, and numbers are closed. *)
BillsInv ==
    /\ bill \in [BillKeys -> {NoBill} \cup BillRow]
    /\ setting \in [BillTypes -> Settings]
    /\ \A v \in void : v[3] \in Nat

LEMMA BillsStart == BillsInit => BillsInv
  BY DEF BillsInit, BillsInv

LEMMA BillsStep == BillsInv /\ [BillsNext]_billVars => BillsInv'
  <1> SUFFICES ASSUME BillsInv, [BillsNext]_billVars PROVE BillsInv'
    OBVIOUS
  <1>1. ASSUME NEW b \in BillKeys, NEW t \in BillTypes, NEW tag \in {"challan", "invoice", NoBill},
               NEW n \in BillNumbers, NEW day \in BillDays, NEW admin \in BOOLEAN, SaveBill(b, t, tag, n, day, admin)
        PROVE  BillsInv'
    <2>1. [type |-> t, tag |-> tag, dc |-> <<n>>, day |-> day] \in BillRow
      BY DEF BillRow
    <2> QED
      BY <1>1, <2>1 DEF SaveBill, BillsInv
  <1>2. ASSUME NEW b \in BillKeys, NEW t \in BillTypes, NEW pair \in OldPairs, NEW day \in BillDays,
               OldBill(b, t, pair, day)
        PROVE  BillsInv'
    <2>1. [type |-> t, tag |-> NoBill, dc |-> pair, day |-> day] \in BillRow
      BY DEF BillRow
    <2> QED
      BY <1>2, <2>1 DEF OldBill, BillsInv
  <1>3. ASSUME NEW b \in BillKeys, DeleteBill(b) PROVE BillsInv'
    BY <1>3 DEF DeleteBill, BillsInv
  <1>4. ASSUME NEW t \in BillTypes, NEW set \in Settings, SetSeries(t, set) PROVE BillsInv'
    BY <1>4 DEF SetSeries, BillsInv
  <1>5. ASSUME NEW s, NEW day \in BillDays, NEW from \in BillNumbers, NEW to \in BillNumbers,
               VoidGap(s, day, from, to)
        PROVE  BillsInv'
    <2>1. \A n \in from..to : n \in Nat
      BY BillAssumption
    <2>2. void' = void \cup {<<s, SeriesKey(s, day), n>> : n \in from..to} /\ UNCHANGED <<bill, setting>>
      BY <1>5 DEF VoidGap
    <2> QED
      BY <2>1, <2>2 DEF BillsInv
  <1>6. CASE UNCHANGED billVars
    BY <1>6 DEF billVars, BillsInv
  <1> QED
    BY <1>1, <1>2, <1>3, <1>4, <1>5, <1>6 DEF BillsNext

-----------------------------------------------------------------------------
(* What an order's number can be. *)
LEMMA NumberShapes ==
    ASSUME BillsInv, NEW b \in Bills
    PROVE  /\ b \in BillKeys /\ bill[b] \in BillRow /\ setting[bill[b].type] \in Settings
           /\ \/ \E n \in BillNumbers : bill[b].dc = <<n>> /\ Digits(bill[b].dc)
              \/ \E n, m \in BillNumbers : bill[b].dc = <<n, m>> /\ ~Digits(bill[b].dc)
  <1>1. bill[b] \in BillRow /\ b \in BillKeys
    BY DEF BillsInv, Bills
  <1>2. bill[b].dc \in {<<n>> : n \in BillNumbers} \cup OldPairs /\ bill[b].type \in BillTypes
    BY <1>1 DEF BillRow
  <1>3. CASE bill[b].dc \in {<<n>> : n \in BillNumbers}
    BY <1>1, <1>2, <1>3 DEF Digits, BillsInv
  <1>4. CASE bill[b].dc \in OldPairs
    <2>1. PICK n \in BillNumbers, m \in BillNumbers : bill[b].dc = <<n, m>>
      <3>1. bill[b].dc \in BillNumbers \X BillNumbers
        BY <1>4, BillAssumption
      <3> QED
        BY <3>1
    <2>2. ~Digits(bill[b].dc)
      BY <2>1 DEF Digits
    <2> QED
      BY <1>1, <1>2, <2>1, <2>2 DEF BillsInv
  <1> QED
    BY <1>2, <1>3, <1>4

(* The clause of the statement that looks for a number already used. *)
Taken(s, n, b) ==
    LET set == setting[bill[b].type]  tag == bill[b].tag  dc == bill[b].dc IN
    /\ \/ set = s
       \/ s \notin ReturnSeries /\ set = "Both" /\ (tag = TagOf(s) \/ (tag = NoBill /\ ~Digits(dc)))
       \/ s \in ReturnSeries /\ set = "GoodsReturn" /\ tag = TagOf(s)
    /\ IF set = "Both" /\ tag = NoBill THEN n = Half(s, dc) ELSE dc = <<n>>

(* The statement and the reading in Python find one number, or none, in an order. *)
LEMMA NumberIsTaken ==
    ASSUME BillsInv, NEW b \in Bills, NEW s \in Series, NEW n \in BillNumbers
    PROVE  Taken(s, n, b) <=> n \in NumberIn(s, b)
  <1> DEFINE set == setting[bill[b].type]
             tag == bill[b].tag
             dc == bill[b].dc
  <1>1. TagOf(s) # NoBill /\ "Both" \notin Series /\ "GoodsReturn" \notin Series
    BY BillAssumption DEF TagOf, Series
  <1>2. CASE Digits(dc)
    <2>1. PICK m \in BillNumbers : dc = <<m>> /\ dc[1] = m
      BY <1>2, NumberShapes
    <2>2. dc = <<n>> <=> n = m
      BY <2>1
    <2>3. n \in NumberIn(s, b) <=> /\ n = m
                                   /\ \/ set = s
                                      \/ set = "GoodsReturn" /\ s \in ReturnSeries /\ tag = TagOf(s)
                                      \/ set = "Both" /\ s \notin ReturnSeries /\ tag = TagOf(s)
      BY <1>2, <2>1 DEF NumberIn
    <2>4. Taken(s, n, b) <=> /\ IF set = "Both" /\ tag = NoBill THEN n = Half(s, dc) ELSE n = m
                             /\ \/ set = s
                                \/ s \notin ReturnSeries /\ set = "Both" /\ tag = TagOf(s)
                                \/ s \in ReturnSeries /\ set = "GoodsReturn" /\ tag = TagOf(s)
      BY <1>2, <2>2 DEF Taken
    <2> HIDE DEF set, tag, dc
    <2> QED
      BY <1>1, <2>3, <2>4
  <1>3. CASE ~Digits(dc)
    <2>1. dc # <<n>>
      BY <1>3 DEF Digits
    <2>2. n \in NumberIn(s, b) <=> n = Half(s, dc) /\ set = "Both" /\ s \notin ReturnSeries /\ tag = NoBill
      BY <1>3 DEF NumberIn
    <2>3. Taken(s, n, b) <=> /\ set = "Both" /\ tag = NoBill /\ n = Half(s, dc)
                             /\ \/ set = s
                                \/ s \notin ReturnSeries
                                \/ s \in ReturnSeries /\ set = "GoodsReturn" /\ tag = TagOf(s)
      BY <1>3, <2>1 DEF Taken
    <2> HIDE DEF set, tag, dc
    <2> QED
      BY <1>1, <2>2, <2>3
  <1> QED
    BY <1>2, <1>3

(* A number is taken exactly when it is there. *)
LEMMA ReadAlike ==
    ASSUME BillsInv, NEW s \in Series, NEW day \in BillDays, NEW n \in BillNumbers
    PROVE  Takers(s, n, day, {}) # {} <=> n \in Present(s, day)
  <1>1. Takers(s, n, day, {}) = {b \in Bills : bill[b].day \in Window(s, day) /\ Taken(s, n, b)}
    BY DEF Takers, Taken
  <1>2. n \in Present(s, day) <=> \E b \in Bills : bill[b].day \in Window(s, day) /\ n \in NumberIn(s, b)
    BY DEF Present
  <1> QED
    BY <1>1, <1>2, NumberIsTaken

(* An order has one number in a series, so no more numbers are there than orders. *)
LEMMA PresentIsFinite ==
    ASSUME BillsInv, NEW s \in Series, NEW day
    PROVE  Present(s, day) \in SUBSET Nat /\ IsFiniteSet(Present(s, day))
  <1> DEFINE B == {b \in Bills : bill[b].day \in Window(s, day) /\ NumberIn(s, b) # {}}
             first == [b \in B |-> CHOOSE n \in NumberIn(s, b) : TRUE]
  <1>1. ASSUME NEW b \in Bills
        PROVE  /\ NumberIn(s, b) \subseteq Nat
               /\ \A n, m \in NumberIn(s, b) : n = m
    <2>1. CASE Digits(bill[b].dc)
      <3>1. bill[b].dc[1] \in Nat
        BY <2>1, NumberShapes, BillAssumption
      <3> QED
        BY <2>1, <3>1 DEF NumberIn
    <2>2. CASE ~Digits(bill[b].dc)
      <3>1. Half(s, bill[b].dc) \in Nat
        BY <2>2, NumberShapes, BillAssumption DEF Half
      <3> QED
        BY <2>2, <3>1 DEF NumberIn
    <2> QED
      BY <2>1, <2>2
  <1>2. \A b \in B : first[b] \in NumberIn(s, b)
    OBVIOUS
  <1> HIDE DEF first
  <1>3. Present(s, day) = UNION {NumberIn(s, b) : b \in B}
    BY DEF Present
  <1>4. first \in [B -> Present(s, day)] /\ \A n \in Present(s, day) : \E b \in B : first[b] = n
    <2>1. \A b \in B : first[b] \in Present(s, day)
      BY <1>2, <1>3
    <2>2. first \in [B -> Present(s, day)]
      BY <2>1 DEF first
    <2>3. \A n \in Present(s, day) : \E b \in B : first[b] = n
      BY <1>1, <1>2, <1>3
    <2> QED
      BY <2>2, <2>3
  <1>5. first \in Surjection(B, Present(s, day))
    BY <1>4 DEF Surjection
  <1>6. IsFiniteSet(B)
    <2>1. B \subseteq BillKeys
      BY DEF Bills
    <2> HIDE DEF B
    <2> QED
      BY <2>1, FS_Subset, BillAssumption
  <1>7. IsFiniteSet(Present(s, day))
    <2> HIDE DEF B
    <2> QED
      BY <1>5, <1>6, FS_Surjection
  <1> QED
    BY <1>1, <1>3, <1>7

(* Counting by arithmetic and walking from 1 to the highest number find as many missing ones. *)
LEMMA GapsAreCounted ==
    ASSUME NEW present \in SUBSET Nat, IsFiniteSet(present), present # {}, NEW voided \in SUBSET Nat
    PROVE  GapCount(present, voided)
              = Cardinality({n \in 1..Max(present) : n \notin present /\ n \notin voided})
  <1> DEFINE hi == Max(present)
             there == {n \in present : n >= 1}
             closed == UnusedVoids(present, voided, hi)
             gaps == {n \in 1..hi : n \notin present /\ n \notin voided}
             all == 1..hi
  <1>1. hi \in Nat /\ \A n \in present : n <= hi
    BY HighestIs
  <1>2. GapCount(present, voided) = Max({0, hi - Cardinality(there) - Cardinality(closed)})
    BY DEF GapCount
  <1> HIDE DEF hi
  <1>3. IsFiniteSet(all) /\ Cardinality(all) = hi
    BY <1>1, FS_Interval
  <1>4. /\ all = there \cup (closed \cup gaps)
        /\ there \cap (closed \cup gaps) = {} /\ closed \cap gaps = {}
    <2>1. /\ \A n : n \in all <=> n \in Nat /\ 1 <= n /\ n <= hi
          /\ \A n : n \in there <=> n \in present /\ 1 <= n
          /\ \A n : n \in closed <=> n \in voided /\ 1 <= n /\ n <= hi /\ n \notin present
      BY <1>1 DEF UnusedVoids
    <2>2. \A n : n \in gaps <=> n \in all /\ n \notin present /\ n \notin voided
      OBVIOUS
    <2> HIDE DEF there, closed, gaps, all
    <2>3. \A n \in present \cup voided : n \in Nat
      OBVIOUS
    <2> QED
      BY <1>1, <2>1, <2>2, <2>3
  <1> HIDE DEF there, closed, gaps, all
  <1>5. IsFiniteSet(there) /\ IsFiniteSet(closed) /\ IsFiniteSet(gaps) /\ IsFiniteSet(closed \cup gaps)
    <2>1. there \subseteq all /\ closed \subseteq all /\ gaps \subseteq all /\ closed \cup gaps \subseteq all
      BY <1>4
    <2> QED
      BY <1>3, <2>1, FS_Subset
  <1>6. Cardinality(there) \in Nat /\ Cardinality(closed) \in Nat /\ Cardinality(gaps) \in Nat
        /\ Cardinality(closed \cup gaps) \in Nat
    BY <1>5, FS_CardinalityType
  <1>7. Cardinality(closed \cup gaps) = Cardinality(closed) + Cardinality(gaps) - Cardinality(closed \cap gaps)
    BY <1>5, FS_Union
  <1>8. Cardinality(all) = Cardinality(there) + Cardinality(closed \cup gaps) - Cardinality(there \cap (closed \cup gaps))
    BY <1>4, <1>5, FS_Union
  <1>9. Cardinality(closed \cap gaps) = 0 /\ Cardinality(there \cap (closed \cup gaps)) = 0
    BY <1>4, FS_EmptySet
  <1>10. hi - Cardinality(there) - Cardinality(closed) = Cardinality(gaps)
    BY <1>3, <1>6, <1>7, <1>8, <1>9
  <1> QED
    BY <1>2, <1>6, <1>10, AtLeastNothing DEF gaps, hi

(* The two readings of the rule for bill numbers, for any orders, numbers, days and settings. *)
THEOREM NumbersStayAlike == BillsSpec => []NumbersAreReadAlike
  <1>1. BillsInv => NumbersAreReadAlike
    <2> SUFFICES ASSUME BillsInv, NEW s \in Series, NEW day \in BillDays
                 PROVE  /\ \A n \in BillNumbers : (Takers(s, n, day, {}) # {}) = (n \in Present(s, day))
                        /\ LET present == Present(s, day) IN
                           GapCount(present, Voided(s, day)) =
                               IF present = {} THEN 0
                               ELSE Cardinality({n \in 1..Max(present) : n \notin present /\ n \notin Voided(s, day)})
      BY DEF NumbersAreReadAlike
    <2>1. Voided(s, day) \in SUBSET Nat
      BY DEF Voided, BillsInv
    <2>2. Present(s, day) = {} => GapCount(Present(s, day), Voided(s, day)) = 0
      BY DEF GapCount
    <2>3. Present(s, day) # {} => GapCount(Present(s, day), Voided(s, day))
              = Cardinality({n \in 1..Max(Present(s, day)) : n \notin Present(s, day) /\ n \notin Voided(s, day)})
      BY <2>1, PresentIsFinite, GapsAreCounted
    <2> QED
      BY <2>2, <2>3, ReadAlike
  <1> QED
    BY BillsStart, BillsStep, <1>1, PTL DEF BillsSpec

-----------------------------------------------------------------------------
(***************************************************************************)
(* The month of an employee (Payroll): slip, report and streaks.           *)
(***************************************************************************)
MonthRows == {NoRecord} \cup [final : Finals] \cup [in : Times, final : {"Incomplete"}]

(* Nobody has a record of a day to come. *)
MonthInv ==
    /\ today \in Days
    /\ record \in [Days -> MonthRows]
    /\ stillIn \subseteq Times
    /\ \A d \in Days : d > today => record[d] = NoRecord

(* What the rules make of two times is a status of a finished day. *)
LEMMA FinalIsFinal ==
    ASSUME NEW in \in Nat, NEW out \in Nat
    PROVE  FinalStatus(in, out) \in Finals
  <1>1. \/ out < AbsentBefore
        \/ out \in AbsentBefore..(HalfBefore - 1)
        \/ out \in HalfBefore..FullUntil
        \/ out >= HalfBefore /\ out > FullUntil
    BY PayrollAssumption
  <1> QED
    BY <1>1 DEF FinalStatus, LateOrPresent, Finals

(* What the rules make of a record, an open one included. *)
LEMMA ResolvedIsFinal ==
    ASSUME NEW r \in MonthRows
    PROVE  (r # NoRecord) <=> (r.final # "none")
           /\ (r # NoRecord => Resolve(r) \in Finals)
  <1>1. CASE r = NoRecord
    BY <1>1 DEF NoRecord
  <1>2. CASE r \in [final : Finals]
    BY <1>2 DEF NoRecord, Finals, Resolve
  <1>3. CASE r \in [in : Times, final : {"Incomplete"}]
    <2>1. r.final = "Incomplete" /\ r.in \in Nat /\ AutoOut \in Nat
      BY <1>3, PayrollAssumption
    <2>2. FinalStatus(r.in, AutoOut) \in Finals
      BY <2>1, FinalIsFinal
    <2> QED
      BY <2>1, <2>2 DEF NoRecord, Resolve
  <1> QED
    BY <1>1, <1>2, <1>3 DEF MonthRows

LEMMA RecordedIsRow ==
    /\ \A final \in Finals : Recorded(final) \in MonthRows
    /\ \A t \in Times : Incomplete(t) \in MonthRows
    /\ NoRecord \in MonthRows
  BY DEF Recorded, Incomplete, MonthRows

LEMMA MonthStart == DayOne /\ PayrollInit => MonthInv
  BY LastDayAssumption, RecordedIsRow DEF DayOne, PayrollInit, MonthInv, Days

(* A day of the month that is not to come is written. *)
LEMMA RecordKeeps ==
    ASSUME MonthInv, NEW d \in Days, NEW row \in MonthRows, d <= today \/ row = NoRecord,
           record' = [record EXCEPT ![d] = row], stillIn' \subseteq Times, UNCHANGED today
    PROVE  MonthInv'
  BY DEF MonthInv, Days

LEMMA MonthStep == MonthInv /\ [PayrollNext]_<<today, payrollVars>> => MonthInv'
  <1> SUFFICES ASSUME MonthInv, [PayrollNext]_<<today, payrollVars>> PROVE MonthInv'
    OBVIOUS
  <1>0. today \in Days /\ today <= today /\ Times \subseteq Nat /\ AutoOut \in Nat
    BY PayrollAssumption DEF MonthInv, Days
  <1>1. CASE NextDay
    BY <1>1, LastDayAssumption DEF NextDay, Tomorrow, MonthInv, Days
  <1>2. CASE AutoCheckOut
    <2>1. PICK in \in stillIn : record' = [record EXCEPT ![today] = Recorded(FinalStatus(in, AutoOut))]
      BY <1>2 DEF AutoCheckOut
    <2>2. FinalStatus(in, AutoOut) \in Finals
      BY <1>0, <2>1, FinalIsFinal DEF MonthInv
    <2>3. Recorded(FinalStatus(in, AutoOut)) \in MonthRows
      BY <2>2, RecordedIsRow
    <2> QED
      BY <1>0, <1>2, <2>1, <2>3, RecordKeeps DEF AutoCheckOut
  <1>3. ASSUME NEW t \in Times, Punch(t) PROVE MonthInv'
    BY <1>0, <1>3, RecordedIsRow, RecordKeeps DEF Punch
  <1>4. ASSUME NEW t \in Times, CheckOutAt(t) PROVE MonthInv'
    <2>1. PICK in \in stillIn : record' = [record EXCEPT ![today] = Recorded(FinalStatus(in, t))]
      BY <1>4 DEF CheckOutAt
    <2>2. FinalStatus(in, t) \in Finals
      BY <1>0, <2>1, FinalIsFinal DEF MonthInv
    <2>3. Recorded(FinalStatus(in, t)) \in MonthRows
      BY <2>2, RecordedIsRow
    <2> QED
      BY <1>0, <1>4, <2>1, <2>3, RecordKeeps DEF CheckOutAt
  <1>5. ASSUME NEW d \in Days, DeleteRecord(d) PROVE MonthInv'
    BY <1>5, RecordedIsRow, RecordKeeps DEF DeleteRecord, MonthInv
  <1>6. ASSUME NEW d \in Days, CorrectDay(d) PROVE MonthInv'
    <2>1. ASSUME NEW row \in MonthRows, NEW open \in SUBSET Times, Correct(d, row, open) PROVE MonthInv'
      BY <2>1, RecordKeeps DEF Correct, MonthInv
    <2>2. CASE \E final \in Finals : Correct(d, Recorded(final), {})
      BY <2>1, <2>2, RecordedIsRow
    <2>3. CASE \E final \in Finals, t \in Times : Correct(d, Recorded(final), {t})
      BY <2>1, <2>3, RecordedIsRow
    <2>4. CASE \E t \in Times : Correct(d, Incomplete(t), {t})
      BY <2>1, <2>4, RecordedIsRow
    <2> QED
      BY <1>6, <2>2, <2>3, <2>4 DEF CorrectDay
  <1>7. ASSUME NEW d \in HolidayDays, SwitchHoliday(d) PROVE MonthInv'
    BY <1>7 DEF SwitchHoliday, MonthInv
  <1>8. CASE UNCHANGED <<today, payrollVars>>
    BY <1>8 DEF payrollVars, MonthInv
  <1> QED
    BY <1>1, <1>2, <1>3, <1>4, <1>5, <1>6, <1>7, <1>8 DEF PayrollNext

-----------------------------------------------------------------------------
(* Outside the weekly offs the slip and the report say the same, and what each can say. *)
LEMMA DaysAlike ==
    ASSUME MonthInv, NEW d \in Days
    PROVE  /\ d \notin OffDays => SlipFirst(d) = ReportStatus(d)
           /\ d \in OffDays => SlipFirst(d) = "WeeklyOff"
           /\ SlipFirst(d) # "Incomplete"
           /\ ReportStatus(d) \in Finals \ {"Absent"} => record[d] # NoRecord
  <1>1. record[d] \in MonthRows /\ (record[d] # NoRecord => Resolve(record[d]) \in Finals /\ d <= today)
    BY ResolvedIsFinal DEF MonthInv, Days
  <1>2. CASE d \in OffDays
    BY <1>1, <1>2 DEF SlipFirst, ReportStatus, Finals
  <1>3. CASE d \notin OffDays
    <2>1. CASE record[d] # NoRecord
      <3>1. SlipFirst(d) = Resolve(record[d])
        BY <1>1, <1>3, <2>1 DEF SlipFirst, MonthInv, Days
      <3>2. ReportStatus(d) = Resolve(record[d])
        BY <1>1, <1>3, <2>1 DEF ReportStatus
      <3> QED
        BY <1>1, <1>3, <2>1, <3>1, <3>2 DEF Finals
    <2>2. CASE record[d] = NoRecord /\ d \in holidays
      BY <1>3, <2>2 DEF SlipFirst, ReportStatus, Finals
    <2>3. CASE record[d] = NoRecord /\ d \notin holidays
      <3>1. SlipFirst(d) = IF d > today THEN "Future" ELSE "Absent"
        BY <1>3, <2>3 DEF SlipFirst
      <3>2. ReportStatus(d) = IF d > today THEN "Future" ELSE "Absent"
        BY <1>3, <2>3 DEF ReportStatus
      <3> QED
        BY <1>3, <3>1, <3>2 DEF Finals
    <2> QED
      BY <2>1, <2>2, <2>3
  <1> QED
    BY <1>2, <1>3

(* Paid and deducted, to the half day. *)
LEMMA HalvesAddUp ==
    ASSUME MonthInv
    PROVE  LET workedOff == {d \in OffDays : d \in Days /\ record[d] # NoRecord}
               paidOff == 2 * Cardinality(workedOff \cap (ReportDays("Present") \cup ReportDays("Late")))
                            + Cardinality(workedOff \cap ReportDays("HalfDay"))
           IN (PaidHalves - paidOff) + (DeductedHalves - 2 * Cardinality(Sandwiches))
                 = 2 * (CountedDays - Cardinality(Sandwiches))
  <1> DEFINE off == {d \in OffDays : d \in Days /\ record[d] # NoRecord}
             A == SlipDays("Absent")
             S == Sandwiches
             P == SlipDays("Present") \cup SlipDays("Late")
             H == SlipDays("HalfDay")
             RP == ReportDays("Present") \cup ReportDays("Late")
             RH == ReportDays("HalfDay")
             C == SlipDays("Present") \cup SlipDays("Late") \cup SlipDays("HalfDay")
                     \cup SlipAbsent \cup SlipDays("Incomplete")
             D == SlipAbsent \cup SlipDays("Incomplete")
  <1>1. SlipDays("Incomplete") = {}
    BY DaysAlike DEF SlipDays
  <1>2. P = RP \ off /\ H = RH \ off
    <2>1. \A d \in Days : (d \in P <=> SlipFirst(d) \in {"Present", "Late"}) /\ (d \in H <=> SlipFirst(d) = "HalfDay")
      BY DEF SlipDays
    <2>2. \A d \in Days : (d \in RP <=> ReportStatus(d) \in {"Present", "Late"}) /\ (d \in RH <=> ReportStatus(d) = "HalfDay")
      BY DEF ReportDays
    <2>3. P \subseteq Days /\ H \subseteq Days /\ RP \subseteq Days /\ RH \subseteq Days
      BY DEF SlipDays, ReportDays
    <2> QED
      BY <2>1, <2>2, <2>3, DaysAlike DEF Finals
  <1>3. /\ D = A \cup S /\ C = (P \cup H) \cup (A \cup S)
        /\ A \cap S = {} /\ P \cap H = {} /\ (P \cup H) \cap (A \cup S) = {}
    <2>1. S \subseteq OffDays \cap Days
      BY DEF Sandwiches, Sandwiched
    <2>2. \A d \in A \cup P \cup H : d \notin OffDays
      BY DaysAlike DEF SlipDays
    <2>3. A \cap P = {} /\ A \cap H = {} /\ P \cap H = {}
      BY DEF SlipDays
    <2>4. D = A \cup S /\ C = (P \cup H) \cup (A \cup S)
      BY <1>1 DEF SlipAbsent
    <2> HIDE DEF A, S, P, H
    <2> QED
      BY <2>1, <2>2, <2>3, <2>4
  <1>4. /\ IsFiniteSet(A) /\ IsFiniteSet(S) /\ IsFiniteSet(P) /\ IsFiniteSet(H)
        /\ IsFiniteSet(RP) /\ IsFiniteSet(RH)
    <2>1. IsFiniteSet(Days)
      BY FS_Interval, LastDayAssumption DEF Days
    <2>2. A \subseteq Days /\ S \subseteq Days /\ P \subseteq Days /\ H \subseteq Days /\ RP \subseteq Days /\ RH \subseteq Days
      BY DEF SlipDays, ReportDays, Sandwiches
    <2> HIDE DEF A, S, P, H, RP, RH
    <2> QED
      BY <2>1, <2>2, FS_Subset
  <1>5. /\ DeductedHalves = 2 * Cardinality(D) + Cardinality(H)
        /\ CountedDays = Cardinality(C)
        /\ PaidHalves = 2 * Cardinality(RP) + Cardinality(RH)
    BY DEF DeductedHalves, CountedDays, PaidHalves
  <1> HIDE DEF off, A, S, P, H, RP, RH, C, D
  <1>6. /\ Cardinality(A) \in Nat /\ Cardinality(S) \in Nat /\ Cardinality(P) \in Nat /\ Cardinality(H) \in Nat
        /\ Cardinality(RP) \in Nat /\ Cardinality(RH) \in Nat
    BY <1>4, FS_CardinalityType
  <1>7. /\ Cardinality(A \cup S) = Cardinality(A) + Cardinality(S)
        /\ IsFiniteSet(A \cup S) /\ IsFiniteSet(P \cup H)
        /\ Cardinality(P \cup H) = Cardinality(P) + Cardinality(H)
    <2>1. Cardinality(A \cap S) = 0 /\ Cardinality(P \cap H) = 0
      BY <1>3, FS_EmptySet
    <2>2. IsFiniteSet(A \cup S) /\ Cardinality(A \cup S) = Cardinality(A) + Cardinality(S) - Cardinality(A \cap S)
      BY <1>4, FS_Union
    <2>3. IsFiniteSet(P \cup H) /\ Cardinality(P \cup H) = Cardinality(P) + Cardinality(H) - Cardinality(P \cap H)
      BY <1>4, FS_Union
    <2> QED
      BY <1>6, <2>1, <2>2, <2>3
  <1>8. Cardinality(C) = Cardinality(P \cup H) + Cardinality(A \cup S)
    <2>1. Cardinality(P \cup H) \in Nat /\ Cardinality(A \cup S) \in Nat
      BY <1>7, FS_CardinalityType
    <2>2. Cardinality((P \cup H) \cap (A \cup S)) = 0
      BY <1>3, FS_EmptySet
    <2> DEFINE U == P \cup H
               V == A \cup S
    <2>3. Cardinality(U \cup V) = Cardinality(U) + Cardinality(V) - Cardinality(U \cap V)
      <3>1. IsFiniteSet(U) /\ IsFiniteSet(V)
        BY <1>7
      <3> HIDE DEF U, V
      <3> QED
        BY <3>1, FS_Union
    <2> QED
      BY <1>3, <2>1, <2>2, <2>3
  <1>9. /\ Cardinality(P) = Cardinality(RP) - Cardinality(off \cap RP)
        /\ Cardinality(H) = Cardinality(RH) - Cardinality(off \cap RH)
    <2>1. off \cap RP = RP \cap off /\ off \cap RH = RH \cap off
      OBVIOUS
    <2>2. Cardinality(RP \ off) = Cardinality(RP) - Cardinality(RP \cap off)
      BY <1>4, FS_Difference
    <2>3. Cardinality(RH \ off) = Cardinality(RH) - Cardinality(RH \cap off)
      BY <1>4, FS_Difference
    <2> QED
      BY <1>2, <2>1, <2>2, <2>3
  <1>10. Cardinality(off \cap RP) \in Nat /\ Cardinality(off \cap RH) \in Nat
    BY <1>4, FS_Intersection, FS_CardinalityType
  <1>11. (PaidHalves - (2 * Cardinality(off \cap RP) + Cardinality(off \cap RH)))
            + (DeductedHalves - 2 * Cardinality(S)) = 2 * (CountedDays - Cardinality(S))
    BY <1>3, <1>5, <1>6, <1>7, <1>8, <1>9, <1>10
  <1> QED
    BY <1>11 DEF off, RP, RH, S

(* The list of the absent and a person's own streak look at the same days from two ends. *)
LEMMA StreaksAlike ==
    ASSUME MonthInv, NEW n \in 1..(LastDay - 1), LastWorkingDays(n) # {}
    PROVE  AbsentThroughout(n) <=> CurrentStreak >= Cardinality(LastWorkingDays(n))
  <1> DEFINE W == WorkingDaysBack
             Missed(d) == StreakStatus(d) \in {"Absent", "Incomplete"}
             After(d) == {e \in W : e > d}
             L == LastWorkingDays(n)
             T == {d \in W : \A e \in W : e >= d => Missed(e)}
  <1>1. W \subseteq Days /\ IsFiniteSet(W) /\ W \subseteq Int
    <2>1. W \subseteq Days
      BY LastDayAssumption DEF WorkingDaysBack, Days, MonthInv
    <2>2. IsFiniteSet(Days) /\ Days \subseteq Int
      BY FS_Interval, LastDayAssumption DEF Days
    <2> QED
      BY <2>1, <2>2, FS_Subset
  <1>2. \A d \in W : Missed(d) <=> (record[d] = NoRecord \/ Resolve(record[d]) = "Absent")
    BY <1>1, ResolvedIsFinal DEF StreakStatus, MonthInv, Finals
  <1>3. L = {d \in W : Cardinality(After(d)) < n}
    BY DEF LastWorkingDays
  <1>4. AbsentThroughout(n) <=> \A d \in L : Missed(d)
    BY <1>2, <1>3 DEF AbsentThroughout
  <1>5. CurrentStreak = Cardinality(T)
    BY DEF CurrentStreak
  <1> HIDE DEF W, Missed, T, L
  <1>6. ASSUME NEW d \in L, NEW e \in W, e >= d PROVE e \in L
    <2>1. After(e) \subseteq After(d) /\ After(d) \subseteq W
      <3>1. d \in Int /\ e \in Int
        BY <1>1, <1>3, <1>6
      <3>2. ASSUME NEW f \in W, f > e PROVE f > d
        BY <1>1, <1>6, <3>1, <3>2
      <3> QED
        BY <3>2
    <2>2. IsFiniteSet(After(d)) /\ IsFiniteSet(After(e)) /\ Cardinality(After(d)) < n
      BY <1>1, <1>3, <2>1, FS_Subset
    <2> HIDE DEF After
    <2>3. Cardinality(After(e)) <= Cardinality(After(d)) /\ Cardinality(After(e)) \in Nat /\ Cardinality(After(d)) \in Nat
      BY <2>1, <2>2, FS_Subset, FS_CardinalityType
    <2> QED
      BY <1>3, <2>2, <2>3 DEF After
  <1>7. /\ L \subseteq W /\ T \subseteq W
        /\ L \subseteq T \/ T \subseteq L
        /\ (\A d \in L : Missed(d)) <=> L \subseteq T
    <2>1. L \subseteq W /\ T \subseteq W
      BY <1>3 DEF T
    <2>2. ASSUME NEW d \in L, d \notin T, NEW c \in T, c \notin L PROVE FALSE
      BY <1>1, <1>6, <2>1, <2>2 DEF T
    <2>3. (\A d \in L : Missed(d)) => L \subseteq T
      BY <1>1, <1>6, <2>1 DEF T
    <2>4. L \subseteq T => \A d \in L : Missed(d)
      BY <1>1, <2>1 DEF T
    <2> QED
      BY <2>1, <2>2, <2>3, <2>4
  <1>8. IsFiniteSet(L) /\ IsFiniteSet(T) /\ Cardinality(L) \in Nat /\ Cardinality(T) \in Nat
    BY <1>1, <1>7, FS_Subset, FS_CardinalityType
  <1>9. L \subseteq T => Cardinality(L) <= Cardinality(T)
    BY <1>8, FS_Subset
  <1>10. T \subseteq L /\ Cardinality(T) >= Cardinality(L) => L = T
    BY <1>8, FS_Subset
  <1>11. AbsentThroughout(n) <=> Cardinality(T) >= Cardinality(L)
    BY <1>4, <1>7, <1>8, <1>9, <1>10
  <1> QED
    BY <1>5, <1>11 DEF L

(* "so salary, reports and streaks agree" (Rules.resolve), for any rules, offs and holidays. *)
THEOREM MonthBooksStayAlike == PayrollSpec => []MonthBooksAgree
  <1>1. MonthInv => MonthBooksAgree
    BY DaysAlike, HalvesAddUp, StreaksAlike DEF MonthBooksAgree
  <1> QED
    BY MonthStart, MonthStep, <1>1, PTL DEF PayrollSpec

-----------------------------------------------------------------------------
(***************************************************************************)
(* The shapes of the parts, and of the run that has them side by side.     *)
(***************************************************************************)
Kinds == {"dispatch", "receiving"}
SaveRead == {Rest} \cup [screen : Screens, before : SUBSET Fields]

AlertShape ==
    /\ filled \subseteq Fields
    /\ req \in [Savers -> SaveRead]
    /\ queue \in Seq(Kinds) /\ Len(queue) <= MaxQueue
    /\ worker \in [Workers -> {Rest} \cup Kinds]
    /\ noted \in BOOLEAN
    /\ told \in [{"dispatch", "receiving"} -> 0..2]
    /\ excused \subseteq {"dispatch", "receiving", "unnoted", "around"}

LEMMA AlertTypes == AlertShape => AlertTypeOK
  <1> SUFFICES ASSUME AlertShape PROVE AlertTypeOK
    OBVIOUS
  <1>1. \A i \in DOMAIN queue : queue[i] \in {"dispatch", "receiving"}
    BY DEF AlertShape, Kinds
  <1>2. worker \in [Workers -> {Rest, "dispatch", "receiving"}]
    BY DEF AlertShape, Kinds
  <1> QED
    BY <1>1, <1>2 DEF AlertShape, AlertTypeOK, SaveRead

(* The messages of a save are messages. *)
LEMMA MessagesAreKinds ==
    ASSUME NEW screen, NEW before, NEW after
    PROVE  Messages(screen, before, after) \in Seq(Kinds)
  <1>1. <<>> \in Seq(Kinds) /\ <<"dispatch">> \in Seq(Kinds) /\ <<"receiving">> \in Seq(Kinds)
    BY DEF Kinds
  <1>2. \A s, t \in Seq(Kinds) : s \o t \in Seq(Kinds)
    OBVIOUS
  <1> QED
    BY <1>1, <1>2 DEF Messages

LEMMA CommitShapes ==
    ASSUME AlertShape, NEW screen, NEW fields \in SUBSET Fields, NEW before, Commit(screen, fields, before),
           req' \in [Savers -> SaveRead]
    PROVE  AlertShape'
  <1> DEFINE ms == Messages(screen, before, filled \cup fields)
  <1>1. /\ Len(queue) + Len(ms) <= MaxQueue /\ filled' = filled \cup fields /\ queue' = queue \o ms /\ told' = Counted(ms)
        /\ excused' \subseteq excused \cup Stale(ms, before) \cup {"around"} /\ UNCHANGED <<worker, noted>>
    BY DEF Commit
  <1>2. ms \in Seq(Kinds) /\ Stale(ms, before) \subseteq {"dispatch", "receiving"}
    BY MessagesAreKinds DEF Stale, AlertShape
  <1> HIDE DEF ms
  <1>3. queue' \in Seq(Kinds) /\ Len(queue') <= MaxQueue
    BY <1>1, <1>2 DEF AlertShape
  <1>4. told' \in [{"dispatch", "receiving"} -> 0..2]
    BY <1>1, CountedIsOneMore DEF AlertShape
  <1> QED
    BY <1>1, <1>2, <1>3, <1>4 DEF AlertShape

LEMMA AlertShapeStart == AlertInit => AlertShape
  <1> SUFFICES ASSUME AlertInit PROVE AlertShape
    OBVIOUS
  <1>1. queue \in Seq(Kinds) /\ Len(queue) = 0
    BY DEF AlertInit
  <1>2. told \in [{"dispatch", "receiving"} -> 0..2]
    BY DEF AlertInit
  <1>3. req \in [Savers -> SaveRead] /\ worker \in [Workers -> {Rest} \cup Kinds]
    BY DEF AlertInit, SaveRead
  <1>4. filled = {} /\ noted \in BOOLEAN /\ excused = {}
    BY DEF AlertInit
  <1> QED
    BY <1>1, <1>2, <1>3, <1>4, AlertAssumption DEF AlertShape

LEMMA AlertShapeStep == AlertShape /\ [AlertNext]_alertVars => AlertShape'
  <1> SUFFICES ASSUME AlertShape, [AlertNext]_alertVars PROVE AlertShape'
    OBVIOUS
  <1>a. \A screen : FieldsOf(screen) \subseteq Fields
    BY DEF FieldsOf, Fields
  <1>1. ASSUME NEW s \in Savers, NEW screen \in Screens, ReadBefore(s, screen)
        PROVE  AlertShape'
    <2> DEFINE x == [screen |-> screen, before |-> filled]
    <2>1. x \in SaveRead
      BY DEF SaveRead, AlertShape
    <2>2. req' = [req EXCEPT ![s] = x] /\ UNCHANGED <<filled, queue, worker, noted, told, excused>>
      BY <1>1 DEF ReadBefore
    <2> HIDE DEF x
    <2> QED
      BY <2>1, <2>2 DEF AlertShape
  <1>2. ASSUME NEW s \in Savers, NEW fields \in Forms, Save(s, fields) PROVE AlertShape'
    <2>1. /\ Commit(req[s].screen, fields, req[s].before) /\ req' = [req EXCEPT ![s] = Rest]
          /\ fields \subseteq FieldsOf(req[s].screen)
      BY <1>2 DEF Save
    <2>2. req' \in [Savers -> SaveRead] /\ fields \in SUBSET Fields
      BY <1>a, <2>1 DEF AlertShape, SaveRead
    <2> QED
      BY <2>1, <2>2, CommitShapes
  <1>3. ASSUME NEW s \in Savers, Refused(s) PROVE AlertShape'
    BY <1>3 DEF Refused, AlertShape, SaveRead
  <1>4. ASSUME NEW screen \in Screens, NEW more \in SUBSET ReceivingFields, BulkSave(screen, more) PROVE AlertShape'
    <2>1. req' \in [Savers -> SaveRead]
      BY <1>4 DEF BulkSave, AlertShape
    <2>2. ReceivingFields \in SUBSET Fields /\ DispatchFields \cup more \in SUBSET Fields
      BY DEF Fields
    <2>3. Commit(screen, ReceivingFields, filled) \/ Commit(screen, DispatchFields \cup more, filled)
      BY <1>4 DEF BulkSave
    <2> QED
      BY <2>1, <2>2, <2>3, CommitShapes
  <1>11. ASSUME NEW screen \in Screens, NEW fields \in Forms, SaveQuietly(screen, fields) PROVE AlertShape'
    <2>1. Commit(screen, fields, filled) /\ req' = req /\ fields \subseteq FieldsOf(screen)
      BY <1>11 DEF SaveQuietly
    <2>2. req' \in [Savers -> SaveRead] /\ fields \in SUBSET Fields
      BY <1>a, <2>1 DEF AlertShape
    <2> QED
      BY <2>1, <2>2, CommitShapes
  <1>5. ASSUME NEW f \in Fields, WriteAround({f}) PROVE AlertShape'
    BY <1>5 DEF WriteAround, AlertShape
  <1>6. CASE SendPending
    <2>1. /\ queue' = Append(queue, "dispatch") /\ Len(queue) < MaxQueue /\ told' = Counted(<<"dispatch">>)
          /\ excused' \subseteq excused \cup {"unnoted"} /\ UNCHANGED <<filled, req, worker, noted>>
      BY <1>6 DEF SendPending
    <2>2. queue' \in Seq(Kinds) /\ Len(queue') <= MaxQueue
      BY <2>1, AlertAssumption DEF AlertShape, Kinds
    <2>3. told' \in [{"dispatch", "receiving"} -> 0..2]
      BY <2>1, CountedIsOneMore DEF AlertShape
    <2> QED
      BY <2>1, <2>2, <2>3 DEF AlertShape
  <1>7. ASSUME NEW w \in Workers, Post(w) PROVE AlertShape'
    <2>1. /\ queue # <<>> /\ worker' = [worker EXCEPT ![w] = Head(queue)] /\ queue' = Tail(queue)
          /\ UNCHANGED <<filled, req, noted, told, excused>>
      BY <1>7 DEF Post
    <2>2. Head(queue) \in Kinds /\ queue' \in Seq(Kinds) /\ Len(queue') <= MaxQueue
      BY <2>1, AlertAssumption DEF AlertShape
    <2> QED
      BY <2>1, <2>2 DEF AlertShape
  <1>8. ASSUME NEW w \in Workers, RecordAlert(w) \/ RecordFails(w) PROVE AlertShape'
    BY <1>8 DEF RecordAlert, RecordFails, AlertShape
  <1>9. CASE Restart
    <2>1. queue' \in Seq(Kinds) /\ Len(queue') = 0
      BY <1>9 DEF Restart
    <2> QED
      BY <1>9, <2>1, AlertAssumption DEF Restart, AlertShape, SaveRead
  <1>10. CASE UNCHANGED alertVars
    BY <1>10 DEF alertVars, AlertShape
  <1> QED
    BY <1>1, <1>2, <1>3, <1>4, <1>5, <1>6, <1>7, <1>8, <1>9, <1>10, <1>11 DEF AlertNext

-----------------------------------------------------------------------------
(* The bills and the closed numbers. *)
LEMMA BillTypesStart == BillsInit => BillsTypeOK
  BY DEF BillsInit, BillsTypeOK

LEMMA BillTypesStep == BillsInv /\ BillsTypeOK /\ [BillsNext]_billVars => BillsTypeOK'
  <1> SUFFICES ASSUME BillsInv, BillsTypeOK, [BillsNext]_billVars PROVE BillsTypeOK'
    OBVIOUS
  <1>1. bill' \in [BillKeys -> {NoBill} \cup BillRow] /\ setting' \in [BillTypes -> Settings]
    BY BillsStep DEF BillsInv
  <1>2. void' \subseteq Series \X (BillDays \cup {NoBill}) \X Nat
    <2>1. CASE UNCHANGED void
      BY <2>1 DEF BillsTypeOK
    <2>2. ASSUME NEW s \in {"Challan", "Invoice"}, NEW day \in BillDays, NEW from \in BillNumbers, NEW to \in BillNumbers,
                 VoidGap(s, day, from, to)
          PROVE  void' \subseteq Series \X (BillDays \cup {NoBill}) \X Nat
      <3>1. from \in Nat /\ to \in Nat
        BY BillAssumption
      <3>2. s \in Series /\ SeriesKey(s, day) \in BillDays \cup {NoBill} /\ \A n \in from..to : n \in Nat
        BY <3>1 DEF Series, SeriesKey
      <3>3. void' = void \cup {<<s, SeriesKey(s, day), n>> : n \in from..to}
        BY <2>2 DEF VoidGap
      <3> QED
        BY <3>2, <3>3 DEF BillsTypeOK
    <2> QED
      BY <2>1, <2>2 DEF BillsNext, billVars, SaveBill, OldBill, DeleteBill, SetSeries
  <1> QED
    BY <1>1, <1>2 DEF BillsTypeOK, BillRow

(* The records of the month. *)
LEMMA MonthTypesStart == DayOne /\ PayrollInit => PayrollTypeOK
  BY FS_EmptySet, RecordedIsRow DEF DayOne, PayrollInit, PayrollTypeOK, MonthRows

LEMMA MonthTypesStep == MonthInv /\ PayrollTypeOK /\ [PayrollNext]_<<today, payrollVars>> => PayrollTypeOK'
  <1> SUFFICES ASSUME MonthInv, PayrollTypeOK, [PayrollNext]_<<today, payrollVars>> PROVE PayrollTypeOK'
    OBVIOUS
  <1>1. record' \in [Days -> MonthRows] /\ stillIn' \subseteq Times
    BY MonthStep DEF MonthInv
  <1>2. Cardinality({}) <= 1 /\ \A t : Cardinality({t}) <= 1
    <2>1. Cardinality({}) = 0 /\ \A t : Cardinality({t}) = 1
      BY FS_EmptySet, FS_Singleton
    <2> QED
      BY <2>1
  <1>3. Cardinality(stillIn') <= 1
    BY <1>2 DEF PayrollTypeOK, PayrollNext, payrollVars, NextDay, AutoCheckOut, Punch, CheckOutAt, DeleteRecord,
                CorrectDay, Correct, SwitchHoliday
  <1>4. holidays' \subseteq HolidayDays
    BY DEF PayrollTypeOK, PayrollNext, payrollVars, NextDay, AutoCheckOut, Punch, CheckOutAt, DeleteRecord,
           CorrectDay, Correct, SwitchHoliday, SymDiff
  <1> QED
    BY <1>1, <1>3, <1>4 DEF PayrollTypeOK, MonthRows

(* The document and its order. *)
LEMMA DocTypesStart == DocInit => DocTypeOK
  BY DEF DocInit, DocTypeOK, Done, NotRead, Entered

LEMMA DocTypesStep == DocInv /\ DocTypeOK /\ [DocNext]_docVars => DocTypeOK'
  <1> SUFFICES ASSUME DocInv, DocTypeOK, [DocNext]_docVars PROVE DocTypeOK'
    OBVIOUS
  <1>1. DocInv'
    BY DocStep
  <1>2. printed' \in [Documents -> Papers \cup {NoPaper}]
    BY <1>1 DEF DocInv, DocShape
  <1>3. ASSUME NEW d \in Documents, Done(d)' PROVE d \in Attached' /\ read'[d].shows \in Showings
    <2>1. ReadsItsPaper(read'[d], printed'[d])
      BY <1>1, <1>3 DEF DocInv, ReadsArePapers, Done, NotRead
    <2> QED
      BY <2>1 DEF ReadsItsPaper, Attached, Kept
  <1>4. entered'.expected \in Entered /\ entered'.date \in BillDates
    BY DEF DocTypeOK, DocNext, docVars, Detach, Attach, EditOrder, SwitchReader, BeginReading, ReadOne, ReadFails
  <1>5. readerOn' \in BOOLEAN
    BY DEF DocTypeOK, DocNext, docVars, Detach, Attach, EditOrder, SwitchReader, BeginReading, ReadOne, ReadFails
  <1>6. todo' \in [Readers -> SUBSET Documents]
    <2>1. Attached \subseteq Documents
      BY DEF Attached
    <2> QED
      BY <2>1 DEF DocTypeOK, DocNext, docVars, Detach, Attach, EditOrder, SwitchReader, BeginReading, ReadOne, ReadFails
  <1> QED
    BY <1>2, <1>3, <1>4, <1>5, <1>6 DEF DocTypeOK, Showings

-----------------------------------------------------------------------------
RecordsInv ==
    /\ part = "screens" => ScreensTypeOK
    /\ part = "alerts" => AlertShape
    /\ part = "bills" => BillsInv /\ BillsTypeOK
    /\ part = "documents" => DocInv /\ DocTypeOK
    /\ part = "lists" => ListsInv
    /\ part = "payroll" => MonthInv /\ PayrollTypeOK

LEMMA RecordsStart == RecordsInit => RecordsInv
  <1> SUFFICES ASSUME RecordsInit PROVE RecordsInv
    OBVIOUS
  <1>1. part = "screens" => ScreensTypeOK
    BY DEF RecordsInit, ScreensInit, ScreensTypeOK
  <1>2. part = "alerts" => AlertShape
    BY AlertShapeStart DEF RecordsInit
  <1>3. part = "bills" => BillsInv /\ BillsTypeOK
    BY BillsStart, BillTypesStart DEF RecordsInit
  <1>4. part = "documents" => DocInv /\ DocTypeOK
    BY DocStart, DocTypesStart DEF RecordsInit
  <1>5. part = "lists" => ListsInv
    BY ListsStart DEF RecordsInit
  <1>6. part = "payroll" => MonthInv /\ PayrollTypeOK
    BY MonthStart, MonthTypesStart DEF RecordsInit
  <1> QED
    BY <1>1, <1>2, <1>3, <1>4, <1>5, <1>6 DEF RecordsInv

LEMMA RecordsStep ==
    RecordsInv /\ [RecordsNext]_<<part, screenVars, alertVars, billVars, docVars, listVars, today, payrollVars>> => RecordsInv'
  <1> SUFFICES ASSUME RecordsInv, [RecordsNext]_<<part, screenVars, alertVars, billVars, docVars, listVars, today, payrollVars>>
               PROVE  RecordsInv'
    OBVIOUS
  <1>1. /\ part' = part
        /\ part = "screens" => [ScreensNext]_screenVars
        /\ part = "alerts" => [AlertNext]_alertVars
        /\ part = "bills" => [BillsNext]_billVars
        /\ part = "documents" => [DocNext]_docVars
        /\ part = "lists" => [ListsNext]_listVars
        /\ part = "payroll" => [PayrollNext]_<<today, payrollVars>>
    BY DEF RecordsNext
  <1>2. part = "screens" => ScreensTypeOK'
    BY <1>1, ScreensStep DEF RecordsInv
  <1>3. part = "alerts" => AlertShape'
    BY <1>1, AlertShapeStep DEF RecordsInv
  <1>4. part = "bills" => BillsInv' /\ BillsTypeOK'
    BY <1>1, BillsStep, BillTypesStep DEF RecordsInv
  <1>5. part = "documents" => DocInv' /\ DocTypeOK'
    BY <1>1, DocStep, DocTypesStep DEF RecordsInv
  <1>6. part = "lists" => ListsInv'
    BY <1>1, ListsStep DEF RecordsInv
  <1>7. part = "payroll" => MonthInv' /\ PayrollTypeOK'
    BY <1>1, MonthStep, MonthTypesStep DEF RecordsInv
  <1> QED
    BY <1>1, <1>2, <1>3, <1>4, <1>5, <1>6, <1>7 DEF RecordsInv

(* In the run that has the parts side by side, each keeps the shapes its module declares. *)
THEOREM RecordsTypeCorrect == RecordsSpec => []RecordsTypeOK
  <1>1. RecordsInv => RecordsTypeOK
    BY AlertTypes DEF RecordsInv, RecordsTypeOK, ListsInv
  <1> QED
    BY RecordsStart, RecordsStep, <1>1, PTL DEF RecordsSpec
=============================================================================
