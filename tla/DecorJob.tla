------------------------------ MODULE DecorJob ------------------------------
(***************************************************************************)
(* The jobs of VT Decor (app/decor.py): a quotation becomes a client when  *)
(* it is approved; the client's contract amount grows with every product   *)
(* added to the job and is replaced by a revision; a completed client is   *)
(* closed to everyone but an admin.  (The money received and spent is      *)
(* DecorMoney.)                                                            *)
(*                                                                         *)
(* A request reads the client, without a lock, and later writes; it takes  *)
(* a quotation with FOR UPDATE and keeps it to its end.                    *)
(***************************************************************************)
EXTENDS Naturals, FiniteSets, FiniteSetsExt

CONSTANTS
    Sites,          \* keys of clients
    NoJob,
    PerformaNos,    \* the numbers of quotations: 1..n
    JobAmounts,     \* what a product, a contract or a quotation may amount to
    MaxContract,    \* the bounds on a contract amount ...
    MaxItems,       \* ... and on the products of a job
    Sellers,        \* people at work ...
    Owner           \* ... one of whom is an admin

ASSUME JobAmountsAssumption == JobAmounts \subseteq Nat \ {0} /\ MaxContract \in Nat /\ MaxItems \in Nat
ASSUME PerformaNosAssumption == PerformaNos \subseteq Nat \ {0}
ASSUME NoJobAssumption == NoJob \notin Sites

VARIABLES
    site,           \* dim_decor_client, with the number of its products
    owed,           \* history: the last amount set for a job, and what was added since
    quote,          \* fact_decor_quotation, by number
    made,           \* history: the clients each quotation has been made into
    deal            \* what each person's request has read

decorVars == <<site, owed, quote, made, deal>>

Client(amount) == [status |-> "Active", contract |-> amount, items |-> 0]
Unborn == [status |-> "unborn"]
Gone == [status |-> "gone"]
NoQuote == [status |-> "none"]
NoDeal == [op |-> "none"]

DecorInit ==
    /\ site = [k \in Sites |-> Unborn]
    /\ owed = [k \in Sites |-> 0]
    /\ quote = [n \in PerformaNos |-> NoQuote]
    /\ made = [n \in PerformaNos |-> {}]
    /\ deal = [s \in Sellers |-> NoDeal]

OnBook(k) == site[k] \notin {Unborn, Gone}

-----------------------------------------------------------------------------
(* add_client *)
AddClient(k, amount) ==
    /\ site[k] = Unborn
    /\ site' = [site EXCEPT ![k] = Client(amount)]
    /\ owed' = [owed EXCEPT ![k] = amount]
    /\ UNCHANGED <<quote, made, deal>>

(* _need_open_client: "a Completed client refuses non-admins". *)
MayWorkOn(s, k) == OnBook(k) /\ (site[k].status # "Completed" \/ s = Owner)

SiteChanges == [op : {"item", "revise"}, amount : JobAmounts]
    \cup [op : {"status"}, to : {"Active", "Completed", "Hidden"}]
    \cup {[op |-> "delete"]}

BeginDeal(s, k, change) ==
    /\ deal[s] = NoDeal
    /\ MayWorkOn(s, k)
    /\ deal' = [deal EXCEPT ![s] = [op |-> "change", site |-> k, change |-> change,
                                    read |-> site[k].contract]]
    /\ UNCHANGED <<site, owed, quote, made>>

(* A plausible bug: the amount read is added to, as revise_amount may do with its own. *)
AddedToRead(s, k, amount) == deal[s].read + amount

AddedTo(s, k, amount) == site[k].contract + amount

Deal(s, op) == deal[s].op = "change" /\ deal[s].change.op = op

(* add_item: "contract_amount = contract_amount + ...".  (delete_item takes nothing off.) *)
AddItem(s, k) ==
    /\ Deal(s, "item") /\ deal[s].site = k /\ OnBook(k)
    /\ LET amount == deal[s].change.amount IN
          /\ AddedTo(s, k, amount) <= MaxContract /\ site[k].items < MaxItems
          /\ site' = [site EXCEPT ![k].contract = AddedTo(s, k, amount), ![k].items = @ + 1]
          /\ owed' = [owed EXCEPT ![k] = @ + amount]
    /\ deal' = [deal EXCEPT ![s] = NoDeal]
    /\ UNCHANGED <<quote, made>>

DeleteItem(s, k) ==
    /\ MayWorkOn(s, k) /\ site[k].items > 0
    /\ site' = [site EXCEPT ![k].items = @ - 1]
    /\ UNCHANGED <<owed, quote, made, deal>>

ReviseAmount(s, k) ==
    /\ Deal(s, "revise") /\ deal[s].site = k /\ OnBook(k)
    /\ site' = [site EXCEPT ![k].contract = deal[s].change.amount]
    /\ owed' = [owed EXCEPT ![k] = deal[s].change.amount]
    /\ deal' = [deal EXCEPT ![s] = NoDeal]
    /\ UNCHANGED <<quote, made>>

(* _set_status *)
SetStatus(s, k) ==
    /\ Deal(s, "status") /\ deal[s].site = k /\ OnBook(k)
    /\ site' = [site EXCEPT ![k].status = deal[s].change.to]
    /\ deal' = [deal EXCEPT ![s] = NoDeal]
    /\ UNCHANGED <<owed, quote, made>>

(* delete_client, which a quotation outlives without its client. *)
DeleteClient(s, k) ==
    /\ Deal(s, "delete") /\ deal[s].site = k /\ OnBook(k)
    /\ site' = [site EXCEPT ![k] = Gone]
    /\ quote' = [n \in PerformaNos |->
          IF quote[n] # NoQuote /\ quote[n].site = k THEN [quote[n] EXCEPT !.site = NoJob] ELSE quote[n]]
    /\ deal' = [deal EXCEPT ![s] = NoDeal]
    /\ UNCHANGED <<owed, made>>

(* The client was deleted meanwhile: nothing is written. *)
DealFails(s) ==
    /\ deal[s].op = "change" /\ site[deal[s].site] = Gone
    /\ deal' = [deal EXCEPT ![s] = NoDeal]
    /\ UNCHANGED <<site, owed, quote, made>>

-----------------------------------------------------------------------------
(* save_quotation: the number on the page if it is free, else the highest  *)
(* and one ...                                                             *)
Taken == {n \in PerformaNos : quote[n] # NoQuote}

NumberFor(asked) ==
    IF asked \notin Taken THEN asked ELSE IF Taken = {} THEN 1 ELSE Max(Taken) + 1

BeginQuote(s, asked) ==
    /\ deal[s] = NoDeal
    /\ NumberFor(asked) \in PerformaNos
    /\ deal' = [deal EXCEPT ![s] = [op |-> "quote", no |-> NumberFor(asked)]]
    /\ UNCHANGED <<site, owed, quote, made>>

(* ... which another may have taken by now: performa_no is UNIQUE. *)
SaveQuote(s, total) ==
    /\ deal[s].op = "quote"
    /\ quote' = IF deal[s].no \in Taken THEN quote
                ELSE [quote EXCEPT ![deal[s].no] = [status |-> "Lead", total |-> total, site |-> NoJob]]
    /\ made' = IF deal[s].no \in Taken THEN made ELSE [made EXCEPT ![deal[s].no] = {}]
    /\ deal' = [deal EXCEPT ![s] = NoDeal]
    /\ UNCHANGED <<site, owed>>

(* _quotation_row: FOR UPDATE, so nobody else has it. *)
LockedByOther(n) == \E t \in Sellers : deal[t].op = "decide" /\ deal[t].no = n

BeginDecide(s, n) ==
    /\ deal[s] = NoDeal
    /\ quote[n] # NoQuote
    /\ ~LockedByOther(n)
    /\ deal' = [deal EXCEPT ![s] = [op |-> "decide", no |-> n, row |-> quote[n]]]
    /\ UNCHANGED <<site, owed, quote, made>>

Decided(s) == deal' = [deal EXCEPT ![s] = NoDeal]

(* set_quotation_status: an approved one stays so; approving makes the client. *)
ApproveQuote(s, k) ==
    /\ deal[s].op = "decide" /\ deal[s].row.status # "Approved"
    /\ site[k] = Unborn
    /\ site' = [site EXCEPT ![k] = Client(deal[s].row.total)]
    /\ owed' = [owed EXCEPT ![k] = deal[s].row.total]
    /\ quote' = [quote EXCEPT ![deal[s].no] = [deal[s].row EXCEPT !.status = "Approved", !.site = k]]
    /\ made' = [made EXCEPT ![deal[s].no] = @ \cup {k}]
    /\ Decided(s)

SetQuoteStatus(s, status) ==
    /\ deal[s].op = "decide" /\ deal[s].row.status # "Approved"
    /\ quote' = [quote EXCEPT ![deal[s].no].status = status]
    /\ Decided(s)
    /\ UNCHANGED <<site, owed, made>>

(* update_quotation *)
UpdateQuote(s, total) ==
    /\ deal[s].op = "decide"
    /\ quote' = [quote EXCEPT ![deal[s].no].total = total]
    /\ Decided(s)
    /\ UNCHANGED <<site, owed, made>>

DeleteQuote(s) ==
    /\ s = Owner
    /\ deal[s].op = "decide"
    /\ quote' = [quote EXCEPT ![deal[s].no] = NoQuote]
    /\ Decided(s)
    /\ UNCHANGED <<site, owed, made>>

LeaveQuote(s) ==
    /\ deal[s].op = "decide"
    /\ Decided(s)
    /\ UNCHANGED <<site, owed, quote, made>>

DecorNext ==
    \/ \E k \in Sites, amount \in JobAmounts : AddClient(k, amount)
    \/ \E s \in Sellers, k \in Sites :
          \/ \E change \in SiteChanges : BeginDeal(s, k, change)
          \/ AddItem(s, k) \/ DeleteItem(s, k) \/ ReviseAmount(s, k)
          \/ SetStatus(s, k) \/ DeleteClient(s, k) \/ ApproveQuote(s, k)
    \/ \E s \in Sellers :
          \/ DealFails(s) \/ DeleteQuote(s) \/ LeaveQuote(s)
          \/ \E n \in PerformaNos : BeginQuote(s, n) \/ BeginDecide(s, n)
          \/ \E total \in JobAmounts : SaveQuote(s, total) \/ UpdateQuote(s, total)
          \/ \E status \in {"Lead", "Lost"} : SetQuoteStatus(s, status)

DecorSpec == DecorInit /\ [][DecorNext]_decorVars

-----------------------------------------------------------------------------
(***************************************************************************)
(* Properties.                                                             *)
(***************************************************************************)
\* The clients, the quotations and what requests have read have the shapes declared above.
DecorTypeOK ==
    /\ site \in [Sites -> {Unborn, Gone} \cup
          [status : {"Active", "Completed", "Hidden"}, contract : Nat, items : Nat]]
    /\ owed \in [Sites -> Nat]
    /\ quote \in [PerformaNos -> {NoQuote} \cup
          [status : {"Lead", "Approved", "Lost"}, total : JobAmounts, site : Sites \cup {NoJob}]]
    /\ made \in [PerformaNos -> SUBSET Sites]

\* What a client owes is the last amount that was agreed and every product added since, though
\* several people add, revise and complete at once; and a quotation, approved by two people or
\* changed while it is approved, makes one client.
ContractAddsUp ==
    /\ \A k \in Sites : OnBook(k) => site[k].contract = owed[k]
    /\ \A n \in PerformaNos :
          /\ Cardinality(made[n]) <= 1
          /\ quote[n] # NoQuote => (quote[n].status = "Approved" <=> made[n] # {})
=============================================================================
