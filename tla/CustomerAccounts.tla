-------------------------- MODULE CustomerAccounts --------------------------
(***************************************************************************)
(* Customers of the shop and their logins: customers/, customer_accounts/, *)
(* the customer part of storefront/checkout_services.py and the CRM pages  *)
(* of backoffice/customer_views.py.                                        *)
(*                                                                         *)
(* A customer is known by a mobile number and, perhaps, an e-mail address; *)
(* either one finds the account at sign-in.  Six services write them: the  *)
(* registration of a new and of a known buyer, the profile page, the CRM   *)
(* form, and the checkout of a guest and of a signed-in customer.  Each is *)
(* one transaction; the signed-in checkout reads the account before it.    *)
(* The forms of the shop write a number in one way, whatever was typed in  *)
(* (normalize_bd_phone); the CRM form keeps what was typed in.  The copy   *)
(* of the address in the login, which nothing here reads, is left out.     *)
(*                                                                         *)
(* Saving or deleting an address locks nothing the next request would wait *)
(* for before it reads, so reading and writing are two steps.              *)
(***************************************************************************)
EXTENDS Integers

CONSTANTS
    Customers,      \* rows of the CRM
    Phones,         \* what a phone field may hold: mobile numbers, and other spellings of them
    Emails, NoEmail,
    NumberIn,       \* NumberIn[i]: the mobile number the digits of i make, or none
    Purchases,      \* orders of the shop
    Slots,          \* bound: rows the address book of an account may get
    Tabs            \* bound: requests to the address pages at a time

\* The number its digits make is itself made of those digits; addresses are no numbers.
ASSUME AccountsAssumption ==
    /\ NoEmail \notin Emails
    /\ Phones \cap (Emails \cup {NoEmail, "none"}) = {}
    /\ NumberIn \in [Phones \cup Emails -> Phones \cup {"none"}]
    /\ \A i \in Phones \cup Emails :
          NumberIn[i] # "none" => NumberIn[NumberIn[i]] = NumberIn[i]
    /\ "none" \notin Customers
    /\ "new" \notin Slots

VARIABLES
    crm,            \* crm[c]: the Customer, or none
    login,          \* login[c]: username of the account of c, or none
    purchase,       \* purchase[o]: whose order it is and the e-mail it was placed with
    opened,         \* customers whose checkout request has read the account
    book,           \* book[c][a]: a SavedAddress, "default" or "ordinary", or none
    saving,         \* saving[t]: what an address request has read and is going to write
    mixed,          \* requests that ran while another of their account did
    kept            \* kept[c]: what became of the default address of c, see below

identityVars == <<crm, login, purchase, opened>>
bookVars     == <<book, saving, mixed, kept>>
accountVars  == <<crm, login, purchase, opened, book, saving, mixed, kept>>

NoCustomer == [phone |-> "none", email |-> NoEmail, active |-> FALSE]
NoLogin    == "none"
Unplaced   == [of |-> "none", email |-> NoEmail, live |-> FALSE]

Addresses == Emails \cup {NoEmail}      \* what an e-mail field may hold
HasLogin(c) == login[c] # NoLogin

\* normalize_bd_phone leaves these as they are; the shop's forms admit no others.
Numbers == {p \in Phones : NumberIn[p] = p}

PhoneOwners(p) == {c \in Customers : crm[c] # NoCustomer /\ crm[c].phone = p}
EmailOwners(e) == {c \in Customers : crm[c] # NoCustomer /\ crm[c].email = e}
EmailFree(e, c) == e = NoEmail \/ EmailOwners(e) \subseteq {c}

\* find_customer_account: an identity whose digits make a mobile number is that number,
\* which is looked up among the numbers as they are stored.
Owners(identity) ==
    IF NumberIn[identity] = "none" THEN EmailOwners(identity)
    ELSE PhoneOwners(NumberIn[identity])

Found(identity) == {c \in Owners(identity) : HasLogin(c) /\ crm[c].active}

\* customer_account_required
SignedIn(c) == HasLogin(c) /\ crm[c].active

-----------------------------------------------------------------------------
(* Registration *)

\* The first three tests of register_customer_account.
Registrable(p, e) ==
    /\ \A c \in PhoneOwners(p) : ~HasLogin(c)
    /\ \A c \in Customers : login[c] # p
    /\ e # NoEmail => \A c \in EmailOwners(e) : ~HasLogin(c)

\* Orders that prove a purchase, and the addresses they and the customer are known by.
History(c) == {o \in Purchases : purchase[o].of = c /\ purchase[o].live}
KnownEmails(c) == ({crm[c].email} \cup {purchase[o].email : o \in History(c)}) \ {NoEmail}

\* A known buyer links an account by a previous order and an address on file.
RegisterKnown(c, e, o) ==
    /\ crm[c].active
    /\ crm[c].phone \in Numbers
    /\ Registrable(crm[c].phone, e)
    /\ crm[c].email \in {NoEmail, e}
    /\ o \in History(c)
    /\ KnownEmails(c) # {} => e \in KnownEmails(c)
    /\ crm[c].email = NoEmail => EmailFree(e, c)
    /\ crm' = [crm EXCEPT ![c].email = e]
    /\ login' = [login EXCEPT ![c] = crm[c].phone]
    /\ UNCHANGED <<purchase, opened>>

\* A Customer created with the account or with the first order.
NewCustomer(c, p, e) ==
    /\ crm[c] = NoCustomer
    /\ PhoneOwners(p) = {}
    /\ EmailFree(e, c)
    /\ crm' = [crm EXCEPT ![c] = [phone |-> p, email |-> e, active |-> TRUE]]

RegisterNew(c, p, e) ==
    /\ Registrable(p, e)
    /\ NewCustomer(c, p, e)
    /\ login' = [login EXCEPT ![c] = p]
    /\ UNCHANGED <<purchase, opened>>

\* Slip: the profile page does not look for another owner of the address.
UpdateProfileUnchecked(c, e) ==
    /\ SignedIn(c)
    /\ crm' = [crm EXCEPT ![c].email = e]
    /\ UNCHANGED <<login, purchase, opened>>

UpdateProfile(c, e) ==
    /\ SignedIn(c)
    /\ EmailFree(e, c)
    /\ crm' = [crm EXCEPT ![c].email = e]
    /\ UNCHANGED <<login, purchase, opened>>

-----------------------------------------------------------------------------
(* Checkout and orders *)

Placed(o, c, e) ==
    /\ purchase[o] = Unplaced
    /\ purchase' = [purchase EXCEPT ![o] = [of |-> c, email |-> e, live |-> TRUE]]

\* A guest's order goes to the customer with that number, whose record it leaves
\* alone, or to a new customer.
GuestCheckout(c, p, e, o) ==
    /\ \/ PhoneOwners(p) = {c} /\ EmailFree(e, c) /\ UNCHANGED crm
       \/ NewCustomer(c, p, e)
    /\ Placed(o, c, e)
    /\ UNCHANGED <<login, opened>>

\* The checkout request of a signed-in customer reads the account ...
OpenCheckout(c) ==
    /\ SignedIn(c)
    /\ opened' = opened \cup {c}
    /\ UNCHANGED <<crm, login, purchase>>

\* ... and then locks the customer, who may have been changed or made inactive since,
\* and must have the number of the form, as the shop writes it.
SignedCheckout(c, e, o) ==
    /\ c \in opened
    /\ crm[c].phone \in Numbers
    /\ EmailFree(e, c)
    /\ LET email == IF e = NoEmail THEN crm[c].email ELSE e IN
       crm' = [crm EXCEPT ![c].email = email, ![c].active = TRUE]
    /\ Placed(o, c, e)
    /\ opened' = opened \ {c}
    /\ UNCHANGED login

\* The cart, the address or the number is refused.
RefuseCheckout(c) ==
    /\ c \in opened
    /\ opened' = opened \ {c}
    /\ UNCHANGED <<crm, login, purchase>>

\* An order entered in the dashboard takes whatever address the form gives.
DeskOrder(c, e, o) ==
    /\ crm[c].active
    /\ Placed(o, c, e)
    /\ UNCHANGED <<crm, login, opened>>

CancelPurchase(o) ==
    /\ purchase[o].live
    /\ purchase' = [purchase EXCEPT ![o].live = FALSE]
    /\ UNCHANGED <<crm, login, opened>>

-----------------------------------------------------------------------------
(* The CRM pages *)

\* CustomerForm, for a new or an existing customer; the login is not touched.
SaveCustomer(c, p, e, active) ==
    /\ PhoneOwners(p) \subseteq {c}
    /\ EmailFree(e, c)
    /\ crm' = [crm EXCEPT ![c] = [phone |-> p, email |-> e, active |-> active]]
    /\ UNCHANGED <<login, purchase, opened>>

\* Refused with any order, drafts and cancelled ones included, and with an account.
DeleteCustomer(c) ==
    /\ crm[c] # NoCustomer
    /\ \A o \in Purchases : purchase[o].of # c
    /\ ~HasLogin(c)
    /\ crm' = [crm EXCEPT ![c] = NoCustomer]
    /\ UNCHANGED <<login, purchase, opened>>

-----------------------------------------------------------------------------
(* Saved addresses *)

NoJob == [of |-> "none", kind |-> "none", row |-> "new", mark |-> "none", clears |-> {}]

InBook(c)   == {a \in Slots : book[c][a] # "none"}
DefaultsIn(c) == {a \in Slots : book[c][a] = "default"}
Others(t, c) == {u \in Tabs \ {t} : saving[u].of = c}

\* Slip: the other addresses keep their mark.
ClearedBeside(c, row, mark) == {}

\* The addresses that lose their mark when one is saved with a mark.
Cleared(c, row, mark) == IF mark = "default" THEN InBook(c) \ {row} ELSE {}

\* The page of account c has read what it needs; it overlaps whoever is at work there.
Begin(t, job) ==
    /\ saving[t] = NoJob
    /\ SignedIn(job.of)
    /\ saving' = [saving EXCEPT ![t] = job]
    /\ mixed' = IF Others(t, job.of) = {} THEN mixed \ {t}
                ELSE mixed \cup {t} \cup Others(t, job.of)
    /\ UNCHANGED <<book, kept>>

\* save_customer_address on a new or a stored row, with the mark the form asks for; the
\* first address gets it anyhow.
BeginSave(t, c, row, wanted) ==
    LET mark == IF wanted \/ InBook(c) = {} THEN "default" ELSE "ordinary" IN
    Begin(t, [of |-> c, kind |-> "save", row |-> row, mark |-> mark,
              clears |-> Cleared(c, row, mark)])

AddAddress(t, c, wanted)     == InBook(c) # Slots /\ BeginSave(t, c, "new", wanted)
EditAddress(t, c, a, wanted) == a \in InBook(c) /\ BeginSave(t, c, a, wanted)

\* The form is saved with the other marks cleared; a row deleted meanwhile comes back.
EndSave(t) ==
    LET job == saving[t]
        c   == job.of
    IN
    /\ job.kind = "save"
    /\ \E a \in Slots :
          /\ IF job.row = "new" THEN a \notin InBook(c) ELSE a = job.row
          /\ book' = [book EXCEPT ![c] = [x \in Slots |->
                         IF x = a THEN job.mark
                         ELSE IF x \in job.clears /\ book[c][x] # "none" THEN "ordinary"
                         ELSE book[c][x]]]
    /\ kept' = [kept EXCEPT ![c] =
                   IF t \in mixed THEN "overlapped"
                   ELSE IF job.mark = "default" THEN "kept"
                   ELSE IF job.row \in DefaultsIn(c) /\ kept[c] = "kept" THEN "given up"
                   ELSE kept[c]]
    /\ saving' = [saving EXCEPT ![t] = NoJob]
    /\ UNCHANGED mixed

DeleteAddress(t, c, a) ==
    /\ a \in InBook(c)
    /\ Begin(t, [of |-> c, kind |-> "delete", row |-> a, mark |-> book[c][a], clears |-> {}])

\* delete_customer_address: another address takes over from a default.  The code takes the
\* one changed last; which one makes no difference here.
EndDelete(t) ==
    LET job  == saving[t]
        c    == job.of
        rest == InBook(c) \ {job.row}
    IN
    /\ job.kind = "delete"
    /\ \E heirs \in SUBSET rest :
          /\ IF job.mark = "default" /\ rest # {} THEN \E a \in rest : heirs = {a} ELSE heirs = {}
          /\ book' = [book EXCEPT ![c] = [x \in Slots |->
                         IF x = job.row THEN "none"
                         ELSE IF x \in heirs THEN "default" ELSE book[c][x]]]
    /\ kept' = [kept EXCEPT ![c] = IF t \in mixed THEN "overlapped" ELSE kept[c]]
    /\ saving' = [saving EXCEPT ![t] = NoJob]
    /\ UNCHANGED mixed

-----------------------------------------------------------------------------

AccountInit ==
    /\ crm = [c \in Customers |-> NoCustomer]
    /\ login = [c \in Customers |-> NoLogin]
    /\ purchase = [o \in Purchases |-> Unplaced]
    /\ opened = {}
    /\ book = [c \in Customers |-> [a \in Slots |-> "none"]]
    /\ saving = [t \in Tabs |-> NoJob]
    /\ mixed = {}
    /\ kept = [c \in Customers |-> "kept"]

AccountPages ==
    \E c \in Customers, e \in Addresses :
        \/ UpdateProfile(c, e)
        \/ \E p \in Numbers : RegisterNew(c, p, e)
        \/ \E o \in Purchases : RegisterKnown(c, e, o)

AddressPages ==
    \E t \in Tabs :
        \/ EndSave(t) \/ EndDelete(t)
        \/ \E c \in Customers, a \in Slots, wanted \in BOOLEAN :
              \/ AddAddress(t, c, wanted) \/ EditAddress(t, c, a, wanted)
              \/ DeleteAddress(t, c, a)

Shopping ==
    \E c \in Customers :
        \/ OpenCheckout(c) \/ RefuseCheckout(c)
        \/ \E e \in Addresses, o \in Purchases :
              \/ SignedCheckout(c, e, o) \/ DeskOrder(c, e, o)
              \/ \E p \in Numbers : GuestCheckout(c, p, e, o)

CRMPages ==
    \/ \E c \in Customers, p \in Phones, e \in Addresses, active \in BOOLEAN :
          SaveCustomer(c, p, e, active)
    \/ \E c \in Customers : DeleteCustomer(c)
    \/ \E o \in Purchases : CancelPurchase(o)

AccountNext ==
    \/ (AccountPages \/ Shopping \/ CRMPages) /\ UNCHANGED bookVars
    \/ AddressPages /\ UNCHANGED identityVars

AccountSpec == AccountInit /\ [][AccountNext]_accountVars

-----------------------------------------------------------------------------
(* Properties *)

\* What a customer signs in by: any spelling of his number, if it is stored as the shop
\* writes it, and his address, if its digits make no number.
Identities(c) ==
    {i \in Phones \cup Emails : NumberIn[i] = crm[c].phone}
        \cup {e \in Emails : e = crm[c].email /\ NumberIn[e] = "none"}

\* Whichever of the six services wrote it last, an identity is stored for one customer,
\* finds one account at most, and a login belongs to a customer that exists: signing in
\* by one's own number or address finds one's own account.  A number the CRM form stored
\* in another spelling than the shop's is nobody's identity.
IdentityFindsOwner ==
    /\ \A i \in Phones \cup Emails : \A c, d \in Found(i) : c = d
    /\ \A c \in Customers :
          /\ HasLogin(c) => crm[c] # NoCustomer
          /\ crm[c] # NoCustomer => /\ PhoneOwners(crm[c].phone) = {c}
                                    /\ EmailFree(crm[c].email, c)
          /\ SignedIn(c) => \A i \in Identities(c) : Found(i) = {c}

\* An account with addresses has exactly one default address (CUSTOMER_ACCOUNT_PHASE.md:37),
\* whatever is added, edited and deleted, but in two cases, each of which lasts until an
\* address is saved as the default by a request alone: the owner made the default an
\* ordinary address, and there is none; or requests of the account overlapped.
DefaultAddressKept ==
    \A c \in Customers :
        /\ kept[c] = "kept" /\ InBook(c) # {} => \E a \in InBook(c) : DefaultsIn(c) = {a}
        /\ kept[c] = "given up" => DefaultsIn(c) = {}
=============================================================================
