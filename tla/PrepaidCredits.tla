--------------------------- MODULE PrepaidCredits ---------------------------
(***************************************************************************)
(* What prepaid trails promise, with no handlers, statements, webhooks or   *)
(* pollers in sight: an account is credited with what was paid for it, an   *)
(* invoice once and once more for every crash at most, a deposit once; an   *)
(* invoice whose name was used for something else may never be credited,    *)
(* and one reported without its name is credited at every report. A         *)
(* credit is taken by one trail at a time, which keeps it or gives it back; *)
(* and without a credit an agent has the free tier. A credit is lost only   *)
(* when the process crashes or the account's key is rotated while the trail *)
(* that took it is under way.                                               *)
(***************************************************************************)
EXTENDS Naturals

CONSTANTS Account, Agent, AgentOf, Exempt, Payment, Unnamed, Intent, Amount, FreeTrails, None

VARIABLES
  gen,        \* Account -> generation of its api_key
  left,       \* Account -> credits left
  held,       \* the api_key whose credit a trail has taken, or None
  served,     \* Account -> trails recorded on its credits
  month,      \* Agent -> trails recorded this month
  invoice,    \* Payment -> the order that has been paid, or None
  deposit,    \* Intent -> the order that a deposit has fulfilled, or None
  credited,   \* Payment -> times the order was credited
  deposited,  \* Intent -> times the order was credited
  acked,      \* payments that will not be reported again
  claimed,    \* payments whose name was used for something else
  crashes

absVars == <<gen, left, held, served, month, invoice, deposit, credited, deposited, acked, claimed, crashes>>

\* An order for some trails, made with a key that the account has or had.
Orders ==
  UNION {{[key |-> [account |-> c, gen |-> g], trails |-> n] : g \in 1..gen[c], n \in Amount} : c \in Account}

Good(key) == gen[key.account] = key.gen

AbsInit ==
  /\ gen = [c \in Account |-> 0]
  /\ left = [c \in Account |-> 0]
  /\ held = None
  /\ served = [c \in Account |-> 0]
  /\ month = [a \in Agent |-> 0]
  /\ invoice = [p \in Payment |-> None]
  /\ deposit = [i \in Intent |-> None]
  /\ credited = [p \in Payment |-> 0]
  /\ deposited = [i \in Intent |-> 0]
  /\ acked = {}
  /\ claimed = {}
  /\ crashes = 0

\* An account gets its first key, or a new one.
Renew(c) ==
  /\ gen' = [gen EXCEPT ![c] = @ + 1]
  /\ UNCHANGED <<left, held, served, month, invoice, deposit, credited, deposited, acked, claimed, crashes>>

PayInvoice(p, o) ==
  /\ invoice[p] = None
  /\ invoice' = [invoice EXCEPT ![p] = o]
  /\ UNCHANGED <<gen, left, held, served, month, deposit, credited, deposited, acked, claimed, crashes>>

PayDeposit(i, o) ==
  /\ deposit[i] = None
  /\ deposit' = [deposit EXCEPT ![i] = o]
  /\ UNCHANGED <<gen, left, held, served, month, invoice, credited, deposited, acked, claimed, crashes>>

\* The account of an order gets its trails.
Fill(o) ==
  /\ o # None /\ Good(o.key)
  /\ left' = [left EXCEPT ![o.key.account] = @ + o.trails]

\* A payment is known by its name: one that is reported without it is credited at
\* every report, and one whose name is taken not at all.
CreditInvoice(p) ==
  /\ Fill(invoice[p])
  /\ p \in Unnamed \/ (p \notin acked \cup claimed /\ credited[p] <= crashes)
  /\ credited' = [credited EXCEPT ![p] = @ + 1]
  /\ UNCHANGED <<gen, held, served, month, invoice, deposit, deposited, acked, claimed, crashes>>

CreditDeposit(i) ==
  /\ Fill(deposit[i])
  /\ deposited[i] = 0
  /\ deposited' = [deposited EXCEPT ![i] = 1]
  /\ UNCHANGED <<gen, held, served, month, invoice, deposit, credited, acked, claimed, crashes>>

\* Someone uses the name of a payment.
TakeName(p) ==
  /\ claimed' = claimed \cup {p}
  /\ UNCHANGED <<gen, left, held, served, month, invoice, deposit, credited, deposited, acked, crashes>>

Acknowledge(p) ==
  /\ credited[p] > 0 \/ p \in claimed \ Unnamed
  /\ acked' = acked \cup {p}
  /\ UNCHANGED <<gen, left, held, served, month, invoice, deposit, credited, deposited, claimed, crashes>>

Take(c) ==
  /\ held = None
  /\ left[c] > 0
  /\ left' = [left EXCEPT ![c] = @ - 1]
  /\ held' = [account |-> c, gen |-> gen[c]]
  /\ UNCHANGED <<gen, served, month, invoice, deposit, credited, deposited, acked, claimed, crashes>>

\* The trail is recorded for the credit it took; a pioneer trail is not counted.
Keep ==
  /\ held # None
  /\ served' = [served EXCEPT ![held.account] = @ + 1]
  /\ month' \in {month, [month EXCEPT ![AgentOf[held.account]] = @ + 1]}
  /\ held' = None
  /\ UNCHANGED <<gen, left, invoice, deposit, credited, deposited, acked, claimed, crashes>>

\* The trail is refused, and its credit goes back to the key it came from.
GiveBack ==
  /\ held # None
  /\ left' = [left EXCEPT ![held.account] = IF Good(held) THEN @ + 1 ELSE @]
  /\ held' = None
  /\ UNCHANGED <<gen, served, month, invoice, deposit, credited, deposited, acked, claimed, crashes>>

Free(a) ==
  /\ held = None
  /\ a \in Exempt \/ month[a] < FreeTrails
  /\ month' = [month EXCEPT ![a] = @ + 1]
  /\ UNCHANGED <<gen, left, held, served, invoice, deposit, credited, deposited, acked, claimed, crashes>>

Crash ==
  /\ crashes' = crashes + 1
  /\ held' = None
  /\ UNCHANGED <<gen, left, served, month, invoice, deposit, credited, deposited, acked, claimed>>

AbsNext ==
  \/ \E c \in Account : Renew(c) \/ Take(c)
  \/ \E p \in Payment :
       CreditInvoice(p) \/ TakeName(p) \/ Acknowledge(p) \/ \E o \in Orders : PayInvoice(p, o)
  \/ \E i \in Intent : CreditDeposit(i) \/ \E o \in Orders : PayDeposit(i, o)
  \/ Keep \/ GiveBack
  \/ \E a \in Agent : Free(a)
  \/ Crash

AbsSpec == AbsInit /\ [][AbsNext]_absVars

=============================================================================
