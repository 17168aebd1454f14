--------------------------- MODULE MessageBalance ---------------------------
(***************************************************************************)
(* What a usage pack promises: every purchase that is paid adds its units  *)
(* to the balance of its contract once, nothing else adds to a balance,    *)
(* and a message is taken from a balance only while something is left.     *)
(***************************************************************************)
EXTENDS Naturals

CONSTANTS Purchases, Accounts, Units

VARIABLES paid,      \* pairs of a paid purchase and the account it is for
          credited,  \* those whose units have been added
          balance

TypeOK ==
  /\ paid \subseteq Purchases \X Accounts
  /\ credited \subseteq paid
  /\ balance \in [Accounts -> Nat]

Init ==
  /\ paid = {}
  /\ credited = {}
  /\ balance = [a \in Accounts |-> 0]

Pay(p, a) ==
  /\ \A b \in Accounts : <<p, b>> \notin paid
  /\ paid' = paid \cup {<<p, a>>}
  /\ UNCHANGED <<credited, balance>>

Credit(p, a) ==
  /\ <<p, a>> \in paid \ credited
  /\ credited' = credited \cup {<<p, a>>}
  /\ balance' = [balance EXCEPT ![a] = @ + Units]
  /\ UNCHANGED paid

Spend(a) ==
  /\ balance[a] > 0
  /\ balance' = [balance EXCEPT ![a] = @ - 1]
  /\ UNCHANGED <<paid, credited>>

Next ==
  \/ \E p \in Purchases, a \in Accounts : Pay(p, a) \/ Credit(p, a)
  \/ \E a \in Accounts : Spend(a)

Spec == Init /\ [][Next]_<<paid, credited, balance>>
=============================================================================
