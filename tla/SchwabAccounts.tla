--------------------------- MODULE SchwabAccounts ---------------------------
(***************************************************************************)
(* How the executor finds the account it trades in: get_accounts joins the *)
(* answers of two requests (api/schwab.cc), and get_account picks by name, *)
(* the last digits of the number (howling_tools/execute.cc).  An answer    *)
(* lists accounts in any order, and an account may be opened or closed     *)
(* between the two.                                                        *)
(***************************************************************************)
EXTENDS Naturals, Sequences, FiniteSets

CONSTANTS
    Numbers,  \* account numbers
    Name,     \* the last digits of each
    Balance,  \* the cash in each
    Flag      \* --account

ASSUME AccountsAssumption ==
    /\ IsFiniteSet(Numbers)
    /\ Balance \in [Numbers -> Nat]
    /\ DOMAIN Name = Numbers

\* The answers to the first request, and to the second.
Listings(open) ==
    {l \in [1..Cardinality(open) -> open] : \A i, j \in DOMAIN l : l[i] = l[j] => i = j}
Details(open) ==
    {[i \in DOMAIN l |-> [number |-> l[i], cash |-> Balance[l[i]]] ] : l \in Listings(open)}

\* What get_accounts checks before and while it joins the answers.
Matches(numbers, details) ==
    /\ Len(numbers) = Len(details)
    /\ \A i \in DOMAIN details : \E j \in DOMAIN numbers : numbers[j] = details[i].number

\* The details of each number, found by number.
JoinedByPlace(numbers, details) ==
    [i \in DOMAIN numbers |-> [number |-> numbers[i], cash |-> details[i].cash]]
Joined(numbers, details) ==
    [i \in DOMAIN numbers |->
        details[CHOOSE j \in DOMAIN details : details[j].number = numbers[i]]]

\* Which accounts have the name; get_account takes the first.
Named(accounts) == {i \in DOMAIN accounts : Name[accounts[i].number] = Flag}
First(places) == CHOOSE i \in places : \A j \in places : i <= j

=============================================================================
