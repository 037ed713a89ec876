----------------------------- MODULE MCRedisKeys -----------------------------
(***************************************************************************)
(* Small instances of what the API keeps in Redis, each key with its time  *)
(* to live: the counters of ticket numbers, and the codes, attempts, locks *)
(* and refresh tokens of the accounts.  The two share no key, so each      *)
(* behaviour moves one of them.                                            *)
(***************************************************************************)
EXTENDS TicketCounter, Accounts, TLC

VARIABLE part

keyVars == <<part, vars, accountVars>>

\* What the calls of a behaviour are about: one-time codes, sessions, shops.
ThreeStories ==
  {{"requestOtp", "verifyOtp"}, {"login", "refreshToken", "logout"}, {"login", "createShop"}}

\* Joins are interchangeable, and so are calls.
Symmetry == Permutations(Joins) \cup Permutations(Calls)

Counting == part = "tickets" /\ Next /\ UNCHANGED <<part, accountVars>>

SigningIn == part = "accounts" /\ AccountsNext /\ UNCHANGED <<part, vars>>

KeysInit ==
  /\ part \in {"tickets", "accounts"}
  /\ Init /\ AccountsInit
  /\ part = "tickets" => story = CHOOSE s \in Stories : TRUE

KeysSpec == KeysInit /\ [][Counting \/ SigningIn]_keyVars
=============================================================================
