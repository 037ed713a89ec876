------------------------------ MODULE Accounts ------------------------------
(***************************************************************************)
(* Who may use TrimTime: auth.service.ts (one-time codes, sign-in, token   *)
(* rotation, logout), users.service.ts and the creation of shops in        *)
(* shops.service.ts.  A call takes one step per await, so the calls of one *)
(* user interleave, and any call may stop where Redis or the database      *)
(* fails.  A token is what jwt.sign makes of its payload: the second it is *)
(* signed in, and the roles and shops of its user.                         *)
(***************************************************************************)
EXTENDS Integers, FiniteSets

CONSTANTS
  Users,        \* each has one phone number and one e-mail address
  Calls,        \* the calls that may be under way at one time
  Roles,        \* the roles that signing in grants
  Customer,     \* the role of a user whom a one-time code creates
  ShopOwner,    \* the role of the owner of a shop
  MaxAttempts,  \* OTP_MAX_ATTEMPTS
  Names,        \* what the names of shops make as slugs
  LastSuffix,   \* bound: suffixes of slugs
  LastSecond,   \* bound: the seconds in which tokens are signed
  Stories,      \* sets of operations; a behaviour calls those of one of them
  Nobody,
  NoToken

VARIABLES
  code,       \* users with an otp key
  attempts,   \* the otp:attempts key, 0 when there is none
  locked,     \* users with an otp:lock key
  present,    \* users with a row
  active,     \* users whose row has is_active
  granted,    \* how many rows of user_roles give a user a role in no shop
  shops,      \* rows of shops, each with its owner's role in it
  refresh,    \* the refresh key
  held,       \* the refresh tokens answered to a user's devices
  now,        \* the second
  story,      \* the operations of this behaviour
  call,       \* the calls under way
  wrong,      \* wrong answers since the attempts were cleared, counted to MaxAttempts
  overtaken,  \* users whose attempts were cleared while a call was about to count or lock
  signedOut   \* users who logged out, all their calls done, and have not signed in since

codes    == <<code, attempts, locked>>
rows     == <<present, active, granted, shops>>
sessions == <<refresh, held>>
ghosts   == <<wrong, overtaken, signedOut>>
accountVars == <<codes, rows, sessions, now, story, call, ghosts>>

Operations == {"requestOtp", "verifyOtp", "login", "refreshToken", "logout", "createShop"}

Steps ==
  {"idle", "begin", "setCode", "clear", "readCode", "compare", "count", "lock", "clearLocked",
   "succeed", "findUser", "create", "verify", "findRole", "grant", "readRoles", "store",
   "findActive", "findSlug", "insert"}

Slugs == Names \X (0..LastSuffix)

Tokens == [second : 0..LastSecond, roles : [Roles -> Nat], slugs : SUBSET Slugs]

ASSUME AccountsAssumption ==
  /\ IsFiniteSet(Calls)
  /\ MaxAttempts \in Nat \ {0}
  /\ LastSuffix \in Nat /\ LastSecond \in Nat
  /\ Customer \in Roles /\ ShopOwner \in Roles
  /\ Stories \subseteq SUBSET Operations
  /\ Nobody \notin Users /\ NoToken \notin Tokens

\* The arguments: the role asked for, the shop's name.
Args == Roles \cup Names \cup {Nobody}

\* A call that is not under way; seen is the number of attempts it read, token
\* the one it brought, then the one it signed, suffix the one it tries next.
Idle == [op |-> "none", at |-> "idle", user |-> Nobody, arg |-> Nobody, seen |-> 0,
         token |-> NoToken, suffix |-> 0]

At(c, step) == call[c].at = step

User(c) == call[c].user

Go(c, step) == call' = [call EXCEPT ![c].at = step]

End(c) == call' = [call EXCEPT ![c] = Idle]

OfUser(u) == {c \in Calls : User(c) = u}

ShopsOf(u) == {s \in shops : s.owner = u}

-----------------------------------------------------------------------------
(* A call begins, or stops.                                                *)

\* GqlJwtGuard: jwt.strategy.ts finds the token's user, and finds them active.
Guarded(op) == op \in {"logout", "createShop"}

ArgsOf(op) == CASE op = "login" -> Roles [] op = "createShop" -> Names [] OTHER -> {Nobody}

TokensOf(op, u) == IF op = "refreshToken" THEN held[u] ELSE {NoToken}

SignsIn(op) == op \in {"verifyOtp", "login"}

Start(c, op, u) ==
  /\ At(c, "idle")
  /\ Guarded(op) => u \in present \cap active
  /\ \E arg \in ArgsOf(op), token \in TokensOf(op, u) :
       call' = [call EXCEPT ![c] = [Idle EXCEPT !.op = op, !.at = "begin", !.user = u,
                                                !.arg = arg, !.token = token]]
  /\ signedOut' = IF SignsIn(op) THEN signedOut \ {u} ELSE signedOut
  /\ UNCHANGED <<codes, rows, sessions, now, story, wrong, overtaken>>

CallFails(c) ==
  /\ ~At(c, "idle")
  /\ End(c)
  /\ UNCHANGED <<codes, rows, sessions, now, story, ghosts>>

-----------------------------------------------------------------------------
(* One-time codes.                                                         *)

CheckLock(c) ==
  /\ At(c, "begin")
  /\ call[c].op \in {"requestOtp", "verifyOtp"}
  /\ IF User(c) \in locked THEN End(c)
     ELSE Go(c, IF call[c].op = "requestOtp" THEN "setCode" ELSE "readCode")
  /\ UNCHANGED <<codes, rows, sessions, now, story, ghosts>>

SetCode(c) ==
  /\ At(c, "setCode")
  /\ code' = code \cup {User(c)}
  /\ Go(c, "clear")
  /\ UNCHANGED <<attempts, locked, rows, sessions, now, story, ghosts>>

ReadCode(c) ==
  /\ At(c, "readCode")
  /\ IF User(c) \in code THEN Go(c, "compare") ELSE End(c)
  /\ UNCHANGED <<codes, rows, sessions, now, story, ghosts>>

\* One attempt too early.
IsOtpLockedEarly(n) == n + 1 >= MaxAttempts

\* One attempt too late.
IsOtpLockedLate(n) == n > MaxAttempts

IsOtpLocked(n) == n >= MaxAttempts

\* The attempts are read; a call that goes on compares the codes at once.
Compare(c) ==
  LET u == User(c) IN
  /\ At(c, "compare")
  /\ IF IsOtpLocked(attempts[u])
       THEN Go(c, "lock") /\ UNCHANGED wrong
       ELSE \/ /\ call' = [call EXCEPT ![c].at = "count", ![c].seen = attempts[u]]
               /\ wrong' = [wrong EXCEPT ![u] = IF @ < MaxAttempts THEN @ + 1 ELSE @]
            \/ Go(c, "succeed") /\ UNCHANGED wrong
  /\ UNCHANGED <<codes, rows, sessions, now, story, overtaken, signedOut>>

Count(c) ==
  /\ At(c, "count")
  /\ attempts' = [attempts EXCEPT ![User(c)] = call[c].seen + 1]
  /\ End(c)
  /\ UNCHANGED <<code, locked, rows, sessions, now, story, ghosts>>

Lock(c) ==
  /\ At(c, "lock")
  /\ locked' = locked \cup {User(c)}
  /\ Go(c, "clearLocked")
  /\ UNCHANGED <<code, attempts, rows, sessions, now, story, ghosts>>

\* requestOtp clears the attempts; verifyOtp clears the code as well, when it
\* has locked the phone and when the answer was right.
Clear(c) ==
  LET u == User(c)
      late == {d \in OfUser(u) \ {c} : call[d].at \in {"count", "lock"}}
  IN /\ call[c].at \in {"clear", "clearLocked", "succeed"}
     /\ attempts' = [attempts EXCEPT ![u] = 0]
     /\ wrong' = [wrong EXCEPT ![u] = 0]
     /\ overtaken' = IF late = {} THEN overtaken \ {u} ELSE overtaken \cup {u}
     /\ code' = IF At(c, "clear") THEN code ELSE code \ {u}
     /\ IF At(c, "succeed") THEN Go(c, "findUser") ELSE End(c)
     /\ UNCHANGED <<locked, rows, sessions, now, story, signedOut>>

\* The keys' time to live: 5 minutes, 5 minutes, 15 minutes.
KeysExpire(u) ==
  /\ \/ code' = code \ {u} /\ UNCHANGED <<attempts, locked>>
     \/ attempts' = [attempts EXCEPT ![u] = 0] /\ UNCHANGED <<code, locked>>
     \/ locked' = locked \ {u} /\ UNCHANGED <<code, attempts>>
  /\ UNCHANGED <<rows, sessions, now, story, call, ghosts>>

-----------------------------------------------------------------------------
(* Signing in.                                                             *)

\* verifyOtp after the right answer, login at its beginning.
FindUser(c) ==
  /\ At(c, "findUser") \/ (At(c, "begin") /\ call[c].op = "login")
  /\ Go(c, IF User(c) \notin present THEN "create"
           ELSE IF call[c].op = "verifyOtp" THEN "verify" ELSE "findRole")
  /\ UNCHANGED <<codes, rows, sessions, now, story, ghosts>>

\* Phone and e-mail are unique: a second insert throws.
CreateUser(c) ==
  LET u == User(c)
      role == IF call[c].op = "login" THEN call[c].arg ELSE Customer
  IN /\ At(c, "create")
     /\ IF u \in present
          THEN End(c) /\ UNCHANGED <<present, active, granted>>
          ELSE /\ present' = present \cup {u}
               /\ active' = active \cup {u}
               /\ granted' = [granted EXCEPT ![u][role] = @ + 1]
               /\ Go(c, "readRoles")
     /\ UNCHANGED <<shops, codes, sessions, now, story, ghosts>>

\* isVerified is written; no decision reads it.
MarkVerified(c) ==
  /\ At(c, "verify")
  /\ Go(c, "readRoles")
  /\ UNCHANGED <<codes, rows, sessions, now, story, ghosts>>

\* A row of user_roles, in a shop or in none.
HasRole(u, r) == granted[u][r] # 0 \/ (r = ShopOwner /\ ShopsOf(u) # {})

FindRole(c) ==
  /\ At(c, "findRole")
  /\ Go(c, IF HasRole(User(c), call[c].arg) THEN "readRoles" ELSE "grant")
  /\ UNCHANGED <<codes, rows, sessions, now, story, ghosts>>

\* unique_user_role_shop lets rows without a shop be repeated.
GrantRole(c) ==
  /\ At(c, "grant")
  /\ granted' = [granted EXCEPT ![User(c)][call[c].arg] = @ + 1]
  /\ Go(c, "readRoles")
  /\ UNCHANGED <<present, active, shops, codes, sessions, now, story, ghosts>>

\* generateTokens signs what it reads, in the second it reads it.
ReadRoles(c) ==
  LET u == User(c)
      token == [second |-> now, roles |-> granted[u], slugs |-> {s.slug : s \in ShopsOf(u)}]
  IN /\ At(c, "readRoles")
     /\ call' = [call EXCEPT ![c].at = "store", ![c].token = token]
     /\ UNCHANGED <<codes, rows, sessions, now, story, ghosts>>

\* The token is stored over the one before, and answered.
Store(c) ==
  LET u == User(c) IN
  /\ At(c, "store")
  /\ refresh' = [refresh EXCEPT ![u] = call[c].token]
  /\ held' = [held EXCEPT ![u] = @ \cup {call[c].token}]
  /\ End(c)
  /\ UNCHANGED <<codes, rows, now, story, ghosts>>

\* Any token whose signature is good.
AnyToken(c) ==
  /\ At(c, "begin")
  /\ call[c].op = "refreshToken"
  /\ Go(c, "findActive")
  /\ UNCHANGED <<codes, rows, sessions, now, story, ghosts>>

\* refreshToken: the token must be the one stored.
CompareToken(c) ==
  /\ At(c, "begin")
  /\ call[c].op = "refreshToken"
  /\ IF refresh[User(c)] = call[c].token THEN Go(c, "findActive") ELSE End(c)
  /\ UNCHANGED <<codes, rows, sessions, now, story, ghosts>>

FindActive(c) ==
  /\ At(c, "findActive")
  /\ IF User(c) \in active THEN Go(c, "readRoles") ELSE End(c)
  /\ UNCHANGED <<codes, rows, sessions, now, story, ghosts>>

\* logout deletes the refresh key.
Logout(c) ==
  LET u == User(c) IN
  /\ At(c, "begin")
  /\ call[c].op = "logout"
  /\ refresh' = [refresh EXCEPT ![u] = NoToken]
  /\ signedOut' = IF OfUser(u) = {c} THEN signedOut \cup {u} ELSE signedOut
  /\ End(c)
  /\ UNCHANGED <<codes, rows, held, now, story, wrong, overtaken>>

\* The refresh key lives for 30 days.
SessionLapses(u) ==
  /\ refresh' = [refresh EXCEPT ![u] = NoToken]
  /\ UNCHANGED <<codes, rows, held, now, story, call, ghosts>>

\* UsersService.deactivate, which no resolver calls.
Deactivate(u) ==
  /\ "refreshToken" \in story
  /\ u \in present
  /\ active' = active \ {u}
  /\ UNCHANGED <<present, granted, shops, codes, sessions, now, story, call, ghosts>>

-----------------------------------------------------------------------------
(* Opening a shop.                                                         *)

\* Whoever has a shop may open another one.
FindNoShop(c) ==
  /\ At(c, "begin")
  /\ call[c].op = "createShop"
  /\ Go(c, "findSlug")
  /\ UNCHANGED <<codes, rows, sessions, now, story, ghosts>>

FindOwnShop(c) ==
  /\ At(c, "begin")
  /\ call[c].op = "createShop"
  /\ IF ShopsOf(User(c)) = {} THEN Go(c, "findSlug") ELSE End(c)
  /\ UNCHANGED <<codes, rows, sessions, now, story, ghosts>>

Slug(c) == <<call[c].arg, call[c].suffix>>

\* A suffix is drawn at random, as uniqueSlug of shared-utils does.
RandomSlug(c) ==
  /\ At(c, "findSlug")
  /\ \E n \in 0..LastSuffix : call' = [call EXCEPT ![c].suffix = n, ![c].at = "insert"]
  /\ UNCHANGED <<codes, rows, sessions, now, story, ghosts>>

Taken(slug) == \E s \in shops : s.slug = slug

\* One round of the loop of generateUniqueSlug.
FindSlug(c) ==
  /\ At(c, "findSlug")
  /\ IF Taken(Slug(c))
       THEN call[c].suffix < LastSuffix /\ call' = [call EXCEPT ![c].suffix = @ + 1]
       ELSE Go(c, "insert")
  /\ UNCHANGED <<codes, rows, sessions, now, story, ghosts>>

\* The transaction writes the shop, its main branch and its owner's role, or
\* throws when the slug was taken meanwhile.
InsertShop(c) ==
  /\ At(c, "insert")
  /\ shops' = IF Taken(Slug(c)) THEN shops
              ELSE shops \cup {[owner |-> User(c), slug |-> Slug(c)]}
  /\ End(c)
  /\ UNCHANGED <<present, active, granted, codes, sessions, now, story, ghosts>>

-----------------------------------------------------------------------------

Tick ==
  /\ now < LastSecond
  /\ now' = now + 1
  /\ UNCHANGED <<codes, rows, sessions, story, call, ghosts>>

AccountsInit ==
  /\ code = {} /\ attempts = [u \in Users |-> 0] /\ locked = {}
  /\ present = {} /\ active = {} /\ shops = {}
  /\ granted = [u \in Users |-> [r \in Roles |-> 0]]
  /\ refresh = [u \in Users |-> NoToken] /\ held = [u \in Users |-> {}]
  /\ now = 0
  /\ story \in Stories
  /\ call = [c \in Calls |-> Idle]
  /\ wrong = [u \in Users |-> 0] /\ overtaken = {} /\ signedOut = {}

OneTimeCode(c) ==
  CheckLock(c) \/ SetCode(c) \/ ReadCode(c) \/ Compare(c) \/ Count(c) \/ Lock(c) \/ Clear(c)

SignIn(c) == FindUser(c) \/ CreateUser(c) \/ MarkVerified(c) \/ FindRole(c) \/ GrantRole(c)

Session(c) == ReadRoles(c) \/ Store(c) \/ CompareToken(c) \/ FindActive(c) \/ Logout(c)

OpenShop(c) == FindOwnShop(c) \/ FindSlug(c) \/ InsertShop(c)

AccountsNext ==
  \/ \E c \in Calls : \/ \E op \in story, u \in Users : Start(c, op, u)
                      \/ CallFails(c)
                      \/ OneTimeCode(c) \/ SignIn(c) \/ Session(c) \/ OpenShop(c)
  \/ \E u \in Users : KeysExpire(u) \/ SessionLapses(u) \/ Deactivate(u)
  \/ Tick

AccountsSpec == AccountsInit /\ [][AccountsNext]_accountVars

-----------------------------------------------------------------------------
(* Properties.                                                             *)

CallType ==
  [op : Operations \cup {"none"}, at : Steps, user : Users \cup {Nobody}, arg : Args,
   seen : 0..MaxAttempts, token : Tokens \cup {NoToken}, suffix : 0..LastSuffix]

\* The counter of attempts never passes OTP_MAX_ATTEMPTS, although overlapping
\* calls write back what they read (auth.service.ts verifyOtp).
AccountsTypeOK ==
  /\ code \subseteq Users /\ locked \subseteq Users
  /\ present \subseteq Users /\ active \subseteq present
  /\ attempts \in [Users -> 0..MaxAttempts]
  /\ granted \in [Users -> [Roles -> Nat]]
  /\ shops \subseteq [owner : Users, slug : Slugs]
  /\ refresh \in [Users -> Tokens \cup {NoToken}]
  /\ held \in [Users -> SUBSET Tokens]
  /\ now \in 0..LastSecond
  /\ story \subseteq Operations
  /\ call \in [Calls -> CallType]
  /\ wrong \in [Users -> 0..MaxAttempts]
  /\ overtaken \subseteq Users /\ signedOut \subseteq Users

\* A phone is locked only after OTP_MAX_ATTEMPTS wrong answers since its code
\* was requested, however verifyOtp calls overlap, unless a new code cleared
\* the attempts under a call that was about to write an older count.
LockedByWrongAnswers ==
  [][\A u \in Users : u \in locked' \ locked /\ u \notin overtaken => wrong[u] = MaxAttempts]_accountVars

\* Between a logout that nothing of the user overlapped and the next sign-in
\* there is no session: no token from before brings it back by refreshToken.
LoggedOutStaysOut == \A u \in signedOut : refresh[u] = NoToken

\* createShop asks for the owner's shop before it inserts one, and login for the
\* role, which the unique index does not see on rows without a shop: there are
\* no more copies than calls can overlap, hence one if they never do.
NoMoreThanOverlaps ==
  \A u \in Users :
    /\ Cardinality(ShopsOf(u)) <= Cardinality(Calls)
    /\ \A r \in Roles : granted[u][r] <= Cardinality(Calls)

\* The slugs of shops of one name are numbered without gaps, also when two
\* calls look for a free one at a time (generateUniqueSlug, insert).
SlugsWithoutGaps ==
  \A s \in shops : \A n \in 0..LastSuffix : n < s.slug[2] => Taken(<<s.slug[1], n>>)

-----------------------------------------------------------------------------
(* What makes them inductive.                                              *)

\* The steps that a call of an operation may be at.
StepsOf(op) ==
  CASE op = "none"         -> {"idle"}
    [] op = "requestOtp"   -> {"begin", "setCode", "clear"}
    [] op = "verifyOtp"    -> {"begin", "readCode", "compare", "count", "lock", "clearLocked", "succeed",
                               "findUser", "create", "verify", "readRoles", "store"}
    [] op = "login"        -> {"begin", "create", "findRole", "grant", "readRoles", "store"}
    [] op = "refreshToken" -> {"begin", "findActive", "readRoles", "store"}
    [] op = "logout"       -> {"begin"}
    [] op = "createShop"   -> {"begin", "findSlug", "insert"}

\* A call has what its next step needs; it counts only what was not yet too much.
LegalCall(d) ==
  /\ d \in CallType
  /\ d.at \in StepsOf(d.op)
  /\ d.op # "none" => d.user \in Users
  /\ d.op = "login" => d.arg \in Roles
  /\ d.op = "createShop" => d.arg \in Names
  /\ d.at = "count" => d.seen < MaxAttempts
  /\ d.op = "refreshToken" \/ d.at = "store" => d.token \in Tokens

CallsLegal == AccountsTypeOK /\ \A c \in Calls : LegalCall(call[c])

\* Behind LoggedOutStaysOut: none of the user's calls can sign a token.
SignedOutQuiet ==
  \A u \in signedOut :
    /\ refresh[u] = NoToken
    /\ \A c \in OfUser(u) : ~SignsIn(call[c].op) /\ (call[c].op = "refreshToken" => At(c, "begin"))

\* Behind LockedByWrongAnswers: nothing is written or about to be written that
\* counts more than the wrong answers.
AttemptsAnswered ==
  \A u \in Users \ overtaken :
    /\ attempts[u] <= wrong[u]
    /\ \A c \in OfUser(u) : /\ At(c, "count") => call[c].seen < wrong[u]
                            /\ At(c, "lock") => wrong[u] = MaxAttempts

\* Behind SlugsWithoutGaps: whoever tries a suffix found the smaller ones taken.
SmallerSlugsTaken ==
  \A c \in Calls : call[c].at \in {"begin", "findSlug", "insert"} =>
    \A n \in 0..LastSuffix : n < call[c].suffix => Taken(<<call[c].arg, n>>)

\* Behind NoMoreThanOverlaps: the calls that saw nothing, and will write.
Opening(u) == {c \in OfUser(u) : call[c].at \in {"findSlug", "insert"}}

EachShopHadItsCall ==
  /\ IsFiniteSet(shops)
  /\ \A u \in Users : Cardinality(ShopsOf(u)) + Cardinality(Opening(u)) <= Cardinality(Calls)

RoleAsked(c) == IF call[c].op = "login" THEN call[c].arg ELSE Customer

Granting(u, r) == {c \in OfUser(u) : call[c].at \in {"create", "grant"} /\ RoleAsked(c) = r}

EachRowHadItsCall ==
  /\ \A u \in Users, r \in Roles :
       /\ granted[u][r] + Cardinality(Granting(u, r)) <= Cardinality(Calls)
       /\ u \notin present => granted[u][r] = 0
  /\ \A c \in Calls : call[c].at \in {"verify", "findRole", "grant"} => User(c) \in present
=============================================================================
