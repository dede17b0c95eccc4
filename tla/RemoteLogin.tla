---------------------------- MODULE RemoteLogin -----------------------------
(***************************************************************************)
(* Logging in to the remote access server (pnevma-remote): the handler of  *)
(* POST /api/auth/token with its lockout per client address                *)
(* (routes/auth_routes.rs), and the bearer tokens it hands out (auth.rs).  *)
(*                                                                         *)
(* Requests are answered on several threads.  A request is one step per    *)
(* operation on a concurrent map; the password is verified before any.     *)
(* Time passes in minutes.                                                 *)
(***************************************************************************)
EXTENDS Naturals, FiniteSets

CONSTANTS
    Ip,          \* client addresses
    Request,     \* requests under way at once
    Token,       \* bound: tokens ever issued
    Role,        \* "read_only", "operator"
    Threshold,   \* LOCKOUT_THRESHOLD
    MaxLockout,  \* MAX_LOCKOUT_MINUTES
    EvictAfter,  \* LOCKOUT_EVICT_AFTER_MINS
    Ttl,         \* token_ttl_hours, in minutes
    None

ASSUME LoginAssumption ==
    /\ Threshold \in Nat \ {0} /\ MaxLockout \in Nat \ {0} /\ Ttl \in Nat \ {0}
    /\ EvictAfter \in Nat /\ EvictAfter >= MaxLockout
    /\ None \notin Ip \cup Role

VARIABLES
    fails,     \* LoginLockoutState.attempts: recorded failures by address; no entry is 0
    since,     \* minutes since the last of them, up to EvictAfter + 1
    request,   \* what is left of each request
    tokens     \* TokenStore.tokens

loginVars == <<fails, since, request, tokens>>

Idle == [stage |-> "none", ip |-> None, role |-> None]
NoToken == [ip |-> None, role |-> None, age |-> 0]
Issued == {k \in Token : tokens[k] # NoToken}

-----------------------------------------------------------------------------
(* The lock doubles with each failure beyond the threshold, up to a cap.   *)
Lockout(n) ==
    LET exponent == IF n - Threshold < 4 THEN n - Threshold ELSE 4
    IN  IF 2 ^ exponent < MaxLockout THEN 2 ^ exponent ELSE MaxLockout

(* check_locked                                                            *)
Locked(ip) == fails[ip] >= Threshold /\ since[ip] < Lockout(fails[ip])

(* The failures that still count when another is recorded: none when they  *)
(* are stale, or when their lock has run out.                              *)
Counting(ip) == IF since[ip] > EvictAfter \/ fails[ip] >= Threshold THEN 0 ELSE fails[ip]

-----------------------------------------------------------------------------
(* create_token: the password is verified first, right or wrong.           *)
Begin(r, ip, right, role) ==
    /\ request[r] = Idle
    /\ request' = [request EXCEPT ![r] =
          [stage |-> IF right THEN "right" ELSE "wrong", ip |-> ip, role |-> role]]
    /\ UNCHANGED <<fails, since, tokens>>

(* check_and_record_failure: one operation on the entry of the address.    *)
Refuse(r) ==
    LET ip == request[r].ip
    IN  /\ request[r].stage = "wrong"
        /\ request' = [request EXCEPT ![r] = Idle]
        /\ IF Locked(ip) THEN UNCHANGED <<fails, since>>
           ELSE /\ fails' = [fails EXCEPT ![ip] = Counting(ip) + 1]
                /\ since' = [since EXCEPT ![ip] = 0]
        /\ UNCHANGED tokens

(* A right password is turned away too while the address is locked.        *)
CheckLocked(r) ==
    /\ request[r].stage = "right"
    /\ request' = [request EXCEPT ![r] =
          IF Locked(@.ip) THEN Idle ELSE [@ EXCEPT !.stage = "unlocked"]]
    /\ UNCHANGED <<fails, since, tokens>>

RecordSuccess(r) ==
    /\ request[r].stage = "unlocked"
    /\ fails' = [fails EXCEPT ![request[r].ip] = 0]
    /\ request' = [request EXCEPT ![r].stage = "cleared"]
    /\ UNCHANGED <<since, tokens>>

(* TokenStore::create_token                                                *)
Issue(r, k) ==
    /\ request[r].stage = "cleared"
    /\ tokens[k] = NoToken
    /\ tokens' = [tokens EXCEPT ![k] = [ip |-> request[r].ip, role |-> request[r].role, age |-> 0]]
    /\ request' = [request EXCEPT ![r] = Idle]
    /\ UNCHANGED <<fails, since>>

-----------------------------------------------------------------------------
(* validate_token: the middleware's answer to a request that brings k.     *)
Accepted(k, ip) == tokens[k] # NoToken /\ tokens[k].age < Ttl /\ tokens[k].ip = ip

(* DELETE /api/auth/revoke, behind the same middleware; what it names is   *)
(* the token it was let in with.                                           *)
Revoke(k, ip) ==
    /\ Accepted(k, ip)
    /\ tokens' = [tokens EXCEPT ![k] = NoToken]
    /\ UNCHANGED <<fails, since, request>>

\* slip: a token goes a minute early
AgedAnyway(k) == tokens[k].age + 1 >= Ttl

Expired(k) == tokens[k].age >= Ttl

(* cleanup_expired, every five minutes.                                    *)
CleanTokens ==
    /\ \E k \in Issued : Expired(k)
    /\ tokens' = [k \in Token |-> IF Expired(k) THEN NoToken ELSE tokens[k]]
    /\ UNCHANGED <<fails, since, request>>

\* slip: entries are dropped as soon as the shortest lock is over
StaleAfterMinute == {ip \in Ip : fails[ip] > 0}

(* LoginLockoutState::spawn_cleanup, every five minutes.                   *)
Stale == {ip \in Ip : fails[ip] > 0 /\ since[ip] >= EvictAfter}

CleanLockouts ==
    /\ Stale # {}
    /\ fails' = [ip \in Ip |-> IF ip \in Stale THEN 0 ELSE fails[ip]]
    /\ UNCHANGED <<since, request, tokens>>

Minute ==
    /\ since' = [ip \in Ip |-> IF since[ip] <= EvictAfter THEN since[ip] + 1 ELSE since[ip]]
    /\ tokens' = [k \in Token |->
          IF k \in Issued /\ tokens[k].age < Ttl THEN [tokens[k] EXCEPT !.age = @ + 1]
          ELSE tokens[k]]
    /\ UNCHANGED <<fails, request>>

-----------------------------------------------------------------------------
LoginInit ==
    /\ fails = [ip \in Ip |-> 0] /\ since = [ip \in Ip |-> 0]
    /\ request = [r \in Request |-> Idle]
    /\ tokens = [k \in Token |-> NoToken]

LoginNext ==
    \/ \E r \in Request, ip \in Ip, right \in BOOLEAN, role \in Role : Begin(r, ip, right, role)
    \/ \E r \in Request : Refuse(r) \/ CheckLocked(r) \/ RecordSuccess(r)
    \/ \E r \in Request, k \in Token : Issue(r, k)
    \/ \E k \in Token, ip \in Ip : Revoke(k, ip)
    \/ CleanTokens \/ CleanLockouts \/ Minute

LoginSpec == LoginInit /\ [][LoginNext]_loginVars

-----------------------------------------------------------------------------
(* The failures of an address never count beyond the threshold: the next   *)
(* one is refused, or starts from nothing.  (So the doubling of Lockout is *)
(* never used: every lock lasts a minute.)                                 *)
LoginTypeOK ==
    /\ fails \in [Ip -> 0 .. Threshold] /\ since \in [Ip -> 0 .. EvictAfter + 1]
    /\ \A r \in Request : request[r] = Idle \/ request[r].ip \in Ip
    /\ \A k \in Issued : tokens[k].age \in 0 .. Ttl /\ tokens[k].ip \in Ip

(* A locked address stays locked until its minute is over, whatever other  *)
(* requests and the sweep of old entries do; only a request with the right *)
(* password that was checked before the lock may lift it.                  *)
LockHolds ==
    [][\A ip \in Ip : Locked(ip) /\ ~Locked(ip)' =>
          \/ since'[ip] >= Lockout(fails[ip])
          \/ \E r \in Request : request[r].ip = ip /\ request[r].stage = "unlocked"
                                  /\ request'[r].stage = "cleared"]_loginVars

(* A token that was accepted is accepted until it is revoked or its time   *)
(* is over: the sweep takes none early, and nothing issued later replaces  *)
(* it.                                                                     *)
TokenLasts ==
    [][\A k \in Token, ip \in Ip : Accepted(k, ip) /\ ~Accepted(k, ip)' =>
          \/ Revoke(k, ip)
          \/ tokens'[k] # NoToken /\ tokens'[k].age = Ttl]_loginVars

(* Neither the lock of an address nor a token is lost early to what other  *)
(* requests and the sweeps do.                                             *)
LocksAndTokensLast == LockHolds /\ TokenLasts
=============================================================================
