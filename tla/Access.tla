------------------------------- MODULE Access -------------------------------
(***************************************************************************)
(* Who may do what: sign-in against rAthena's `login' table, tokens that   *)
(* nobody can take back, and the one decision that every route asks for    *)
(* (auth.py, deps.py, permissions.py, routers/auth.py, mint_token.py).     *)
(* One account; what it is allowed changes while its tokens live.          *)
(***************************************************************************)
EXTENDS Integers, Sequences, FiniteSets

CONSTANTS
    Groups,             \* group ids the account may be given
    ScopeSets,          \* what service tokens are minted for, at least one scope each
    Ttl,                \* token_ttl_seconds; and mint_token's days, as only the first
                        \* is in a property
    MaxTime, MaxTokens, MaxSecrets      \* bounds

KnownLevels == {0, 1, 2, 3, 4, 5, 10, 99}
Player == 0
Staff == 10
Admin == 99

Writes == {"accounts.write", "characters.write", "commands.write"}
Permissions == Writes \cup {"logs.read", "accounts.read", "characters.read",
                            "system.read", "commands.read"}
RequiredLevel(p) == IF p \in Writes THEN Admin ELSE Staff

ASSUME GroupAssumption == Groups \subseteq Nat
ASSUME ScopeAssumption == ScopeSets \subseteq SUBSET Permissions
ASSUME MintAssumption == {} \notin ScopeSets
ASSUME TtlAssumption == Ttl \in Nat

VARIABLES
    now,        \* seconds
    group,      \* the account's group_id; -1 where there is no account
    secret,     \* RO_ADMIN_JWT_SECRET: the number of the one in use
    tokens,     \* every token ever issued
    told,       \* what /auth/me has said of each: <<>>, or <<a set>>
    heldAt,     \* for each group, when the account was last in it; -1: never
    answer      \* the last answer to a call

accessVars == <<now, group, secret, tokens, told, heldAt, answer>>

NoAnswer == [token |-> 0, permission |-> "none", status |-> 0]
Unscoped == {"unscoped"}
-----------------------------------------------------------------------------
(***************************************************************************)
(* The decision.                                                           *)
(***************************************************************************)
\* An operator introduced as a mistake is never used: it is the definition
\* that follows it with one plausible slip, which a run's properties catch.

\* Mistake: a group that is not one of rAthena's keeps its number.
LevelOfAnyGroup(g) == g

LevelOf(g) == IF g \in KnownLevels THEN g ELSE Player

Valid(t) == tokens[t].secret = secret /\ now < tokens[t].exp

IsPermitted(t, p) ==
    IF tokens[t].scopes # Unscoped THEN p \in tokens[t].scopes
    ELSE tokens[t].lvl >= RequiredLevel(p)

\* current_principal and requires(): 401, 403, or on to the handler.
Gate(t, p) == IF t = 0 \/ ~Valid(t) THEN 401 ELSE IF IsPermitted(t, p) THEN 200 ELSE 403

\* Mistake: /auth/me keeps a decision of its own.
PermissionsByLevel(t) == {p \in Permissions : tokens[t].lvl >= RequiredLevel(p)}

PermissionsOf(t) == {p \in Permissions : IsPermitted(t, p)}
-----------------------------------------------------------------------------
AccessInit ==
    /\ now = 0 /\ group \in Groups /\ secret = 1
    /\ tokens = <<>> /\ told = <<>>
    /\ heldAt = [g \in Groups |-> IF g = group THEN 0 ELSE -1]
    /\ answer = NoAnswer

SecondPasses ==
    /\ now < MaxTime /\ now' = now + 1
    /\ heldAt' = [g \in Groups |-> IF g = group THEN now' ELSE heldAt[g]]
    /\ answer' = NoAnswer
    /\ UNCHANGED <<group, secret, tokens, told>>

\* Another program promotes, demotes or deletes the account.
SetGroup ==
    /\ \E g \in Groups \cup {-1} :
         /\ g # group /\ group' = g
         /\ heldAt' = IF g = -1 THEN heldAt ELSE [heldAt EXCEPT ![g] = now]
    /\ answer' = NoAnswer
    /\ UNCHANGED <<now, secret, tokens, told>>

\* The service is started again with another secret.
RotateSecret ==
    /\ secret < MaxSecrets /\ secret' = secret + 1 /\ answer' = NoAnswer
    /\ UNCHANGED <<now, group, tokens, told, heldAt>>

Issue(lvl, scopes) ==
    /\ Len(tokens) < MaxTokens
    /\ tokens' = Append(tokens, [lvl |-> lvl, scopes |-> scopes, exp |-> now + Ttl,
                                 secret |-> secret])
    /\ told' = Append(told, <<>>)
    /\ answer' = NoAnswer
    /\ UNCHANGED <<now, group, secret, heldAt>>

\* POST /auth/login with the right password: the group is read here and never again.
SignIn == group # -1 /\ Issue(LevelOf(group), Unscoped)

\* scripts/mint_token.py.
MintToken == \E scopes \in ScopeSets : Issue(Player, scopes)

\* GET /auth/me.
Me ==
    /\ \E t \in DOMAIN tokens : Valid(t) /\ told' = [told EXCEPT ![t] = <<PermissionsOf(t)>>]
    /\ answer' = NoAnswer
    /\ UNCHANGED <<now, group, secret, tokens, heldAt>>

\* Any route that requires p.
Call ==
    /\ \E t \in DOMAIN tokens, p \in Permissions :
         answer' = [token |-> t, permission |-> p, status |-> Gate(t, p)]
    /\ UNCHANGED <<now, group, secret, tokens, told, heldAt>>

AccessNext == SecondPasses \/ SetGroup \/ RotateSecret \/ SignIn \/ MintToken \/ Me \/ Call

AccessSpec == AccessInit /\ [][AccessNext]_accessVars
-----------------------------------------------------------------------------
(***************************************************************************)
(* Properties.                                                             *)
(***************************************************************************)
Granted == answer.status = 200

\* Whoever is let through by a sign-in was in one of rAthena's own groups, of
\* that level or above, within the life of a token: a demotion and a deletion
\* take effect by then, and a group of the operator's making gives nothing.
GrantWasEarned ==
    Granted /\ tokens[answer.token].scopes = Unscoped =>
        \E g \in Groups \cap KnownLevels :
            /\ g >= RequiredLevel(answer.permission)
            /\ heldAt[g] >= 0 /\ heldAt[g] + Ttl > now

\* What /auth/me tells a client is what enforcement does, for as long as the
\* token is good for anything: nothing offered is refused, and nothing allowed
\* is kept from view.
MeIsEnforced ==
    answer.status \in {200, 403} =>
        \A i \in DOMAIN told[answer.token] :
            Granted <=> answer.permission \in told[answer.token][i]

\* A changed secret ends every token at once, and a service token does nothing
\* that is not among its scopes.
TokensAreBounded ==
    Granted =>
        /\ tokens[answer.token].secret = secret
        /\ \/ tokens[answer.token].scopes = Unscoped
           \/ answer.permission \in tokens[answer.token].scopes

\* Together: whoever is let through was given it, and nobody has taken it back.
GrantWasGiven == GrantWasEarned /\ TokensAreBounded
=============================================================================
